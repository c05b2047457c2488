------------------------------ MODULE SqlGoods ------------------------------
(***************************************************************************)
(* The SQL store's characters, vendors, auctions, mail and currency ledger. *)
(*                                                                         *)
(* The store has one connection: a transaction is one step.  What is not   *)
(* one step are the Update... operations, which read a character, give the *)
(* connection back, and save the whole row later without looking at its    *)
(* version (UpdateRead, then an Update...).                                *)
(*                                                                         *)
(* Callers retry with the mutation key of their first try, so every        *)
(* operation may come again at any time.  The primary and unique keys of   *)
(* all tables of rows that are only ever inserted are one set, `rows`.     *)
(* One kind of item, which does not stack, is enough for what is stated:   *)
(* a bag is the set of its slots in use.                                   *)
(***************************************************************************)
EXTENDS SqlConnection, Integers, FiniteSets, FiniteSetsExt

CONSTANTS
    Heroes,                 \* those of the instance with quests and abilities
    Slots, BarSlots,        \* of a bag and of an action bar, numbers
    Keys, NoKey,            \* mutation keys, and none
    Auctions, Mails,        \* identifiers
    Writers,                \* requests under way in Update... operations
    Start,                  \* the copper of a new character
    Buyout, Deposit, Price, \* prices
    MaxCommits              \* bound: transactions that change something

ASSUME SqlGoodsAssumption ==
    /\ Slots \subseteq Nat /\ IsFiniteSet(Slots) /\ Slots # {}
    /\ IsFiniteSet(Characters) /\ IsFiniteSet(Auctions) /\ IsFiniteSet(Mails)
    /\ Heroes \subseteq Characters /\ NoKey \notin Keys
    /\ {Start, Buyout, Deposit, Price, MaxCommits} \subseteq Nat

VARIABLES
    chars,      \* character -> its aggregate
    rows,       \* the keys in use: <<table, scope, key>>
    ledger,     \* character -> the sum of its rows in the currency ledger
    listings,   \* auction -> listing
    mails,      \* mail -> its recipient and the attachments left
    writer,     \* writer -> the character it read, before its save
    held,       \* the one connection waits for itself
    commits,
    made,       \* history: items that came into being, minus those that ended
    paid,       \* history: character -> copper of quest rewards
    applied,    \* history: <<character, operation, of, key>> that had an effect,
    twice       \* and whether one had it twice
goods == <<chars, rows, ledger, listings, mails, writer, held, commits, made, paid, applied, twice>>

AllKeys == Keys \cup {NoKey}
Character ==
    [copper : Nat, bag : SUBSET Slots, quest : {"none", "active", "rewarded"},
     learned : BOOLEAN, bar : SUBSET BarSlots]
Listing == [seller : Characters \cup {Nobody}, state : {"none", "active", "sold", "canceled"}]
Mail == [to : Characters \cup {Nobody}, item : BOOLEAN, copper : BOOLEAN]

(* With the starter's provisions in the first slot. *)
CreateCharacter ==
    [copper |-> Start, bag |-> {Min(Slots)}, quest |-> "none", learned |-> FALSE, bar |-> {}]

GoodsInit ==
    /\ chars = [c \in Characters |-> CreateCharacter]
    /\ rows = {}
    /\ ledger = [c \in Characters |-> 0]
    /\ listings = [a \in Auctions |-> [seller |-> Nobody, state |-> "none"]]
    /\ mails = [m \in Mails |-> [to |-> Nobody, item |-> FALSE, copper |-> FALSE]]
    /\ writer = [w \in Writers |-> [of |-> Nobody, read |-> CreateCharacter]]
    /\ held = FALSE
    /\ commits = 0
    /\ made = Cardinality(Characters)
    /\ paid = [c \in Characters |-> 0]
    /\ applied = {} /\ twice = FALSE

-----------------------------------------------------------------------------
(* What transactions are made of. *)

(* Slots of an ability that is not learned are cleared in every save. *)
NormalizeActionBarSlots(ch) == [ch EXCEPT !.bar = IF ch.learned THEN @ ELSE {}]

(* The expected version is that of this very transaction: it never fails here. *)
SaveCharacterWithVersion(c, ch) == chars' = [chars EXCEPT ![c] = NormalizeActionBarSlots(ch)]

Free(bag) == Slots \ bag
GrantItemToInventory(bag) == bag \cup {Min(Free(bag))}

(* Rows without a key are not in the partial unique indexes. *)
Keyed(inserts) == {r \in inserts : r[3] # NoKey}
Insert(inserts) ==
    /\ Keyed(inserts) \cap rows = {}
    /\ rows' = rows \cup Keyed(inserts)

LedgerRow(c, op, key) == <<"currency", <<c, op>>, key>>
VendorTransaction(c, kind, key) == <<"vendor", <<c, kind>>, key>>
AuctionTransaction(a, kind, key) == <<"auction", <<a, kind>>, key>>
EconomyMutation(c, op, key) == <<"economy", <<c, op>>, key>>
CharacterMutation(c, op, key) == <<"state", <<c, op>>, key>>
ListingRow(c, key) == <<"listing", c, key>>
ClaimRow(m, key) == <<"claim", m, key>>

Replayed(row) == row \in rows

(* `of` is what the call is about, if retries are told apart by it. *)
WithTransaction(c, op, of, key) ==
    /\ ~held /\ commits < MaxCommits
    /\ commits' = commits + 1
    /\ applied' = IF key = NoKey THEN applied ELSE applied \cup {<<c, op, of, key>>}
    /\ twice' = (twice \/ <<c, op, of, key>> \in applied)

-----------------------------------------------------------------------------
(* Mutations of a character's state, replayed by key. *)

WrongMutateCharacterState(c, op, key, ch) ==
    /\ WithTransaction(c, op, Nobody, key)
    /\ SaveCharacterWithVersion(c, ch)
    /\ rows' = rows
    /\ UNCHANGED <<ledger, listings, mails, writer, held>>

MutateCharacterState(c, op, key, ch) ==
    /\ ~Replayed(CharacterMutation(c, op, key))
    /\ WithTransaction(c, op, Nobody, key)
    /\ SaveCharacterWithVersion(c, ch)
    /\ Insert({CharacterMutation(c, op, key)})
    /\ UNCHANGED <<ledger, listings, mails, writer, held>>

MoveInventorySlot(c, key, from, to) ==
    LET bag == chars[c].bag
    IN  /\ from # to /\ from \in bag
        /\ MutateCharacterState(c, "inventory.move", key,
              [chars[c] EXCEPT !.bag = IF to \in bag THEN bag ELSE (bag \ {from}) \cup {to}])
        /\ UNCHANGED <<made, paid>>

GrantInventoryItem(c, key) ==
    /\ Free(chars[c].bag) # {}
    /\ MutateCharacterState(c, "inventory.grant", key,
          [chars[c] EXCEPT !.bag = GrantItemToInventory(@)])
    /\ made' = made + 1
    /\ UNCHANGED paid

AcceptQuestProgress(c, key) ==
    /\ chars[c].quest = "none"
    /\ MutateCharacterState(c, "quest.accept", key, [chars[c] EXCEPT !.quest = "active"])
    /\ UNCHANGED <<made, paid>>

(* The caller's progress replaces the store's, be that already rewarded. *)
UpdateQuestProgress(c, key) ==
    /\ chars[c].quest # "none"
    /\ chars[c].quest = "rewarded" => "lateprogress" \in Races
    /\ MutateCharacterState(c, "quest.progress", key, [chars[c] EXCEPT !.quest = "active"])
    /\ UNCHANGED <<made, paid>>


(* Items first: a bag without room for them fails the whole transaction.  The *)
(* copper gets no row in the ledger.                                          *)
CompleteQuestWithReward(c, key) ==
    /\ chars[c].quest = "active"
    /\ Free(chars[c].bag) # {}
    /\ MutateCharacterState(c, "quest.reward", key,
          [chars[c] EXCEPT !.quest = "rewarded", !.copper = @ + Price, !.bag = GrantItemToInventory(@)])
    /\ made' = made + 1
    /\ paid' = [paid EXCEPT ![c] = @ + Price]

GrantLearnedAbility(c, key) ==
    /\ MutateCharacterState(c, "ability.grant", key, [chars[c] EXCEPT !.learned = TRUE])
    /\ UNCHANGED <<made, paid>>

AssignActionBarSlot(c, key, s) ==
    /\ chars[c].learned
    /\ MutateCharacterState(c, "actionbar.assign", key, [chars[c] EXCEPT !.bar = @ \cup {s}])
    /\ UNCHANGED <<made, paid>>

MoveActionBarSlot(c, key, from, to) ==
    LET bar == chars[c].bar
    IN  /\ from # to /\ from \in bar
        /\ MutateCharacterState(c, "actionbar.move", key,
              [chars[c] EXCEPT !.bar = IF to \in bar THEN bar ELSE (bar \ {from}) \cup {to}])
        /\ UNCHANGED <<made, paid>>

ClearActionBarSlot(c, key, s) ==
    /\ MutateCharacterState(c, "actionbar.clear", key, [chars[c] EXCEPT !.bar = @ \ {s}])
    /\ UNCHANGED <<made, paid>>

-----------------------------------------------------------------------------
(* Read in one transaction, saved in another. *)

UpdateRead(w, c) ==
    /\ ~held
    /\ writer[w].of = Nobody
    /\ writer' = [writer EXCEPT ![w] = [of |-> c, read |-> chars[c]]]
    /\ UNCHANGED <<chars, rows, ledger, listings, mails, held, commits, made, paid, applied, twice>>

(* saveCharacter writes the row and the collections as they were read, but for *)
(* the field it is about.  No version is checked and none is counted up.       *)
SaveCharacter(w, ch) ==
    LET c == writer[w].of
    IN  /\ ~held /\ c # Nobody
        /\ chars[c] # writer[w].read => "unversioned" \in Races
        /\ chars' = [chars EXCEPT ![c] = NormalizeActionBarSlots(ch)]
        /\ writer' = [writer EXCEPT ![w] = [of |-> Nobody, read |-> CreateCharacter]]
        /\ UNCHANGED <<rows, ledger, listings, mails, held, commits, made, paid, applied, twice>>

(* What the caller has takes the place of what was read: a rewarded quest may  *)
(* be open again ("lateprogress"), and copper without a row in the ledger or a *)
(* bag with other items in it is stored as it is given ("asgiven").            *)
GivenQuests(w) ==
    IF writer[w].read.quest = "rewarded" /\ "lateprogress" \notin Races THEN {"rewarded"}
    ELSE {"none", "active", "rewarded"}
GivenCopper(w) == IF "asgiven" \in Races THEN 0..Start ELSE {writer[w].read.copper}
GivenBags(w) == IF "asgiven" \in Races THEN SUBSET Slots ELSE {writer[w].read.bag}

UpdateCharacterTrackedQuests(w) == SaveCharacter(w, writer[w].read)
UpdateCharacterQuestProgress(w) ==
    \E quest \in GivenQuests(w) : SaveCharacter(w, [writer[w].read EXCEPT !.quest = quest])
UpdateCharacterEconomy(w) ==
    \E copper \in GivenCopper(w), bag \in GivenBags(w) :
        SaveCharacter(w, [writer[w].read EXCEPT !.copper = copper, !.bag = bag])
UpdateCharacterProgression(w) ==
    \E copper \in GivenCopper(w), bag \in GivenBags(w), quest \in GivenQuests(w),
       learned \in BOOLEAN, bar \in SUBSET BarSlots :
        SaveCharacter(w, [copper |-> copper, bag |-> bag, quest |-> quest, learned |-> learned, bar |-> bar])
UpdateLearnedAbilities(w) == SaveCharacter(w, [writer[w].read EXCEPT !.learned = ~@])
UpdateActionBarSlots(w, bar) ==
    writer[w].read.learned /\ SaveCharacter(w, [writer[w].read EXCEPT !.bar = bar])
(* The collections only: the row, and with it the copper, stays. *)
UpdateCharacterInventory(w) ==
    /\ writer[w].of # Nobody
    /\ \E bag \in GivenBags(w) :
          SaveCharacter(w, [writer[w].read EXCEPT !.copper = chars[writer[w].of].copper, !.bag = bag])

-----------------------------------------------------------------------------
(* Currency and vendors. *)

AppendCurrencyMutation(c, key, delta) ==
    /\ ~Replayed(LedgerRow(c, "currency.adjust", key))
    /\ chars[c].copper + delta >= 0
    /\ WithTransaction(c, "currency.adjust", Nobody, key)
    /\ SaveCharacterWithVersion(c, [chars[c] EXCEPT !.copper = @ + delta])
    /\ Insert({LedgerRow(c, "currency.adjust", key)})
    /\ ledger' = [ledger EXCEPT ![c] = @ + delta]
    /\ UNCHANGED <<listings, mails, writer, held, made, paid>>

VendorRows(c, op, kind, key) ==
    {LedgerRow(c, op, key), VendorTransaction(c, kind, key), EconomyMutation(c, op, key)}

BuyVendorItem(c, key) ==
    /\ ~Replayed(EconomyMutation(c, "vendor.buy", key))
    /\ chars[c].copper >= Price /\ Free(chars[c].bag) # {}
    /\ WithTransaction(c, "vendor.buy", Nobody, key)
    /\ SaveCharacterWithVersion(c, [chars[c] EXCEPT !.copper = @ - Price, !.bag = GrantItemToInventory(@)])
    /\ Insert(VendorRows(c, "vendor.buy", "buy", key))
    /\ ledger' = [ledger EXCEPT ![c] = @ - Price]
    /\ made' = made + 1
    /\ UNCHANGED <<listings, mails, writer, held, paid>>

SellVendorItem(c, key, s) ==
    /\ ~Replayed(EconomyMutation(c, "vendor.sell", key))
    /\ s \in chars[c].bag
    /\ WithTransaction(c, "vendor.sell", Nobody, key)
    /\ SaveCharacterWithVersion(c, [chars[c] EXCEPT !.copper = @ + Price, !.bag = @ \ {s}])
    /\ Insert(VendorRows(c, "vendor.sell", "sell", key))
    /\ ledger' = [ledger EXCEPT ![c] = @ + Price]
    /\ made' = made - 1
    /\ UNCHANGED <<listings, mails, writer, held, paid>>

-----------------------------------------------------------------------------
(* The market.  Only the listing of an auction is replayed by its key. *)

CreateAuctionListing(c, key, a, s) ==
    /\ ~Replayed(ListingRow(c, key))
    /\ listings[a].state = "none" /\ s \in chars[c].bag /\ chars[c].copper >= Deposit
    /\ WithTransaction(c, "auction.list", Nobody, key)
    /\ SaveCharacterWithVersion(c, [chars[c] EXCEPT !.copper = @ - Deposit, !.bag = @ \ {s}])
    /\ Insert({ListingRow(c, key), AuctionTransaction(a, "listed", key)}
              \cup (IF Deposit > 0 THEN {LedgerRow(c, "auction.list", key)} ELSE {}))
    /\ ledger' = [ledger EXCEPT ![c] = @ - Deposit]
    /\ listings' = [listings EXCEPT ![a] = [seller |-> c, state |-> "active"]]
    /\ UNCHANGED <<mails, writer, held, made, paid>>

(* Five percent, and one copper at least. *)
Cut == IF Buyout > 0 /\ Buyout < 20 THEN 1 ELSE (Buyout * 5) \div 100
Proceeds == Max({Buyout - Cut + Deposit, 0})

WrongBuyoutAuction(c, key, a) ==
    LET seller == listings[a].seller
        bought == [chars[c] EXCEPT !.copper = @ - Buyout, !.bag = GrantItemToInventory(@)]
        sold == [chars[seller] EXCEPT !.copper = @ + Proceeds]
    IN  /\ listings[a].state # "none" /\ seller # c
        /\ chars[c].copper >= Buyout /\ Free(chars[c].bag) # {}
        /\ WithTransaction(c, "auction.buyout", a, key)
        /\ chars' = [chars EXCEPT ![c] = bought, ![seller] = sold]
        /\ Insert({LedgerRow(c, "auction.buyout", key), LedgerRow(seller, "auction.proceeds", key),
                   AuctionTransaction(a, "buyout", key)})
        /\ ledger' = [ledger EXCEPT ![c] = @ - Buyout, ![seller] = @ + Proceeds]
        /\ listings' = [listings EXCEPT ![a].state = "sold"]
        /\ UNCHANGED <<mails, writer, held, made, paid>>

BuyoutAuction(c, key, a) ==
    LET seller == listings[a].seller
        bought == [chars[c] EXCEPT !.copper = @ - Buyout, !.bag = GrantItemToInventory(@)]
        sold == [chars[seller] EXCEPT !.copper = @ + Proceeds]
    IN  /\ listings[a].state = "active" /\ seller # c
        /\ chars[c].copper >= Buyout /\ Free(chars[c].bag) # {}
        /\ WithTransaction(c, "auction.buyout", a, key)
        /\ chars' = [chars EXCEPT ![c] = bought, ![seller] = sold]
        /\ Insert({LedgerRow(c, "auction.buyout", key), LedgerRow(seller, "auction.proceeds", key),
                   AuctionTransaction(a, "buyout", key)})
        /\ ledger' = [ledger EXCEPT ![c] = @ - Buyout, ![seller] = @ + Proceeds]
        /\ listings' = [listings EXCEPT ![a].state = "sold"]
        /\ UNCHANGED <<mails, writer, held, made, paid>>

WrongCancelAuction(c, key, a) ==
    /\ listings[a] = [seller |-> c, state |-> "active"]
    /\ Free(chars[c].bag) # {}
    /\ WithTransaction(c, "auction.cancel", a, key)
    /\ SaveCharacterWithVersion(c,
          [chars[c] EXCEPT !.copper = @ + Deposit, !.bag = GrantItemToInventory(@)])
    /\ Insert({AuctionTransaction(a, "cancel", key)})
    /\ listings' = [listings EXCEPT ![a].state = "canceled"]
    /\ UNCHANGED <<ledger, mails, writer, held, made, paid>>

(* The item comes back, the deposit does not. *)
CancelAuction(c, key, a) ==
    /\ listings[a] = [seller |-> c, state |-> "active"]
    /\ Free(chars[c].bag) # {}
    /\ WithTransaction(c, "auction.cancel", a, key)
    /\ SaveCharacterWithVersion(c, [chars[c] EXCEPT !.bag = GrantItemToInventory(@)])
    /\ Insert({AuctionTransaction(a, "cancel", key)})
    /\ listings' = [listings EXCEPT ![a].state = "canceled"]
    /\ UNCHANGED <<ledger, mails, writer, held, made, paid>>

-----------------------------------------------------------------------------
(* Mail: copper, and perhaps an item, each claimed by itself. *)

CreateMail(c, m, item) ==
    /\ mails[m].to = Nobody
    /\ WithTransaction(c, "mail.create", m, NoKey)
    /\ mails' = [mails EXCEPT ![m] = [to |-> c, item |-> item, copper |-> TRUE]]
    /\ made' = made + (IF item THEN 1 ELSE 0)
    /\ UNCHANGED <<chars, rows, ledger, listings, writer, held, paid>>

(* The first attachment left, or the one that is asked for. *)
ClaimMailAttachment(c, key, m, kind) ==
    LET asked == IF kind # "first" THEN kind ELSE IF mails[m].item THEN "item" ELSE "copper"
    IN  /\ mails[m].to = c /\ mails[m][asked]
        /\ asked = "item" => Free(chars[c].bag) # {}
        /\ WithTransaction(c, "mail.claim", m, key)
        /\ SaveCharacterWithVersion(c,
              IF asked = "item" THEN [chars[c] EXCEPT !.bag = GrantItemToInventory(@)]
                                ELSE [chars[c] EXCEPT !.copper = @ + Price])
        /\ Insert({ClaimRow(m, key)} \cup (IF asked = "copper" THEN {LedgerRow(c, "mail.claim", key)} ELSE {}))
        /\ ledger' = IF asked = "copper" THEN [ledger EXCEPT ![c] = @ + Price] ELSE ledger
        /\ mails' = [mails EXCEPT ![m][asked] = FALSE]
        /\ UNCHANGED <<listings, writer, held, made, paid>>

(* It loads each mail while it still reads the list of them: with the one *)
(* connection busy with the list, the first load waits for ever.          *)
ListMailForCharacter(c) ==
    /\ ~held
    /\ (\E m \in Mails : mails[m].to = c) => "listmail" \in Races
    /\ held' = \E m \in Mails : mails[m].to = c
    /\ UNCHANGED <<chars, rows, ledger, listings, mails, writer, commits, made, paid, applied, twice>>

-----------------------------------------------------------------------------
GoodsNext ==
    \/ \E c \in Heroes, key \in AllKeys :
        \/ \E i, j \in Slots : MoveInventorySlot(c, key, i, j)
        \/ GrantInventoryItem(c, key)
        \/ AcceptQuestProgress(c, key) \/ UpdateQuestProgress(c, key) \/ CompleteQuestWithReward(c, key)
        \/ GrantLearnedAbility(c, key)
        \/ \E s \in BarSlots : AssignActionBarSlot(c, key, s) \/ ClearActionBarSlot(c, key, s)
        \/ \E s, t \in BarSlots : MoveActionBarSlot(c, key, s, t)
        \/ \E delta \in {Price, -Price} : AppendCurrencyMutation(c, key, delta)
    \/ \E c \in Characters, key \in AllKeys :
        \/ BuyVendorItem(c, key) \/ \E s \in Slots : SellVendorItem(c, key, s)
        \/ \E a \in Auctions, s \in Slots : CreateAuctionListing(c, key, a, s)
        \/ \E a \in Auctions : BuyoutAuction(c, key, a) \/ CancelAuction(c, key, a)
        \/ \E m \in Mails, kind \in {"first", "item", "copper"} : ClaimMailAttachment(c, key, m, kind)
    \/ \E c \in Heroes :
        \/ ListMailForCharacter(c)
        \/ \E m \in Mails, item \in BOOLEAN : CreateMail(c, m, item)
        \/ \E w \in Writers : UpdateRead(w, c)
    \/ \E w \in Writers :
        \/ UpdateCharacterTrackedQuests(w) \/ UpdateCharacterQuestProgress(w)
        \/ UpdateCharacterEconomy(w) \/ UpdateCharacterProgression(w)
        \/ UpdateLearnedAbilities(w) \/ UpdateCharacterInventory(w)
        \/ \E bar \in SUBSET BarSlots : UpdateActionBarSlots(w, bar)

-----------------------------------------------------------------------------
(* Types; no bar holds an ability that is not learned. *)
GoodsTypeOK ==
    /\ chars \in [Characters -> Character]
    /\ \A c \in Characters : chars[c].bar # {} => chars[c].learned
    /\ ledger \in [Characters -> Int]
    /\ listings \in [Auctions -> Listing] /\ mails \in [Mails -> Mail]
    /\ writer \in [Writers -> [of : Characters \cup {Nobody}, read : Character]]
    /\ held \in BOOLEAN /\ commits \in 0..MaxCommits /\ made \in Int

(* A character's copper is what it started with, the rows of its ledger and *)
(* its quest reward: no trade, mail or retry leaves another trace, and the  *)
(* quest pays once under however many keys.  A save of what was read before *)
(* another commit ("unversioned") or of what its caller gives ("asgiven"),  *)
(* and progress over a rewarded quest ("lateprogress"), break it.           *)
LedgerExplainsCopper ==
    \A c \in Characters :
        /\ chars[c].copper = Start + ledger[c] + paid[c]
        /\ paid[c] <= Price

(* Every item that was granted, bought or rewarded is in one bag, on sale   *)
(* in one auction or attached to one mail, until it is sold to a vendor:    *)
(* neither a full bag nor a buyout against a cancel loses or copies one.    *)
(* Saves of an older bag or of one that is given do.                        *)
GoodsAddUp ==
    made = Cardinality({p \in Characters \X Slots : p[2] \in chars[p[1]].bag})
           + Cardinality({a \in Auctions : listings[a].state = "active"})
           + Cardinality({m \in Mails : mails[m].item})

(* However often a call is retried with its key, whatever else commits in   *)
(* between, it takes effect once.                                           *)
OncePerKey == ~twice

=============================================================================
