----------------------------- MODULE WorldEconomy -----------------------------
(***************************************************************************)
(* Money, bags and quest rewards of the world service (vendors.go,         *)
(* quests.go, inventory.go, loot.go, auctions.go, admin_http.go, http.go   *)
(* and the store operations they call).                                    *)
(*                                                                         *)
(* A session keeps a copy of its character's copper, bag and quests.       *)
(* Vendors, quests and loot change the copy and write it back as absolute  *)
(* values; the market and the administrators change the store by           *)
(* differences and reload the copies they know of.  Both are right only as *)
(* long as the copy is current.                                            *)
(*                                                                         *)
(* A handler runs under worldServer.mutex and is one action.  Two are not: *)
(* a connect and an administrator's change touch the store first and take  *)
(* the mutex later.  A bag is the number of its taken slots, all items     *)
(* being alike and unstackable; there is one quest.  A call that is        *)
(* refused before it changes anything is not an action.                    *)
(***************************************************************************)
EXTENDS Integers, FiniteSets

CONSTANTS Char, Token, Listing,
          None,
          Cap,                      \* slots of a bag
          StartCopper,
          BuyPrice, SellPrice,      \* of a vendor
          Deposit, BuyoutPrice, Cut,\* of a listing
          RewardCopper, RewardItems,\* of the quest
          AdminGrant,
          MaxCopper,                \* bound on what vendors and admins pay out
          MaxPending,               \* bound on connects and admin changes under way
          Races                     \* which of the four hazards may happen

(***************************************************************************)
(* offline   a client goes on using a session it has disconnected          *)
(* saveFails a save of the store fails                                     *)
(* overtaken a character's record changes between the two steps of a       *)
(*           connect or of an administrator's change                       *)
(* fullBag   a quest is turned in with too little room for its items       *)
(***************************************************************************)
ASSUME EconomyAssumption ==
  /\ {Cap, StartCopper, BuyPrice, SellPrice, Deposit, BuyoutPrice, Cut,
      RewardCopper, RewardItems, AdminGrant, MaxCopper, MaxPending} \subseteq Nat
  /\ Cap > 0 /\ Cut <= BuyoutPrice
  /\ Races \subseteq {"offline", "saveFails", "overtaken", "fullBag"}
  /\ None \notin Char \union Token
  /\ IsFiniteSet(Listing)

VARIABLES record,              \* the store's character records
          listing,             \* the store's auction listings
          due,                 \* active listings whose time is up
          sessionsByToken,     \* the world server's sessions
          sessionTokenByChar,
          lootContainers,      \* the loot container of each character's kill
          pending,             \* a connect or admin change between its steps
          owed                 \* what acknowledged operations gave each character

store == <<record, listing, due>>
server == <<sessionsByToken, sessionTokenByChar, lootContainers, pending>>
vars == <<record, listing, due, sessionsByToken, sessionTokenByChar,
          lootContainers, pending, owed>>

Record == [copper : Int, bag : 0..Cap, quest : {"active", "rewarded"}]
Session == [char : Char, connected : BOOLEAN, has : Record]
Pending == [kind : {"connect", "admin"}, has : Record]
Unlisted == [state |-> "none", seller |-> None]
ListingStates == {"none", "active", "sold", "canceled", "expired"}

ASSUME NoneAssumption == None \notin Pending /\ None \notin Session

Init ==
  /\ record = [c \in Char |-> [copper |-> StartCopper, bag |-> 1, quest |-> "active"]]
  /\ listing = [l \in Listing |-> Unlisted]
  /\ due = {}
  /\ sessionsByToken = [t \in Token |-> None]
  /\ sessionTokenByChar = [c \in Char |-> None]
  /\ lootContainers = [c \in Char |-> "none"]
  /\ pending = [c \in Char |-> None]
  /\ owed = [c \in Char |-> [copper |-> StartCopper, bag |-> 1]]

-----------------------------------------------------------------------------
Live(t) == sessionsByToken[t] # None
CharOf(t) == sessionsByToken[t].char
LiveTokens(c) == {t \in Token : Live(t) /\ sessionTokenByChar[c] = t}
Has(t) == sessionsByToken[t].has

\* The handlers look the token up and do not ask whether it is connected.
Usable(t) == Live(t) /\ (sessionsByToken[t].connected \/ "offline" \in Races)

\* May the record of c change now?
Free(c) == pending[c] = None \/ "overtaken" \in Races

\* Does the store save, or return an error and keep its file?
Saves == IF "saveFails" \in Races THEN BOOLEAN ELSE {TRUE}

Credit(acc, c, copper, items) ==
  [acc EXCEPT ![c].copper = @ + copper, ![c].bag = @ + items]

\* UpdateCharacterEconomy: absolute copper and inventory, no quests.
UpdateCharacterEconomy(r, h) == [h EXCEPT !.quest = r.quest]

\* UpdateCharacterProgression: copper, inventory and quests.
UpdateCharacterProgression(r, h) == [r EXCEPT !.copper = h.copper, !.bag = h.bag, !.quest = h.quest]

\* persistSession...Locked: the session holds `h' already; if the save succeeds
\* the store holds `written' and the caller is told so.
Persist(t, h, written, saved, copper, items) ==
  LET c == CharOf(t) IN
  /\ sessionsByToken' = [sessionsByToken EXCEPT ![t].has = h]
  /\ record' = IF saved THEN [record EXCEPT ![c] = written] ELSE record
  /\ owed' = IF saved THEN Credit(owed, c, copper, items) ELSE owed

-----------------------------------------------------------------------------
\* buyVendorItemLocked
VendorBuy(t) ==
  /\ Free(CharOf(t))
  /\ Has(t).copper >= BuyPrice /\ Has(t).bag < Cap
  /\ LET h == [Has(t) EXCEPT !.copper = @ - BuyPrice, !.bag = @ + 1]
     IN \E saved \in Saves :
          Persist(t, h, UpdateCharacterEconomy(record[CharOf(t)], h), saved, -BuyPrice, 1)
  /\ UNCHANGED <<listing, due, sessionTokenByChar, lootContainers, pending>>

HandleVendorBuy(t) == Usable(t) /\ VendorBuy(t)

\* sellVendorItemLocked
VendorSell(t) ==
  /\ Free(CharOf(t))
  /\ Has(t).bag > 0 /\ Has(t).copper + SellPrice <= MaxCopper
  /\ LET h == [Has(t) EXCEPT !.copper = @ + SellPrice, !.bag = @ - 1]
     IN \E saved \in Saves :
          Persist(t, h, UpdateCharacterEconomy(record[CharOf(t)], h), saved, SellPrice, -1)
  /\ UNCHANGED <<listing, due, sessionTokenByChar, lootContainers, pending>>

HandleVendorSell(t) == Usable(t) /\ VendorSell(t)

Room(t) == Has(t).bag + RewardItems <= Cap

\* grantQuestRewardLocked: copper first, then the items one by one.  When the
\* bag is full the handler returns there: nothing is undone, marked or saved.
GrantQuestReward(t) ==
  /\ Usable(t) /\ Free(CharOf(t))
  /\ Has(t).quest = "active"
  /\ IF Room(t)
       THEN LET h == [copper |-> Has(t).copper + RewardCopper,
                      bag |-> Has(t).bag + RewardItems, quest |-> "rewarded"]
            IN \E saved \in Saves :
                 Persist(t, h, UpdateCharacterProgression(record[CharOf(t)], h), saved,
                         RewardCopper, RewardItems)
       ELSE /\ "fullBag" \in Races /\ Has(t).copper + RewardCopper <= MaxCopper
            /\ sessionsByToken' = [sessionsByToken EXCEPT
                 ![t].has = [Has(t) EXCEPT !.copper = @ + RewardCopper, !.bag = Cap]]
            /\ UNCHANGED <<record, owed>>
  /\ UNCHANGED <<listing, due, sessionTokenByChar, lootContainers, pending>>

\* createLootContainerForMobDeathLocked
KillMob(t) ==
  /\ Live(t) /\ sessionsByToken[t].connected
  /\ lootContainers[CharOf(t)] = "none"
  /\ lootContainers' = [lootContainers EXCEPT ![CharOf(t)] = "open"]
  /\ UNCHANGED <<store, sessionsByToken, sessionTokenByChar, pending, owed>>

\* claimLootLocked: grantInventoryItemsLocked persists, then the container is
\* marked; an error in between leaves it open.
ClaimLoot(t) ==
  LET c == CharOf(t) IN
  /\ Free(c)
  /\ lootContainers[c] = "open" /\ Has(t).bag < Cap
  /\ \E saved \in Saves :
       /\ LET h == [Has(t) EXCEPT !.bag = @ + 1]
          IN Persist(t, h, UpdateCharacterProgression(record[c], h), saved, 0, 1)
       /\ lootContainers' = IF saved THEN [lootContainers EXCEPT ![c] = "claimed"]
                                     ELSE lootContainers
  /\ UNCHANGED <<listing, due, sessionTokenByChar, pending>>

HandleLootClaim(t) == Live(t) /\ sessionsByToken[t].connected /\ ClaimLoot(t)

-----------------------------------------------------------------------------
(* The market.  Every call begins with expireAuctionsLocked.               *)

Active(l) == listing[l].state = "active"
SoldBy(c, L) == {l \in L : listing[l].seller = c}
Least(m, n) == IF m <= n THEN m ELSE n

\* ExpireAuctions returns due items in any order while the seller's bag has room.
Returnable ==
  {R \in SUBSET due :
     \A c \in Char :
       /\ Cardinality(SoldBy(c, R))
            = Least(Cardinality(SoldBy(c, due)), Cap - record[c].bag)
       /\ SoldBy(c, R) # {} => Free(c)}
  \union (IF "saveFails" \in Races THEN {{}} ELSE {})

\* Mutant: nobody is told.
WrongRefresh(ss, recs, C) == ss

\* findConnectedSessionByCharacterLocked, applyCharacterProgressionLocked: reload
\* the connected sessions of the characters C.
Refresh(ss, recs, C) ==
  [t \in Token |->
     IF ss[t] # None /\ ss[t].connected /\ ss[t].char \in C
       THEN [ss[t] EXCEPT !.has = recs[ss[t].char]] ELSE ss[t]]

\* What is left after expireAuctionsLocked has returned the items of R.
Expired(R) ==
  LET recs == [c \in Char |-> [record[c] EXCEPT !.bag = @ + Cardinality(SoldBy(c, R))]]
  IN [record |-> recs,
      sessions |-> Refresh(sessionsByToken, recs, {listing[l].seller : l \in R}),
      listing |-> [l \in Listing |->
                     IF l \in R THEN [listing[l] EXCEPT !.state = "expired"] ELSE listing[l]],
      owed |-> [c \in Char |-> [owed[c] EXCEPT !.bag = @ + Cardinality(SoldBy(c, R))]]]

\* The market operation of session t has made the world w out of it: reload the
\* acting session, connected or not.
Become(w, t, R) ==
  /\ record' = w.record
  /\ listing' = w.listing
  /\ owed' = w.owed
  /\ due' = due \ R
  /\ sessionsByToken' = [w.sessions EXCEPT ![t].has = w.record[CharOf(t)]]
  /\ UNCHANGED <<sessionTokenByChar, lootContainers, pending>>

\* handleAuctionBrowse, handleAuctionMine, and any market call that is refused
\* after the expiry: nothing but the expiry.
Browse ==
  /\ \E R \in Returnable :
       LET w == Expired(R) IN
       /\ record' = w.record /\ listing' = w.listing /\ owed' = w.owed
       /\ due' = due \ R /\ sessionsByToken' = w.sessions
       /\ UNCHANGED <<sessionTokenByChar, lootContainers, pending>>

HandleAuctionBrowse(t) == Usable(t) /\ Browse

\* What handleAuctionList lets pass by the session, and CreateAuctionListing by
\* the store.
BuildAuctionListing(h) == h.bag > 0 /\ h.copper >= Deposit
MayCreate(r) == r.bag > 0 /\ r.copper >= Deposit

\* CreateAuctionListing
List(t, l) ==
  /\ Free(CharOf(t)) /\ listing[l] = Unlisted
  /\ \E R \in Returnable :
       LET c == CharOf(t)
           w == Expired(R)
       IN /\ BuildAuctionListing(w.sessions[t].has) /\ MayCreate(w.record[c])
          /\ Become([w EXCEPT !.record = Credit(@, c, -Deposit, -1),
                              !.listing[l] = [state |-> "active", seller |-> c],
                              !.owed = Credit(@, c, -Deposit, -1)], t, R)

HandleAuctionList(t) == Usable(t) /\ \E l \in Listing : List(t, l)

\* addAuctionItemToInventory
Fits(r) == r.bag < Cap

\* BuyoutAuction: only the store is checked.
Buyout(t, l) ==
  /\ Active(l) /\ l \notin due
  /\ listing[l].seller # CharOf(t)
  /\ Free(CharOf(t)) /\ Free(listing[l].seller)
  /\ \E R \in Returnable :
       LET c == CharOf(t)
           seller == listing[l].seller
           w == Expired(R)
           Settle(acc) == Credit(Credit(acc, c, -BuyoutPrice, 1),
                                 seller, BuyoutPrice - Cut + Deposit, 0)
           recs == Settle(w.record)
       IN /\ w.record[c].copper >= BuyoutPrice /\ Fits(w.record[c])
          /\ Become([record |-> recs,
                     sessions |-> Refresh(w.sessions, recs, {seller}),
                     listing |-> [w.listing EXCEPT ![l].state = "sold"],
                     owed |-> Settle(w.owed)], t, R)

HandleAuctionBuyout(t) == Usable(t) /\ \E l \in Listing : Buyout(t, l)

\* CancelAuction
Cancel(t, l) ==
  /\ Active(l) /\ l \notin due
  /\ listing[l].seller = CharOf(t) /\ Free(CharOf(t))
  /\ \E R \in Returnable :
       LET c == CharOf(t)
           w == Expired(R)
       IN /\ Fits(w.record[c])
          /\ Become([w EXCEPT !.record = Credit(@, c, 0, 1),
                              !.listing[l].state = "canceled",
                              !.owed = Credit(@, c, 0, 1)], t, R)

HandleAuctionCancel(t) == Usable(t) /\ \E l \in Listing : Cancel(t, l)

\* Time passes the ExpiresAt of a listing.
Lapse(l) ==
  /\ Active(l) /\ l \notin due
  /\ due' = due \union {l}
  /\ UNCHANGED <<record, listing, server, owed>>

-----------------------------------------------------------------------------
(* Sessions.                                                               *)

Begins(c) == pending[c] = None /\ Cardinality({d \in Char : pending[d] # None}) < MaxPending

\* handleConnect before its command: the ticket is used up, the character read.
ConnectRead(c) ==
  /\ Begins(c)
  /\ pending' = [pending EXCEPT ![c] = [kind |-> "connect", has |-> record[c]]]
  /\ UNCHANGED <<store, sessionsByToken, sessionTokenByChar, lootContainers, owed>>

\* Its command resumes the character's session ...
ConnectResume(c) ==
  /\ pending[c] # None /\ pending[c].kind = "connect"
  /\ \E t \in LiveTokens(c) :
       sessionsByToken' = [sessionsByToken EXCEPT
         ![t].connected = TRUE, ![t].has = pending[c].has]
  /\ pending' = [pending EXCEPT ![c] = None]
  /\ UNCHANGED <<store, sessionTokenByChar, lootContainers, owed>>

\* Mutant: a new session starts with the quest as a new character has it.
WrongConnectCreate(c, t) ==
  /\ pending[c] # None /\ pending[c].kind = "connect"
  /\ LiveTokens(c) = {} /\ ~Live(t)
  /\ sessionsByToken' = [sessionsByToken EXCEPT
       ![t] = [char |-> c, connected |-> TRUE,
               has |-> [pending[c].has EXCEPT !.quest = "active"]]]
  /\ sessionTokenByChar' = [sessionTokenByChar EXCEPT ![c] = t]
  /\ pending' = [pending EXCEPT ![c] = None]
  /\ UNCHANGED <<store, lootContainers, owed>>

\* ... or creates one, with a fresh random token.
ConnectCreate(c, t) ==
  /\ pending[c] # None /\ pending[c].kind = "connect"
  /\ LiveTokens(c) = {} /\ ~Live(t)
  /\ sessionsByToken' = [sessionsByToken EXCEPT
       ![t] = [char |-> c, connected |-> TRUE, has |-> pending[c].has]]
  /\ sessionTokenByChar' = [sessionTokenByChar EXCEPT ![c] = t]
  /\ pending' = [pending EXCEPT ![c] = None]
  /\ UNCHANGED <<store, lootContainers, owed>>

\* The shard loop refuses the command: the ticket is gone, nothing else changes.
ConnectRefused(c) ==
  /\ pending[c] # None /\ pending[c].kind = "connect"
  /\ pending' = [pending EXCEPT ![c] = None]
  /\ UNCHANGED <<store, sessionsByToken, sessionTokenByChar, lootContainers, owed>>

\* Mutant: a reconnect trusts the copy the session has.
WrongReconnect(t) ==
  /\ Live(t)
  /\ sessionsByToken' = [sessionsByToken EXCEPT ![t].connected = TRUE]
  /\ UNCHANGED <<store, sessionTokenByChar, lootContainers, pending, owed>>

\* handleReconnect reads the character inside its command.
Reconnect(t) ==
  /\ Live(t)
  /\ sessionsByToken' = [sessionsByToken EXCEPT
       ![t].connected = TRUE, ![t].has = record[CharOf(t)]]
  /\ UNCHANGED <<store, sessionTokenByChar, lootContainers, pending, owed>>

\* handleDisconnect: the session stays, with its token.
Disconnect(t) ==
  /\ Live(t) /\ sessionsByToken[t].connected
  /\ sessionsByToken' = [sessionsByToken EXCEPT ![t].connected = FALSE]
  /\ UNCHANGED <<store, sessionTokenByChar, lootContainers, pending, owed>>

\* cleanupStaleSessionsLocked, invalidateWorldSessionForCharacterLocked
DropSession(t) ==
  /\ Live(t)
  /\ sessionsByToken' = [sessionsByToken EXCEPT ![t] = None]
  /\ sessionTokenByChar' = [sessionTokenByChar EXCEPT
       ![CharOf(t)] = IF @ = t THEN None ELSE @]
  /\ UNCHANGED <<store, lootContainers, pending, owed>>

\* handleAdminCurrencyChange before it takes the mutex; handleAdminItemChange is alike.
AdminStore(c) ==
  /\ Begins(c)
  /\ record[c].copper + AdminGrant <= MaxCopper
  /\ record' = Credit(record, c, AdminGrant, 0)
  /\ owed' = Credit(owed, c, AdminGrant, 0)
  /\ pending' = [pending EXCEPT ![c] = [kind |-> "admin", has |-> record'[c]]]
  /\ UNCHANGED <<listing, due, sessionsByToken, sessionTokenByChar, lootContainers>>

\* ... and under it: the record read before goes to the live session.
AdminApply(c) ==
  /\ pending[c] # None /\ pending[c].kind = "admin"
  /\ sessionsByToken' =
       [t \in Token |-> IF t \in LiveTokens(c)
                          THEN [sessionsByToken[t] EXCEPT !.has = pending[c].has]
                          ELSE sessionsByToken[t]]
  /\ pending' = [pending EXCEPT ![c] = None]
  /\ UNCHANGED <<store, sessionTokenByChar, lootContainers, owed>>

\* The world service dies and starts again: the store is all that is left.
Restart ==
  /\ sessionsByToken' = [t \in Token |-> None]
  /\ sessionTokenByChar' = [c \in Char |-> None]
  /\ lootContainers' = [c \in Char |-> "none"]
  /\ pending' = [c \in Char |-> None]
  /\ UNCHANGED <<store, owed>>

Next ==
  \/ \E t \in Token :
       \/ HandleVendorBuy(t) \/ HandleVendorSell(t) \/ GrantQuestReward(t)
       \/ KillMob(t) \/ HandleLootClaim(t)
       \/ HandleAuctionBrowse(t)
       \/ HandleAuctionList(t) \/ HandleAuctionBuyout(t) \/ HandleAuctionCancel(t)
       \/ Reconnect(t) \/ Disconnect(t) \/ DropSession(t)
  \/ \E l \in Listing : Lapse(l)
  \/ \E c \in Char :
       \/ ConnectRead(c) \/ ConnectResume(c) \/ ConnectRefused(c)
       \/ \E t \in Token : ConnectCreate(c, t)
       \/ AdminStore(c) \/ AdminApply(c)
  \/ Restart

Spec == Init /\ [][Next]_vars

-----------------------------------------------------------------------------
\* Every variable has its type, and nobody is in debt.
TypeOK ==
  /\ record \in [Char -> Record] /\ \A c \in Char : record[c].copper >= 0
  /\ listing \in [Listing -> [state : ListingStates, seller : Char \union {None}]]
  /\ due \subseteq {l \in Listing : Active(l)}
  /\ sessionsByToken \in [Token -> Session \union {None}]
  /\ sessionTokenByChar \in [Char -> Token \union {None}]
  /\ lootContainers \in [Char -> {"none", "open", "claimed"}]
  /\ pending \in [Char -> Pending \union {None}]

\* The store holds, for each character, exactly what its acknowledged purchases,
\* sales, rewards, loot, market deals and grants add up to: no write-back of a
\* session's copy loses a coin or an item or makes one.
BooksBalance ==
  \A c \in Char : record[c].copper = owed[c].copper /\ record[c].bag = owed[c].bag

\* What a connected client is shown is what the store holds.
ConnectedSeesTheStore ==
  \A t \in Token :
    Live(t) /\ sessionsByToken[t].connected /\ pending[CharOf(t)] = None
      => Has(t) = record[CharOf(t)]

\* No step, however old the copy it writes back, takes a granted reward out of the
\* store: the quest could be turned in again.  (An administrator's reset of a quest,
\* which means to, is in AdminDesk.)
RewardIsForGood ==
  [][\A c \in Char : record[c].quest = "rewarded" => record'[c].quest = "rewarded"]_vars
=============================================================================
