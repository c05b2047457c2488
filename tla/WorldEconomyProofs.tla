------------------------- MODULE WorldEconomyProofs -------------------------
(***************************************************************************)
(* Proofs about money, bags and quest rewards of the world service: for    *)
(* any number of characters, tokens and listings and any prices, no        *)
(* write-back of a session's copy loses or makes a coin or an item, what a *)
(* connected client is shown is what the store holds, and a reward is for  *)
(* good.                                                                   *)
(*                                                                         *)
(* All three need that none of the four hazards of the code happens        *)
(* (Races = {}); each of them alone lets a stale copy be written back.     *)
(***************************************************************************)
EXTENDS WorldEconomy, FiniteSetTheorems, TLAPS

Owed == [copper : Int, bag : Int]

Typed == TypeOK /\ owed \in [Char -> Owed]

\* A character has one session at most, the one its index entry names, and an
\* entry names a session of its character.
Indexed ==
  /\ \A t \in Token : Live(t) => sessionTokenByChar[CharOf(t)] = t
  /\ \A c \in Char, t \in Token : sessionTokenByChar[c] = t => Live(t) /\ CharOf(t) = c

\* A connected session's copy is the store's record, unless an administrator
\* has changed the record and not told the session yet.
CopiesCurrent ==
  \A t \in Token :
    Live(t) /\ sessionsByToken[t].connected
        /\ (pending[CharOf(t)] = None \/ pending[CharOf(t)].kind = "connect")
      => Has(t) = record[CharOf(t)]

\* What a connect or an administrator read is still what the store holds.
ReadsCurrent == \A c \in Char : pending[c] # None => pending[c].has = record[c]

\* Whoever has listed something is a character.
ListingTyped(L) ==
  /\ L \in [Listing -> [state : ListingStates, seller : Char \union {None}]]
  /\ \A l \in Listing : L[l].state # "none" => L[l].seller \in Char

Sound == Typed /\ ListingTyped(listing) /\ Indexed /\ CopiesCurrent /\ ReadsCurrent /\ BooksBalance

-----------------------------------------------------------------------------
(* Operators *)

LEMMA ConstantFacts ==
  /\ Cap \in Nat /\ StartCopper \in Nat /\ BuyPrice \in Nat /\ SellPrice \in Nat
  /\ Deposit \in Nat /\ BuyoutPrice \in Nat /\ Cut \in Nat
  /\ RewardCopper \in Nat /\ RewardItems \in Nat /\ AdminGrant \in Nat /\ MaxCopper \in Nat
  /\ Cap > 0 /\ Cut <= BuyoutPrice
BY EconomyAssumption

LEMMA RecordFacts ==
  ASSUME NEW r \in Record
  PROVE  /\ r.copper \in Int /\ r.bag \in 0 .. Cap /\ r.quest \in {"active", "rewarded"}
         /\ r = [copper |-> r.copper, bag |-> r.bag, quest |-> r.quest]
BY DEF Record

LEMMA SessionFacts ==
  ASSUME NEW s \in Session
  PROVE  /\ s.char \in Char /\ s.connected \in BOOLEAN /\ s.has \in Record
         /\ s = [char |-> s.char, connected |-> s.connected, has |-> s.has]
BY DEF Session

LEMMA NewCopy ==
  ASSUME NEW s \in Session, NEW h
  PROVE  [s EXCEPT !.has = h] = [char |-> s.char, connected |-> s.connected, has |-> h]
BY SessionFacts DEF Session

\* Credit changes one character's copper and bag and nothing else.
LEMMA CreditRecords ==
  ASSUME NEW acc \in [Char -> Record], NEW c \in Char, NEW x \in Int, NEW y \in Int
  PROVE  Credit(acc, c, x, y) =
           [d \in Char |-> IF d = c THEN [copper |-> acc[c].copper + x, bag |-> acc[c].bag + y,
                                          quest |-> acc[c].quest]
                                    ELSE acc[d]]
<1> DEFINE new == Credit(acc, c, x, y)
<1>1. acc[c] = [copper |-> acc[c].copper, bag |-> acc[c].bag, quest |-> acc[c].quest]
  BY RecordFacts
<1>2. new = [d \in Char |-> new[d]] /\ \A d \in Char : d # c => new[d] = acc[d]
  BY DEF Credit
<1>3. new[c].copper = acc[c].copper + x
  BY <1>1 DEF Credit
<1>4. new[c].bag = acc[c].bag + y
  BY <1>1 DEF Credit
<1>5. new[c].quest = acc[c].quest
  BY <1>1 DEF Credit
<1>6. new[c] = [f \in {"copper", "bag", "quest"} |-> new[c][f]]
  BY <1>1 DEF Credit
<1> HIDE DEF new
<1>7. new[c] = [copper |-> acc[c].copper + x, bag |-> acc[c].bag + y, quest |-> acc[c].quest]
  BY <1>3, <1>4, <1>5, <1>6
<1>8. new = [d \in Char |-> IF d = c THEN [copper |-> acc[c].copper + x, bag |-> acc[c].bag + y,
                                           quest |-> acc[c].quest]
                                     ELSE acc[d]]
  BY <1>2, <1>7
<1> QED
  BY <1>8 DEF new

LEMMA CreditOwed ==
  ASSUME NEW acc \in [Char -> Owed], NEW c \in Char, NEW x \in Int, NEW y \in Int
  PROVE  Credit(acc, c, x, y) =
           [d \in Char |-> IF d = c THEN [copper |-> acc[c].copper + x, bag |-> acc[c].bag + y]
                                    ELSE acc[d]]
<1> DEFINE new == Credit(acc, c, x, y)
<1>1. acc[c] = [copper |-> acc[c].copper, bag |-> acc[c].bag]
  BY DEF Owed
<1>2. new = [d \in Char |-> new[d]] /\ \A d \in Char : d # c => new[d] = acc[d]
  BY DEF Credit
<1>3. new[c].copper = acc[c].copper + x
  BY <1>1 DEF Credit
<1>4. new[c].bag = acc[c].bag + y
  BY <1>1 DEF Credit
<1>6. new[c] = [f \in {"copper", "bag"} |-> new[c][f]]
  BY <1>1 DEF Credit
<1> HIDE DEF new
<1>7. new[c] = [copper |-> acc[c].copper + x, bag |-> acc[c].bag + y]
  BY <1>3, <1>4, <1>6
<1>8. new = [d \in Char |-> IF d = c THEN [copper |-> acc[c].copper + x, bag |-> acc[c].bag + y]
                                     ELSE acc[d]]
  BY <1>2, <1>7
<1> QED
  BY <1>8 DEF new

LEMMA Handlers ==
  ASSUME Sound, Races = {}, NEW t \in Token, Live(t), sessionsByToken[t].connected, Free(CharOf(t))
  PROVE  /\ CharOf(t) \in Char /\ Has(t) \in Record /\ Has(t) = record[CharOf(t)]
         /\ pending[CharOf(t)] = None
         /\ \A u \in Token : Live(u) /\ CharOf(u) = CharOf(t) => u = t
<1>1. sessionsByToken[t] \in Session
  BY DEF Sound, Typed, TypeOK, Live
<1>2. CharOf(t) \in Char /\ Has(t) \in Record
  BY <1>1, SessionFacts DEF CharOf, Has
<1>3. pending[CharOf(t)] = None
  BY DEF Free
<1>4. Has(t) = record[CharOf(t)]
  BY <1>3 DEF Sound, CopiesCurrent
<1>5. \A u \in Token : Live(u) /\ CharOf(u) = CharOf(t) => u = t
  BY DEF Sound, Indexed
<1> QED
  BY <1>2, <1>3, <1>4, <1>5

\* The two write-backs of the store differ in the quests only, and a current
\* copy has the store's.
LEMMA WriteBacks ==
  ASSUME NEW r \in Record, NEW h \in Record
  PROVE  /\ h.quest = r.quest => UpdateCharacterEconomy(r, h) = h
         /\ UpdateCharacterProgression(r, h) = h
<1>1. h = [copper |-> h.copper, bag |-> h.bag, quest |-> h.quest]
  BY RecordFacts
<1>2. r = [copper |-> r.copper, bag |-> r.bag, quest |-> r.quest]
  BY RecordFacts
<1>3. ASSUME h.quest = r.quest
      PROVE  UpdateCharacterEconomy(r, h) = h
  BY <1>1, <1>3 DEF UpdateCharacterEconomy
<1>4. UpdateCharacterProgression(r, h) = h
  <2> DEFINE w == UpdateCharacterProgression(r, h)
  <2>1. w.copper = h.copper
    BY <1>2 DEF UpdateCharacterProgression
  <2>2. w.bag = h.bag
    BY <1>2 DEF UpdateCharacterProgression
  <2>3. w.quest = h.quest
    BY <1>2 DEF UpdateCharacterProgression
  <2>4. w = [f \in {"copper", "bag", "quest"} |-> w[f]]
    BY <1>2 DEF UpdateCharacterProgression
  <2> HIDE DEF w
  <2>5. w = [copper |-> h.copper, bag |-> h.bag, quest |-> h.quest]
    BY <2>1, <2>2, <2>3, <2>4
  <2>6. w = h
    BY <1>1, <2>5
  <2> QED
    BY <2>6 DEF w
<1> QED
  BY <1>3, <1>4

-----------------------------------------------------------------------------
(* The steps *)

\* The step takes no reward out of the store.
RewardsKept == \A c \in Char : record[c].quest = "rewarded" => record'[c].quest = "rewarded"

\* A handler that changes a session's copy and writes it back.
LEMMA PersistKeeps ==
  ASSUME Sound, Races = {}, NEW t \in Token, Live(t), sessionsByToken[t].connected, Free(CharOf(t)),
         NEW h \in Record, h.copper >= 0, NEW x \in Int, NEW y \in Int,
         h.copper = Has(t).copper + x, h.bag = Has(t).bag + y,
         Has(t).quest = "rewarded" => h.quest = "rewarded",
         Persist(t, h, h, TRUE, x, y),
         listing' = listing, due' = due, sessionTokenByChar' = sessionTokenByChar,
         pending' = pending,
         lootContainers' \in [Char -> {"none", "open", "claimed"}]
  PROVE  Sound' /\ RewardsKept
<1> DEFINE c == CharOf(t)
<1>1. /\ c \in Char /\ Has(t) \in Record /\ Has(t) = record[c] /\ pending[c] = None
      /\ \A u \in Token : Live(u) /\ CharOf(u) = c => u = t
  BY Handlers
<1>2. /\ sessionsByToken' = [sessionsByToken EXCEPT ![t].has = h]
      /\ record' = [record EXCEPT ![c] = h]
      /\ owed' = Credit(owed, c, x, y)
  BY DEF Persist
<1>3. /\ record \in [Char -> Record] /\ \A d \in Char : record[d].copper >= 0
      /\ owed \in [Char -> Owed]
      /\ sessionsByToken \in [Token -> Session \union {None}]
      /\ sessionsByToken[t] \in Session
  BY DEF Sound, Typed, TypeOK, Live
<1> HIDE DEF c
<1>4. owed' = [d \in Char |-> IF d = c THEN [copper |-> owed[c].copper + x, bag |-> owed[c].bag + y]
                                       ELSE owed[d]]
  BY <1>1, <1>2, <1>3, CreditOwed
<1>5. /\ record' \in [Char -> Record] /\ \A d \in Char : record'[d].copper >= 0
      /\ record'[c] = h /\ \A d \in Char : d # c => record'[d] = record[d]
  BY <1>1, <1>2, <1>3
<1>6. /\ sessionsByToken' \in [Token -> Session \union {None}]
      /\ \A u \in Token : u # t => sessionsByToken'[u] = sessionsByToken[u]
      /\ sessionsByToken'[t] = [char |-> c, connected |-> sessionsByToken[t].connected, has |-> h]
  <2>2. [sessionsByToken[t] EXCEPT !.has = h]
           = [char |-> c, connected |-> sessionsByToken[t].connected, has |-> h]
    BY <1>3, NewCopy DEF CharOf, c
  <2>3. [char |-> c, connected |-> sessionsByToken[t].connected, has |-> h] \in Session
    BY <1>1, <1>3, SessionFacts DEF Session
  <2>4. sessionsByToken'[t] = [sessionsByToken[t] EXCEPT !.has = h]
    BY <1>2, <1>3
  <2> QED
    BY <1>2, <1>3, <2>2, <2>3, <2>4
<1>7. owed' \in [Char -> Owed]
  <2>1. owed[c].copper \in Int /\ owed[c].bag \in Int
    BY <1>1, <1>3 DEF Owed
  <2> QED
    BY <1>3, <1>4, <2>1 DEF Owed
<1>8. Typed'
  BY <1>5, <1>6, <1>7 DEF Sound, Typed, TypeOK, Active
<1>9. \A u \in Token : /\ Live(u)' => Live(u) /\ CharOf(u)' = CharOf(u)
                       /\ u # t /\ Live(u)' => CharOf(u) # c
  BY <1>1, <1>6 DEF Live, CharOf, c
<1>10. Indexed'
  <2>1. sessionsByToken'[t] # None
    <3>1. sessionsByToken'[t] \in Session
      BY <1>1, <1>3, <1>6, SessionFacts DEF Session
    <3> QED
      BY <3>1, NoneAssumption
  <2>2. \A u \in Token : Live(u) => Live(u)' /\ CharOf(u)' = CharOf(u)
    BY <1>6, <2>1 DEF Live, CharOf, c
  <2> QED
    BY <1>9, <2>2 DEF Sound, Indexed
<1>11. CopiesCurrent'
  <2> SUFFICES ASSUME NEW u \in Token, Live(u)', sessionsByToken'[u].connected,
                      pending[CharOf(u)'] = None \/ pending[CharOf(u)'].kind = "connect"
               PROVE  Has(u)' = record'[CharOf(u)']
    BY DEF CopiesCurrent
  <2>1. CASE u = t
    BY <1>5, <1>6, <2>1 DEF Has, CharOf
  <2>2. CASE u # t
    <3>1. /\ Live(u) /\ CharOf(u)' = CharOf(u) /\ CharOf(u) # c
          /\ sessionsByToken'[u] = sessionsByToken[u] /\ sessionsByToken[u] \in Session
      BY <1>3, <1>6, <1>9, <2>2 DEF Live
    <3>2. CharOf(u) \in Char
      BY <3>1, SessionFacts DEF CharOf
    <3>3. Has(u) = record[CharOf(u)]
      BY <3>1 DEF Sound, CopiesCurrent
    <3> QED
      BY <1>5, <3>1, <3>2, <3>3 DEF Has
  <2> QED
    BY <2>1, <2>2
<1>12. ReadsCurrent'
  BY <1>1, <1>5 DEF Sound, ReadsCurrent
<1>13. BooksBalance'
  <2>1. record[c].copper = owed[c].copper /\ record[c].bag = owed[c].bag
    BY <1>1 DEF Sound, BooksBalance
  <2>2. record'[c].copper = owed'[c].copper /\ record'[c].bag = owed'[c].bag
    BY <1>1, <1>4, <1>5, <2>1
  <2>3. \A d \in Char : d # c => record'[d] = record[d] /\ owed'[d] = owed[d]
    BY <1>4, <1>5
  <2> QED
    BY <2>2, <2>3 DEF Sound, BooksBalance
<1>14. RewardsKept
  BY <1>1, <1>5 DEF RewardsKept
<1> QED
  BY <1>8, <1>10, <1>11, <1>12, <1>13, <1>14 DEF Sound, ListingTyped

LEMMA VendorBuyKeeps ==
  ASSUME Sound, Races = {}, NEW t \in Token, HandleVendorBuy(t)
  PROVE  Sound' /\ RewardsKept
<1> DEFINE h == [copper |-> Has(t).copper - BuyPrice, bag |-> Has(t).bag + 1, quest |-> Has(t).quest]
<1>1. Live(t) /\ sessionsByToken[t].connected /\ Free(CharOf(t))
  BY DEF HandleVendorBuy, Usable, VendorBuy
<1>2. CharOf(t) \in Char /\ Has(t) \in Record /\ Has(t) = record[CharOf(t)]
  BY <1>1, Handlers
<1>3. Has(t).copper >= BuyPrice /\ Has(t).bag < Cap
  BY DEF HandleVendorBuy, VendorBuy
<1>4. [Has(t) EXCEPT !.copper = @ - BuyPrice, !.bag = @ + 1] = h
  <2> DEFINE g == [Has(t) EXCEPT !.copper = @ - BuyPrice, !.bag = @ + 1]
  <2>0. Has(t) = [copper |-> Has(t).copper, bag |-> Has(t).bag, quest |-> Has(t).quest]
    BY <1>2, RecordFacts
  <2>1. g.copper = Has(t).copper - BuyPrice
    BY <2>0
  <2>2. g.bag = Has(t).bag + 1
    BY <2>0
  <2>3. g.quest = Has(t).quest
    BY <2>0
  <2>4. g = [f \in {"copper", "bag", "quest"} |-> g[f]]
    BY <2>0
  <2> HIDE DEF g
  <2>5. g = h
    BY <2>1, <2>2, <2>3, <2>4
  <2> QED
    BY <2>5 DEF g
<1>5. h \in Record /\ h.copper >= 0
  <2>1. Has(t).copper \in Int /\ Has(t).bag \in 0 .. Cap /\ Has(t).quest \in {"active", "rewarded"}
    BY <1>2, RecordFacts
  <2>2. Has(t).copper - BuyPrice \in Int /\ Has(t).copper - BuyPrice >= 0 /\ Has(t).bag + 1 \in 0 .. Cap
    BY <1>3, <2>1, ConstantFacts
  <2> QED
    BY <2>1, <2>2 DEF Record
<1>6. h.copper = Has(t).copper + (-BuyPrice) /\ h.bag = Has(t).bag + 1 /\ h.quest = Has(t).quest
  BY <1>2, RecordFacts, ConstantFacts
<1> HIDE DEF h
<1>7. UpdateCharacterEconomy(record[CharOf(t)], h) = h
  BY <1>2, <1>5, <1>6, WriteBacks
<1>8. /\ Persist(t, h, h, TRUE, -BuyPrice, 1)
      /\ UNCHANGED <<listing, due, sessionTokenByChar, lootContainers, pending>>
  BY <1>4, <1>7 DEF HandleVendorBuy, VendorBuy, Saves
<1>9. -BuyPrice \in Int /\ 1 \in Int /\ lootContainers' \in [Char -> {"none", "open", "claimed"}]
  BY <1>8, ConstantFacts DEF Sound, Typed, TypeOK
<1> QED
  BY <1>1, <1>5, <1>6, <1>8, <1>9, PersistKeeps

LEMMA VendorSellKeeps ==
  ASSUME Sound, Races = {}, NEW t \in Token, HandleVendorSell(t)
  PROVE  Sound' /\ RewardsKept
<1> DEFINE h == [copper |-> Has(t).copper + SellPrice, bag |-> Has(t).bag - 1, quest |-> Has(t).quest]
<1>1. Live(t) /\ sessionsByToken[t].connected /\ Free(CharOf(t))
  BY DEF HandleVendorSell, Usable, VendorSell
<1>2. /\ CharOf(t) \in Char /\ Has(t) \in Record /\ Has(t) = record[CharOf(t)]
      /\ record[CharOf(t)].copper >= 0
  BY <1>1, Handlers DEF Sound, Typed, TypeOK
<1>3. Has(t).bag > 0
  BY DEF HandleVendorSell, VendorSell
<1>4. [Has(t) EXCEPT !.copper = @ + SellPrice, !.bag = @ - 1] = h
  <2> DEFINE g == [Has(t) EXCEPT !.copper = @ + SellPrice, !.bag = @ - 1]
  <2>0. Has(t) = [copper |-> Has(t).copper, bag |-> Has(t).bag, quest |-> Has(t).quest]
    BY <1>2, RecordFacts
  <2>1. g.copper = Has(t).copper + SellPrice
    BY <2>0
  <2>2. g.bag = Has(t).bag - 1
    BY <2>0
  <2>3. g.quest = Has(t).quest
    BY <2>0
  <2>4. g = [f \in {"copper", "bag", "quest"} |-> g[f]]
    BY <2>0
  <2> HIDE DEF g
  <2>5. g = h
    BY <2>1, <2>2, <2>3, <2>4
  <2> QED
    BY <2>5 DEF g
<1>5. h \in Record /\ h.copper >= 0
  <2>1. Has(t).copper \in Int /\ Has(t).bag \in 0 .. Cap /\ Has(t).quest \in {"active", "rewarded"}
    BY <1>2, RecordFacts
  <2>2. Has(t).copper + SellPrice \in Int /\ Has(t).copper + SellPrice >= 0 /\ Has(t).bag - 1 \in 0 .. Cap
    BY <1>2, <1>3, <2>1, ConstantFacts
  <2> QED
    BY <2>1, <2>2 DEF Record
<1>6. h.copper = Has(t).copper + SellPrice /\ h.bag = Has(t).bag + (-1) /\ h.quest = Has(t).quest
  BY <1>2, RecordFacts, ConstantFacts
<1> HIDE DEF h
<1>7. UpdateCharacterEconomy(record[CharOf(t)], h) = h
  BY <1>2, <1>5, <1>6, WriteBacks
<1>8. /\ Persist(t, h, h, TRUE, SellPrice, -1)
      /\ UNCHANGED <<listing, due, sessionTokenByChar, lootContainers, pending>>
  BY <1>4, <1>7 DEF HandleVendorSell, VendorSell, Saves
<1>9. SellPrice \in Int /\ -1 \in Int /\ lootContainers' \in [Char -> {"none", "open", "claimed"}]
  BY <1>8, ConstantFacts DEF Sound, Typed, TypeOK
<1> QED
  BY <1>1, <1>5, <1>6, <1>8, <1>9, PersistKeeps

LEMMA QuestKeeps ==
  ASSUME Sound, Races = {}, NEW t \in Token, GrantQuestReward(t)
  PROVE  Sound' /\ RewardsKept
<1> DEFINE h == [copper |-> Has(t).copper + RewardCopper, bag |-> Has(t).bag + RewardItems,
                 quest |-> "rewarded"]
<1>1. Live(t) /\ sessionsByToken[t].connected /\ Free(CharOf(t))
  BY DEF GrantQuestReward, Usable
<1>2. /\ CharOf(t) \in Char /\ Has(t) \in Record /\ Has(t) = record[CharOf(t)]
      /\ record[CharOf(t)] \in Record /\ record[CharOf(t)].copper >= 0
  BY <1>1, Handlers DEF Sound, Typed, TypeOK
<1>3. Has(t).bag + RewardItems <= Cap
  BY DEF GrantQuestReward, Room
<1>5. h \in Record /\ h.copper >= 0
  <2>1. Has(t).copper \in Int /\ Has(t).bag \in 0 .. Cap
    BY <1>2, RecordFacts
  <2>2. /\ Has(t).copper + RewardCopper \in Int /\ Has(t).copper + RewardCopper >= 0
        /\ Has(t).bag + RewardItems \in 0 .. Cap
    BY <1>2, <1>3, <2>1, ConstantFacts
  <2> QED
    BY <2>2 DEF Record
<1>6. h.copper = Has(t).copper + RewardCopper /\ h.bag = Has(t).bag + RewardItems /\ h.quest = "rewarded"
  OBVIOUS
<1>7. UpdateCharacterProgression(record[CharOf(t)], h) = h
  BY <1>2, <1>5, WriteBacks
<1>8. /\ Persist(t, h, UpdateCharacterProgression(record[CharOf(t)], h), TRUE, RewardCopper, RewardItems)
      /\ UNCHANGED <<listing, due, sessionTokenByChar, lootContainers, pending>>
  BY DEF GrantQuestReward, Saves
<1> HIDE DEF h
<1>9. /\ RewardCopper \in Int /\ RewardItems \in Int
      /\ lootContainers' \in [Char -> {"none", "open", "claimed"}]
  BY <1>8, ConstantFacts DEF Sound, Typed, TypeOK
<1> QED
  BY <1>1, <1>5, <1>6, <1>7, <1>8, <1>9, PersistKeeps

LEMMA ClaimKeeps ==
  ASSUME Sound, Races = {}, NEW t \in Token, HandleLootClaim(t)
  PROVE  Sound' /\ RewardsKept
<1> DEFINE h == [Has(t) EXCEPT !.bag = @ + 1]
<1>1. Live(t) /\ sessionsByToken[t].connected /\ Free(CharOf(t))
  BY DEF HandleLootClaim, ClaimLoot
<1>2. /\ CharOf(t) \in Char /\ Has(t) \in Record /\ Has(t) = record[CharOf(t)]
      /\ record[CharOf(t)] \in Record /\ record[CharOf(t)].copper >= 0
  BY <1>1, Handlers DEF Sound, Typed, TypeOK
<1>3. Has(t).bag < Cap
  BY DEF HandleLootClaim, ClaimLoot
<1>4. h = [copper |-> Has(t).copper, bag |-> Has(t).bag + 1, quest |-> Has(t).quest]
  BY <1>2 DEF Record
<1>5. h \in Record /\ h.copper >= 0 /\ h.copper = Has(t).copper + 0 /\ h.bag = Has(t).bag + 1
      /\ h.quest = Has(t).quest
  <2>1. Has(t).copper \in Int /\ Has(t).bag \in 0 .. Cap /\ Has(t).quest \in {"active", "rewarded"}
    BY <1>2, RecordFacts
  <2>2. Has(t).copper + 0 = Has(t).copper /\ Has(t).bag + 1 \in 0 .. Cap
    BY <1>3, <2>1, ConstantFacts
  <2> HIDE DEF h
  <2> QED
    BY <1>2, <1>4, <2>1, <2>2 DEF Record
<1>6. UpdateCharacterProgression(record[CharOf(t)], h) = h
  BY <1>2, <1>5, WriteBacks
<1>7. /\ Persist(t, h, UpdateCharacterProgression(record[CharOf(t)], h), TRUE, 0, 1)
      /\ lootContainers' = [lootContainers EXCEPT ![CharOf(t)] = "claimed"]
      /\ UNCHANGED <<listing, due, sessionTokenByChar, pending>>
  BY DEF HandleLootClaim, ClaimLoot, Saves
<1> HIDE DEF h
<1>8. lootContainers' \in [Char -> {"none", "open", "claimed"}]
  BY <1>7 DEF Sound, Typed, TypeOK
<1>9. 0 \in Int /\ 1 \in Int
  OBVIOUS
<1> QED
  BY <1>1, <1>5, <1>6, <1>7, <1>8, <1>9, PersistKeeps

-----------------------------------------------------------------------------
(* The market *)

Returned(R, c) == Cardinality(SoldBy(c, R))

\* Sessions ss that are as before but for their copies, and of which the
\* connected ones know the records rr.
Refreshed(ss, rr) ==
  /\ ss \in [Token -> Session \union {None}]
  /\ \A u \in Token : Live(u) => ss[u] # None
  /\ \A u \in Token : ss[u] # None =>
       /\ Live(u) /\ ss[u].char = CharOf(u)
       /\ ss[u].connected = sessionsByToken[u].connected
       /\ ss[u].connected =>
            \/ ss[u].has = rr[CharOf(u)]
            \/ ss[u].has = Has(u) /\ rr[CharOf(u)] = record[CharOf(u)]

LEMMA RefreshFacts ==
  ASSUME NEW ss \in [Token -> Session \union {None}], NEW rr \in [Char -> Record], NEW C
  PROVE  /\ Refresh(ss, rr, C) \in [Token -> Session \union {None}]
         /\ \A u \in Token : Refresh(ss, rr, C)[u] =
              IF ss[u] # None /\ ss[u].connected /\ ss[u].char \in C
                THEN [char |-> ss[u].char, connected |-> ss[u].connected, has |-> rr[ss[u].char]]
                ELSE ss[u]
<1>1. ASSUME NEW u \in Token, ss[u] # None
      PROVE  /\ ss[u] \in Session /\ ss[u].char \in Char /\ ss[u].connected \in BOOLEAN
             /\ [ss[u] EXCEPT !.has = rr[ss[u].char]]
                  = [char |-> ss[u].char, connected |-> ss[u].connected, has |-> rr[ss[u].char]]
  <2>1. ss[u] \in Session
    BY <1>1
  <2>2. ss[u].char \in Char /\ ss[u].connected \in BOOLEAN
    BY <2>1, SessionFacts
  <2>3. [ss[u] EXCEPT !.has = rr[ss[u].char]]
          = [char |-> ss[u].char, connected |-> ss[u].connected, has |-> rr[ss[u].char]]
    BY <2>1, NewCopy
  <2> QED
    BY <2>1, <2>2, <2>3
<1>2. ASSUME NEW u \in Token
      PROVE  Refresh(ss, rr, C)[u] =
              IF ss[u] # None /\ ss[u].connected /\ ss[u].char \in C
                THEN [char |-> ss[u].char, connected |-> ss[u].connected, has |-> rr[ss[u].char]]
                ELSE ss[u]
  BY <1>1 DEF Refresh
<1>3. ASSUME NEW u \in Token
      PROVE  Refresh(ss, rr, C)[u] \in Session \union {None}
  <2>1. CASE ss[u] # None /\ ss[u].connected /\ ss[u].char \in C
    <3>1. [char |-> ss[u].char, connected |-> ss[u].connected, has |-> rr[ss[u].char]] \in Session
      BY <1>1, <2>1 DEF Session
    <3> QED
      BY <1>2, <2>1, <3>1
  <2>2. CASE ~(ss[u] # None /\ ss[u].connected /\ ss[u].char \in C)
    BY <1>2, <2>2
  <2> QED
    BY <2>1, <2>2
<1>4. Refresh(ss, rr, C) \in [Token -> Session \union {None}]
  <2>1. Refresh(ss, rr, C) = [u \in Token |-> Refresh(ss, rr, C)[u]]
    BY DEF Refresh
  <2> QED
    BY <1>3, <2>1
<1> QED
  BY <1>2, <1>4

LEMMA MarketKeeps ==
  ASSUME Sound, record' \in [Char -> Record], \A d \in Char : record'[d].copper >= 0,
         \A d \in Char : record'[d] # record[d] => pending[d] = None,
         \A d \in Char : record'[d].quest = record[d].quest,
         owed' \in [Char -> Owed], BooksBalance',
         ListingTyped(listing'),
         \A l \in due' : l \in Listing /\ listing'[l].state = "active",
         Refreshed(sessionsByToken', record'),
         sessionTokenByChar' = sessionTokenByChar, lootContainers' = lootContainers,
         pending' = pending
  PROVE  Sound' /\ RewardsKept
<1>1. Typed'
  BY DEF Sound, Typed, TypeOK, Active, Refreshed, ListingTyped
<1>2. Indexed'
  <2>1. \A u \in Token : (Live(u)' <=> Live(u)) /\ (Live(u) => CharOf(u)' = CharOf(u))
    BY DEF Refreshed, Live, CharOf
  <2> QED
    BY <2>1 DEF Sound, Indexed
<1>3. CopiesCurrent'
  <2> SUFFICES ASSUME NEW u \in Token, Live(u)', sessionsByToken'[u].connected,
                      pending[CharOf(u)'] = None \/ pending[CharOf(u)'].kind = "connect"
               PROVE  Has(u)' = record'[CharOf(u)']
    BY DEF CopiesCurrent
  <2>1. /\ Live(u) /\ CharOf(u)' = CharOf(u) /\ sessionsByToken[u].connected
        /\ \/ Has(u)' = record'[CharOf(u)]
           \/ Has(u)' = Has(u) /\ record'[CharOf(u)] = record[CharOf(u)]
    BY DEF Refreshed, Live, CharOf, Has
  <2>2. Has(u) = record[CharOf(u)]
    BY <2>1 DEF Sound, CopiesCurrent
  <2> QED
    BY <2>1, <2>2
<1>4. ReadsCurrent'
  BY DEF Sound, ReadsCurrent
<1>5. RewardsKept
  BY DEF RewardsKept
<1> QED
  BY <1>1, <1>2, <1>3, <1>4, <1>5 DEF Sound, ListingTyped

\* What expireAuctionsLocked returns fits into the sellers' bags, and goes to
\* the connected ones among them.
LEMMA ExpiredFacts ==
  ASSUME Sound, Races = {}, NEW R \in Returnable
  PROVE  /\ R \subseteq due
         /\ \A d \in Char : /\ Returned(R, d) \in Nat
                            /\ record[d].bag + Returned(R, d) \in 0 .. Cap
                            /\ Returned(R, d) # 0 => pending[d] = None
         /\ Expired(R).record = [d \in Char |-> [copper |-> record[d].copper,
                                                 bag |-> record[d].bag + Returned(R, d),
                                                 quest |-> record[d].quest]]
         /\ Expired(R).record \in [Char -> Record]
         /\ Expired(R).owed = [d \in Char |-> [copper |-> owed[d].copper,
                                               bag |-> owed[d].bag + Returned(R, d)]]
         /\ Expired(R).owed \in [Char -> Owed]
         /\ ListingTyped(Expired(R).listing)
         /\ \A l \in Listing \ R : Expired(R).listing[l] = listing[l]
         /\ Refreshed(Expired(R).sessions, Expired(R).record)
<1>1. /\ record \in [Char -> Record] /\ owed \in [Char -> Owed]
      /\ listing \in [Listing -> [state : ListingStates, seller : Char \union {None}]]
      /\ due \subseteq Listing
      /\ sessionsByToken \in [Token -> Session \union {None}]
  BY DEF Sound, Typed, TypeOK
<1>2. /\ R \subseteq due
      /\ \A d \in Char : /\ Returned(R, d) = Least(Returned(due, d), Cap - record[d].bag)
                         /\ SoldBy(d, R) # {} => Free(d)
  BY DEF Returnable, Returned
<1>3. ASSUME NEW d \in Char, NEW S \in SUBSET Listing
      PROVE  IsFiniteSet(SoldBy(d, S)) /\ Returned(S, d) \in Nat
  <2>1. SoldBy(d, S) \subseteq Listing
    BY DEF SoldBy
  <2>2. IsFiniteSet(SoldBy(d, S))
    BY <2>1, FS_Subset, EconomyAssumption
  <2> QED
    BY <2>2, FS_CardinalityType DEF Returned
<1>4. ASSUME NEW d \in Char
      PROVE  /\ Returned(R, d) \in Nat
             /\ record[d].bag + Returned(R, d) \in 0 .. Cap
             /\ Returned(R, d) # 0 => pending[d] = None
             /\ Returned(R, d) = 0 => SoldBy(d, R) = {}
  <2>1. R \in SUBSET Listing /\ due \in SUBSET Listing
    BY <1>1, <1>2
  <2>2. Returned(R, d) \in Nat /\ Returned(due, d) \in Nat /\ IsFiniteSet(SoldBy(d, R))
    BY <1>3, <2>1
  <2>3. record[d].bag \in 0 .. Cap
    BY <1>1, RecordFacts
  <2>4. record[d].bag + Returned(R, d) \in 0 .. Cap
    BY <1>2, <2>2, <2>3, ConstantFacts DEF Least
  <2>5. Returned(R, d) = 0 <=> SoldBy(d, R) = {}
    BY <2>2, FS_EmptySet DEF Returned
  <2>6. Returned(R, d) # 0 => pending[d] = None
    BY <1>2, <2>5 DEF Free
  <2> QED
    BY <2>2, <2>4, <2>5, <2>6
<1> DEFINE recs == [d \in Char |-> [record[d] EXCEPT !.bag = @ + Cardinality(SoldBy(d, R))]]
           sellers == {listing[l].seller : l \in R}
<1>5. /\ Expired(R).record = recs
      /\ Expired(R).sessions = Refresh(sessionsByToken, recs, sellers)
      /\ Expired(R).listing = [l \in Listing |-> IF l \in R THEN [listing[l] EXCEPT !.state = "expired"]
                                                             ELSE listing[l]]
      /\ Expired(R).owed = [d \in Char |-> [owed[d] EXCEPT !.bag = @ + Cardinality(SoldBy(d, R))]]
  BY DEF Expired
<1>6. recs = [d \in Char |-> [copper |-> record[d].copper, bag |-> record[d].bag + Returned(R, d),
                              quest |-> record[d].quest]]
  <2>1. ASSUME NEW d \in Char
        PROVE  [record[d] EXCEPT !.bag = @ + Cardinality(SoldBy(d, R))]
                 = [copper |-> record[d].copper, bag |-> record[d].bag + Returned(R, d),
                    quest |-> record[d].quest]
    <3>1. record[d] \in Record
      BY <1>1
    <3> QED
      BY <3>1 DEF Record, Returned
  <2> QED
    BY <2>1
<1>7. [d \in Char |-> [owed[d] EXCEPT !.bag = @ + Cardinality(SoldBy(d, R))]]
        = [d \in Char |-> [copper |-> owed[d].copper, bag |-> owed[d].bag + Returned(R, d)]]
  <2>1. ASSUME NEW d \in Char
        PROVE  [owed[d] EXCEPT !.bag = @ + Cardinality(SoldBy(d, R))]
                 = [copper |-> owed[d].copper, bag |-> owed[d].bag + Returned(R, d)]
    <3>1. owed[d] \in Owed
      BY <1>1
    <3> QED
      BY <3>1 DEF Owed, Returned
  <2> QED
    BY <2>1
<1> HIDE DEF recs, sellers
<1>8. recs \in [Char -> Record]
  <2>1. ASSUME NEW d \in Char
        PROVE  [copper |-> record[d].copper, bag |-> record[d].bag + Returned(R, d),
                quest |-> record[d].quest] \in Record
    <3>1. record[d] \in Record
      BY <1>1
    <3>2. record[d].copper \in Int /\ record[d].quest \in {"active", "rewarded"}
      BY <3>1, RecordFacts
    <3>3. record[d].bag + Returned(R, d) \in 0 .. Cap
      BY <1>4
    <3> QED
      BY <3>2, <3>3 DEF Record
  <2> QED
    BY <1>6, <2>1
<1>9. [d \in Char |-> [copper |-> owed[d].copper, bag |-> owed[d].bag + Returned(R, d)]] \in [Char -> Owed]
  <2>1. ASSUME NEW d \in Char
        PROVE  [copper |-> owed[d].copper, bag |-> owed[d].bag + Returned(R, d)] \in Owed
    <3>1. owed[d] \in Owed
      BY <1>1
    <3>2. owed[d].copper \in Int /\ owed[d].bag + Returned(R, d) \in Int
      BY <1>4, <3>1 DEF Owed
    <3> QED
      BY <3>2 DEF Owed
  <2> QED
    BY <2>1
<1>10. ASSUME NEW l \in Listing
       PROVE  (IF l \in R THEN [listing[l] EXCEPT !.state = "expired"] ELSE listing[l])
                 \in [state : ListingStates, seller : Char \union {None}]
  BY <1>1 DEF ListingStates
<1>11. Refreshed(Refresh(sessionsByToken, recs, sellers), recs)
  <2> DEFINE ss == Refresh(sessionsByToken, recs, sellers)
  <2>1. /\ ss \in [Token -> Session \union {None}]
        /\ \A u \in Token : ss[u] =
             IF sessionsByToken[u] # None /\ sessionsByToken[u].connected
                   /\ sessionsByToken[u].char \in sellers
               THEN [char |-> sessionsByToken[u].char, connected |-> sessionsByToken[u].connected,
                     has |-> recs[sessionsByToken[u].char]]
               ELSE sessionsByToken[u]
    BY <1>1, <1>8, RefreshFacts
  <2> HIDE DEF ss
  <2>0. ASSUME NEW u \in Token, Live(u)
        PROVE  ss[u] # None
    <3>1. sessionsByToken[u] \in Session
      BY <1>1, <2>0 DEF Live
    <3>2. ss[u] \in Session
      <4>1. CharOf(u) \in Char /\ sessionsByToken[u].connected \in BOOLEAN
        BY <3>1, SessionFacts DEF CharOf
      <4>2. recs[CharOf(u)] \in Record
        BY <1>8, <4>1
      <4>3. [char |-> CharOf(u), connected |-> sessionsByToken[u].connected, has |-> recs[CharOf(u)]]
              \in Session
        BY <4>1, <4>2 DEF Session
      <4> QED
        BY <2>1, <3>1, <4>3 DEF CharOf
    <3> QED
      BY <3>2, NoneAssumption
  <2>2. ASSUME NEW u \in Token, ss[u] # None
        PROVE  /\ Live(u) /\ ss[u].char = CharOf(u)
               /\ ss[u].connected = sessionsByToken[u].connected
               /\ ss[u].connected =>
                    \/ ss[u].has = recs[CharOf(u)]
                    \/ ss[u].has = Has(u) /\ recs[CharOf(u)] = record[CharOf(u)]
    <3>1. CASE sessionsByToken[u] # None /\ sessionsByToken[u].connected
                   /\ sessionsByToken[u].char \in sellers
      <4>1. ss[u] = [char |-> sessionsByToken[u].char, connected |-> sessionsByToken[u].connected,
                     has |-> recs[sessionsByToken[u].char]]
        BY <2>1, <3>1
      <4> QED
        BY <3>1, <4>1 DEF Live, CharOf
    <3>2. CASE ~(sessionsByToken[u] # None /\ sessionsByToken[u].connected
                   /\ sessionsByToken[u].char \in sellers)
      <4>1. ss[u] = sessionsByToken[u] /\ Live(u) /\ sessionsByToken[u] \in Session
        BY <1>1, <2>1, <2>2, <3>2 DEF Live
      <4>2. CharOf(u) \in Char
        BY <4>1, SessionFacts DEF CharOf
      <4>3. ASSUME sessionsByToken[u].connected
            PROVE  recs[CharOf(u)] = record[CharOf(u)]
        <5>1. CharOf(u) \notin sellers
          BY <3>2, <4>1, <4>3 DEF Live, CharOf
        <5>2. SoldBy(CharOf(u), R) = {}
          BY <5>1 DEF SoldBy, sellers
        <5>3. Returned(R, CharOf(u)) = 0
          BY <5>2, FS_EmptySet DEF Returned
        <5>4. record[CharOf(u)] \in Record
          BY <1>1, <4>2
        <5>5. record[CharOf(u)].bag + 0 = record[CharOf(u)].bag
          BY <5>4, RecordFacts
        <5>6. record[CharOf(u)] = [copper |-> record[CharOf(u)].copper, bag |-> record[CharOf(u)].bag,
                                   quest |-> record[CharOf(u)].quest]
          BY <5>4, RecordFacts
        <5> QED
          BY <1>6, <4>2, <5>3, <5>5, <5>6
      <4> QED
        BY <4>1, <4>3 DEF CharOf, Has
    <3> QED
      BY <3>1, <3>2
  <2>3. Refreshed(ss, recs)
    BY <2>0, <2>1, <2>2 DEF Refreshed
  <2> QED
    BY <2>3 DEF ss
<1>12. /\ ListingTyped(Expired(R).listing)
       /\ \A l \in Listing \ R : Expired(R).listing[l] = listing[l]
  <2>1. Expired(R).listing \in [Listing -> [state : ListingStates, seller : Char \union {None}]]
    BY <1>5, <1>10
  <2>2. ASSUME NEW l \in Listing, Expired(R).listing[l].state # "none"
        PROVE  Expired(R).listing[l].seller \in Char
    <3>1. CASE l \in R
      <4>1. listing[l].state = "active"
        BY <1>2, <3>1 DEF Sound, Typed, TypeOK, Active
      <4>2. listing[l].seller \in Char
        BY <4>1 DEF Sound, ListingTyped
      <4>3. Expired(R).listing[l].seller = listing[l].seller
        BY <1>1, <1>5, <3>1
      <4> QED
        BY <4>2, <4>3
    <3>2. CASE l \notin R
      <4>1. Expired(R).listing[l] = listing[l]
        BY <1>5, <3>2
      <4> QED
        BY <2>2, <4>1 DEF Sound, ListingTyped
    <3> QED
      BY <3>1, <3>2
  <2>3. \A l \in Listing \ R : Expired(R).listing[l] = listing[l]
    BY <1>5
  <2> QED
    BY <2>1, <2>2, <2>3 DEF ListingTyped
<1>13. Expired(R).record \in [Char -> Record] /\ Expired(R).owed \in [Char -> Owed]
       /\ Refreshed(Expired(R).sessions, Expired(R).record)
  BY <1>5, <1>7, <1>8, <1>9, <1>11
<1> QED
  BY <1>2, <1>4, <1>5, <1>6, <1>7, <1>12, <1>13

Reloaded(ss, t, r) == [ss EXCEPT ![t].has = r]

\* The acting session reloads its character, which nobody else holds.
LEMMA ActingRefreshed ==
  ASSUME NEW ss, NEW rw, Refreshed(ss, rw), NEW rr \in [Char -> Record],
         NEW t \in Token, Live(t), CharOf(t) \in Char,
         \A u \in Token : Live(u) /\ CharOf(u) = CharOf(t) => u = t,
         \A u \in Token : Live(u) => CharOf(u) \in Char,
         \A d \in Char : d # CharOf(t) => rr[d] = rw[d]
  PROVE  Refreshed(Reloaded(ss, t, rr[CharOf(t)]), rr)
<1> DEFINE new == Reloaded(ss, t, rr[CharOf(t)])
<1> USE DEF Reloaded
<1>1. /\ ss \in [Token -> Session \union {None}] /\ ss[t] # None /\ ss[t] \in Session
      /\ ss[t].char = CharOf(t) /\ ss[t].connected = sessionsByToken[t].connected
  BY DEF Refreshed
<1>2. new = [u \in Token |-> new[u]] /\ \A u \in Token : u # t => new[u] = ss[u]
  BY <1>1
<1>3. new[t] = [char |-> ss[t].char, connected |-> ss[t].connected, has |-> rr[CharOf(t)]]
  <2>1. new[t] = [ss[t] EXCEPT !.has = rr[CharOf(t)]]
    BY <1>1
  <2> QED
    BY <1>1, <2>1, NewCopy
<1>4. new[t] \in Session
  BY <1>1, <1>3, SessionFacts DEF Session
<1> HIDE DEF new
<1>5. new \in [Token -> Session \union {None}]
  BY <1>1, <1>2, <1>4
<1>6. \A u \in Token : Live(u) => new[u] # None
  BY <1>2, <1>4, NoneAssumption DEF Refreshed
<1>7. ASSUME NEW u \in Token, new[u] # None
      PROVE  /\ Live(u) /\ new[u].char = CharOf(u)
             /\ new[u].connected = sessionsByToken[u].connected
             /\ new[u].connected =>
                  \/ new[u].has = rr[CharOf(u)]
                  \/ new[u].has = Has(u) /\ rr[CharOf(u)] = record[CharOf(u)]
  <2>1. CASE u = t
    BY <1>1, <1>3, <2>1
  <2>2. CASE u # t
    <3>1. new[u] = ss[u] /\ Live(u)
      BY <1>2, <1>7, <2>2 DEF Refreshed
    <3>2. rr[CharOf(u)] = rw[CharOf(u)]
      BY <2>2, <3>1
    <3> QED
      BY <1>7, <3>1, <3>2 DEF Refreshed
  <2> QED
    BY <2>1, <2>2
<1>8. Refreshed(new, rr)
  BY <1>5, <1>6, <1>7 DEF Refreshed
<1> QED
  BY <1>8 DEF new

\* The seller's connected session reloads.
LEMMA SellerRefreshed ==
  ASSUME NEW ss, NEW rw, Refreshed(ss, rw), NEW rr \in [Char -> Record], NEW seller \in Char,
         NEW rq, rq[seller] = rr[seller], \A d \in Char : d # seller => rq[d] = rw[d],
         \A u \in Token : Live(u) => CharOf(u) \in Char
  PROVE  Refreshed(Refresh(ss, rr, {seller}), rq)
<1> DEFINE new == Refresh(ss, rr, {seller})
<1>1. ss \in [Token -> Session \union {None}]
  BY DEF Refreshed
<1>2. /\ new \in [Token -> Session \union {None}]
      /\ \A u \in Token : new[u] =
           IF ss[u] # None /\ ss[u].connected /\ ss[u].char \in {seller}
             THEN [char |-> ss[u].char, connected |-> ss[u].connected, has |-> rr[ss[u].char]]
             ELSE ss[u]
  BY <1>1, RefreshFacts
<1> HIDE DEF new
<1>3. ASSUME NEW u \in Token
      PROVE  /\ Live(u) => new[u] # None
             /\ new[u] # None =>
                  /\ Live(u) /\ new[u].char = CharOf(u)
                  /\ new[u].connected = sessionsByToken[u].connected
                  /\ new[u].connected =>
                       \/ new[u].has = rq[CharOf(u)]
                       \/ new[u].has = Has(u) /\ rq[CharOf(u)] = record[CharOf(u)]
  <2>1. CASE ss[u] # None /\ ss[u].connected /\ ss[u].char = seller
    <3>1. new[u] = [char |-> ss[u].char, connected |-> ss[u].connected, has |-> rr[ss[u].char]]
      BY <1>2, <2>1
    <3>2. Live(u) /\ ss[u].char = CharOf(u) /\ ss[u].connected = sessionsByToken[u].connected
      BY <2>1 DEF Refreshed
    <3>3. new[u] # None
      <4>1. ss[u] \in Session
        BY <1>1, <2>1
      <4>2. ss[u].connected \in BOOLEAN /\ rr[seller] \in Record
        BY <4>1, SessionFacts
      <4>3. new[u] \in Session
        BY <2>1, <3>1, <4>2 DEF Session
      <4> QED
        BY <4>3, NoneAssumption
    <3>4. new[u].char = CharOf(u) /\ new[u].has = rr[ss[u].char]
      BY <3>1, <3>2
    <3>5. new[u].connected = ss[u].connected
      BY <3>1
    <3>6. rr[ss[u].char] = rq[CharOf(u)]
      BY <2>1, <3>2
    <3> QED
      BY <3>2, <3>3, <3>4, <3>5, <3>6
  <2>2. CASE ~(ss[u] # None /\ ss[u].connected /\ ss[u].char = seller)
    <3>1. new[u] = ss[u]
      BY <1>2, <2>2
    <3>2. Live(u) => ss[u] # None
      BY DEF Refreshed
    <3>3. ASSUME ss[u] # None
          PROVE  /\ Live(u) /\ ss[u].char = CharOf(u)
                 /\ ss[u].connected = sessionsByToken[u].connected
                 /\ ss[u].connected =>
                      \/ ss[u].has = rq[CharOf(u)]
                      \/ ss[u].has = Has(u) /\ rq[CharOf(u)] = record[CharOf(u)]
      <4>1. /\ Live(u) /\ ss[u].char = CharOf(u) /\ CharOf(u) \in Char
            /\ ss[u].connected = sessionsByToken[u].connected
            /\ ss[u].connected =>
                 \/ ss[u].has = rw[CharOf(u)]
                 \/ ss[u].has = Has(u) /\ rw[CharOf(u)] = record[CharOf(u)]
        BY <3>3 DEF Refreshed
      <4>2. ss[u].connected => rq[CharOf(u)] = rw[CharOf(u)]
        BY <2>2, <3>3, <4>1
      <4> QED
        BY <4>1, <4>2
    <3> QED
      BY <3>1, <3>2, <3>3
  <2> QED
    BY <2>1, <2>2
<1>4. Refreshed(new, rq)
  BY <1>2, <1>3 DEF Refreshed
<1> QED
  BY <1>4 DEF new

Balanced(rr, oo) == \A d \in Char : rr[d].copper = oo[d].copper /\ rr[d].bag = oo[d].bag

Solvent(rr) == \A d \in Char : rr[d].copper >= 0

\* A credit that is booked on both sides keeps them equal.
LEMMA CreditKeeps ==
  ASSUME NEW rr \in [Char -> Record], NEW oo \in [Char -> Owed], Balanced(rr, oo), Solvent(rr),
         NEW c \in Char, NEW x \in Int, NEW y \in Int,
         rr[c].copper + x >= 0, rr[c].bag + y \in 0 .. Cap
  PROVE  /\ Credit(rr, c, x, y) \in [Char -> Record] /\ Solvent(Credit(rr, c, x, y))
         /\ Credit(oo, c, x, y) \in [Char -> Owed]
         /\ Balanced(Credit(rr, c, x, y), Credit(oo, c, x, y))
         /\ \A d \in Char : d # c => Credit(rr, c, x, y)[d] = rr[d]
         /\ \A d \in Char : Credit(rr, c, x, y)[d].quest = rr[d].quest
<1> DEFINE A == Credit(rr, c, x, y)
           O == Credit(oo, c, x, y)
<1>1. A = [d \in Char |-> IF d = c THEN [copper |-> rr[c].copper + x, bag |-> rr[c].bag + y,
                                         quest |-> rr[c].quest]
                                   ELSE rr[d]]
  BY CreditRecords
<1>2. O = [d \in Char |-> IF d = c THEN [copper |-> oo[c].copper + x, bag |-> oo[c].bag + y]
                                   ELSE oo[d]]
  BY CreditOwed
<1>3. rr[c].copper \in Int /\ rr[c].quest \in {"active", "rewarded"}
  BY RecordFacts
<1>4. oo[c].copper \in Int /\ oo[c].bag \in Int
  BY DEF Owed
<1> HIDE DEF A, O
<1>5. A[c] = [copper |-> rr[c].copper + x, bag |-> rr[c].bag + y, quest |-> rr[c].quest]
      /\ \A d \in Char : d # c => A[d] = rr[d]
  BY <1>1
<1>6. O[c] = [copper |-> oo[c].copper + x, bag |-> oo[c].bag + y]
      /\ \A d \in Char : d # c => O[d] = oo[d]
  BY <1>2
<1>7. A[c] \in Record
  BY <1>3, <1>5 DEF Record
<1>8. O[c] \in Owed
  BY <1>4, <1>6 DEF Owed
<1>9. A \in [Char -> Record]
  BY <1>1, <1>7
<1>10. O \in [Char -> Owed]
  BY <1>2, <1>8
<1>11. Solvent(A)
  BY <1>5 DEF Solvent
<1>12. Balanced(A, O)
  <2>1. A[c].copper = O[c].copper /\ A[c].bag = O[c].bag
    BY <1>5, <1>6 DEF Balanced
  <2> QED
    BY <1>5, <1>6, <2>1 DEF Balanced
<1>13. \A d \in Char : A[d].quest = rr[d].quest
  BY <1>5
<1> QED
  BY <1>5, <1>9, <1>10, <1>11, <1>12, <1>13 DEF A, O

LEMMA ExpiredBooks ==
  ASSUME Sound, Races = {}, NEW R \in Returnable
  PROVE  /\ Solvent(Expired(R).record) /\ Balanced(Expired(R).record, Expired(R).owed)
         /\ \A d \in Char : /\ Expired(R).record[d] # record[d] => pending[d] = None
                            /\ Expired(R).record[d].quest = record[d].quest
         /\ \A l \in due \ R : l \in Listing /\ Expired(R).listing[l].state = "active"
<1> DEFINE rr == Expired(R).record
           oo == Expired(R).owed
<1>1. /\ \A d \in Char : Returned(R, d) \in Nat /\ (Returned(R, d) # 0 => pending[d] = None)
      /\ rr = [d \in Char |-> [copper |-> record[d].copper, bag |-> record[d].bag + Returned(R, d),
                               quest |-> record[d].quest]]
      /\ oo = [d \in Char |-> [copper |-> owed[d].copper, bag |-> owed[d].bag + Returned(R, d)]]
      /\ \A l \in Listing \ R : Expired(R).listing[l] = listing[l]
  BY ExpiredFacts
<1> HIDE DEF rr, oo
<1>2. record \in [Char -> Record] /\ \A d \in Char : record[d].copper >= 0
  BY DEF Sound, Typed, TypeOK
<1>3. Solvent(rr)
  BY <1>1, <1>2 DEF Solvent
<1>4. Balanced(rr, oo)
  BY <1>1 DEF Balanced, Sound, BooksBalance
<1>5. ASSUME NEW d \in Char, rr[d] # record[d]
      PROVE  pending[d] = None
  <2>1. record[d].bag + 0 = record[d].bag
    BY <1>2, RecordFacts
  <2>2. record[d] = [copper |-> record[d].copper, bag |-> record[d].bag, quest |-> record[d].quest]
    BY <1>2, RecordFacts
  <2>3. Returned(R, d) # 0
    BY <1>1, <1>5, <2>1, <2>2
  <2> QED
    BY <1>1, <2>3
<1>6. \A d \in Char : rr[d].quest = record[d].quest
  BY <1>1
<1>7. \A l \in due \ R : l \in Listing /\ Expired(R).listing[l].state = "active"
  BY <1>1 DEF Sound, Typed, TypeOK, Active
<1> QED
  BY <1>3, <1>4, <1>5, <1>6, <1>7 DEF rr, oo

LEMMA LiveCharacters ==
  ASSUME Sound
  PROVE  \A u \in Token : Live(u) => CharOf(u) \in Char
<1> SUFFICES ASSUME NEW u \in Token, Live(u)
             PROVE  CharOf(u) \in Char
  OBVIOUS
<1>1. sessionsByToken[u] \in Session
  BY DEF Sound, Typed, TypeOK, Live
<1> QED
  BY <1>1, SessionFacts DEF CharOf

\* A market call that has made the records rr, the books oo and the listings L
\* of the world the expiry left, and the sessions ss that know the records rw.
LEMMA DealKeeps ==
  ASSUME Sound, Races = {}, NEW t \in Token, Live(t), sessionsByToken[t].connected, Free(CharOf(t)),
         NEW R \in Returnable, NEW ss, NEW rw, Refreshed(ss, rw),
         NEW rr \in [Char -> Record], Solvent(rr), NEW oo \in [Char -> Owed], Balanced(rr, oo),
         \A d \in Char : d # CharOf(t) => rr[d] = rw[d],
         \A d \in Char : d # CharOf(t) /\ rr[d] # record[d] => pending[d] = None,
         \A d \in Char : rr[d].quest = record[d].quest,
         NEW L, ListingTyped(L), \A l \in due \ R : l \in Listing /\ L[l].state = "active",
         NEW W, W.record = rr, W.sessions = ss, W.listing = L, W.owed = oo, Become(W, t, R)
  PROVE  Sound' /\ RewardsKept
<1>3. /\ record' = rr /\ listing' = L /\ owed' = oo /\ due' = due \ R
      /\ sessionsByToken' = [ss EXCEPT ![t].has = rr[CharOf(t)]]
      /\ UNCHANGED <<sessionTokenByChar, lootContainers, pending>>
  BY DEF Become
<1>4. /\ CharOf(t) \in Char /\ pending[CharOf(t)] = None
      /\ \A u \in Token : Live(u) /\ CharOf(u) = CharOf(t) => u = t
  BY Handlers
<1>5. Refreshed(sessionsByToken', rr)
  <2>1. \A u \in Token : Live(u) => CharOf(u) \in Char
    BY LiveCharacters
  <2>2. Refreshed(Reloaded(ss, t, rr[CharOf(t)]), rr)
    BY <1>4, <2>1, ActingRefreshed
  <2> QED
    BY <1>3, <2>2 DEF Reloaded
<1>6. Refreshed(sessionsByToken', record')
  BY <1>3, <1>5
<1>7. \A d \in Char : record'[d].copper >= 0
  BY <1>3 DEF Solvent
<1>8. BooksBalance'
  BY <1>3 DEF BooksBalance, Balanced
<1>9. \A d \in Char : record'[d] # record[d] => pending[d] = None
  BY <1>3, <1>4
<1>10. \A l \in due' : l \in Listing /\ listing'[l].state = "active"
  BY <1>3
<1>11. record' \in [Char -> Record] /\ owed' \in [Char -> Owed] /\ ListingTyped(listing')
       /\ \A d \in Char : record'[d].quest = record[d].quest
  BY <1>3
<1> QED
  BY <1>3, <1>6, <1>7, <1>8, <1>9, <1>10, <1>11, MarketKeeps

LEMMA BrowseKeeps ==
  ASSUME Sound, Races = {}, NEW t \in Token, HandleAuctionBrowse(t)
  PROVE  Sound' /\ RewardsKept
<1>1. PICK R \in Returnable :
         /\ record' = Expired(R).record /\ listing' = Expired(R).listing /\ owed' = Expired(R).owed
         /\ due' = due \ R /\ sessionsByToken' = Expired(R).sessions
         /\ UNCHANGED <<sessionTokenByChar, lootContainers, pending>>
  BY DEF HandleAuctionBrowse, Browse
<1>2. /\ Expired(R).record \in [Char -> Record] /\ Expired(R).owed \in [Char -> Owed]
      /\ ListingTyped(Expired(R).listing)
      /\ Refreshed(Expired(R).sessions, Expired(R).record)
  BY ExpiredFacts
<1>3. /\ Solvent(Expired(R).record) /\ Balanced(Expired(R).record, Expired(R).owed)
      /\ \A d \in Char : /\ Expired(R).record[d] # record[d] => pending[d] = None
                         /\ Expired(R).record[d].quest = record[d].quest
      /\ \A l \in due \ R : l \in Listing /\ Expired(R).listing[l].state = "active"
  BY ExpiredBooks
<1>4. Refreshed(sessionsByToken', record')
  BY <1>1, <1>2
<1>5. \A d \in Char : record'[d].copper >= 0
  BY <1>1, <1>3 DEF Solvent
<1>6. BooksBalance'
  BY <1>1, <1>3 DEF BooksBalance, Balanced
<1> QED
  BY <1>1, <1>2, <1>3, <1>4, <1>5, <1>6, MarketKeeps

\* A listing that stands, and one whose state alone changes.
LEMMA ListingSteps ==
  ASSUME NEW L, ListingTyped(L), NEW l \in Listing
  PROVE  /\ \A c \in Char : LET M == [L EXCEPT ![l] = [state |-> "active", seller |-> c]]
                            IN ListingTyped(M) /\ \A k \in Listing : k # l => M[k] = L[k]
         /\ \A s \in ListingStates : L[l].state # "none" =>
              LET M == [L EXCEPT ![l].state = s]
              IN ListingTyped(M) /\ \A k \in Listing : k # l => M[k] = L[k]
<1>1. ASSUME NEW c \in Char
      PROVE  LET M == [L EXCEPT ![l] = [state |-> "active", seller |-> c]]
             IN ListingTyped(M) /\ \A k \in Listing : k # l => M[k] = L[k]
  BY DEF ListingTyped, ListingStates
<1>2. ASSUME NEW s \in ListingStates, L[l].state # "none"
      PROVE  LET M == [L EXCEPT ![l].state = s]
             IN ListingTyped(M) /\ \A k \in Listing : k # l => M[k] = L[k]
  <2> DEFINE M == [L EXCEPT ![l].state = s]
  <2>1. L[l].seller \in Char /\ L[l] \in [state : ListingStates, seller : Char \union {None}]
    BY <1>2 DEF ListingTyped
  <2>2. M[l] = [state |-> s, seller |-> L[l].seller]
    BY <2>1 DEF ListingTyped
  <2>3. M = [k \in Listing |-> M[k]] /\ \A k \in Listing : k # l => M[k] = L[k]
    BY DEF ListingTyped
  <2> HIDE DEF M
  <2>4. ListingTyped(M)
    BY <1>2, <2>1, <2>2, <2>3 DEF ListingTyped
  <2> QED
    BY <2>3, <2>4 DEF M
<1> QED
  BY <1>1, <1>2

LEMMA WorldShape ==
  ASSUME NEW R
  PROVE  Expired(R) = [record |-> Expired(R).record, sessions |-> Expired(R).sessions,
                       listing |-> Expired(R).listing, owed |-> Expired(R).owed]
BY DEF Expired

\* Every market handler: the acting session's copy is current, and the expiry
\* before the deal keeps the books.
LEMMA ActingFacts ==
  ASSUME Sound, Races = {}, NEW t \in Token, Live(t), sessionsByToken[t].connected, Free(CharOf(t)),
         NEW R \in Returnable
  PROVE  /\ CharOf(t) \in Char /\ pending[CharOf(t)] = None
         /\ Expired(R).record \in [Char -> Record] /\ Expired(R).owed \in [Char -> Owed]
         /\ ListingTyped(Expired(R).listing)
         /\ Refreshed(Expired(R).sessions, Expired(R).record)
         /\ \A k \in Listing \ due : Expired(R).listing[k] = listing[k]
         /\ R \subseteq due
BY Handlers, ExpiredFacts

LEMMA ListKeeps ==
  ASSUME Sound, Races = {}, NEW t \in Token, HandleAuctionList(t)
  PROVE  Sound' /\ RewardsKept
<1> DEFINE c == CharOf(t)
<1>1. PICK l \in Listing : List(t, l)
  BY DEF HandleAuctionList
<1>2. Live(t) /\ sessionsByToken[t].connected /\ Free(c) /\ listing[l] = Unlisted
  BY <1>1 DEF HandleAuctionList, Usable, List
<1>3. PICK R \in Returnable :
         /\ MayCreate(Expired(R).record[c])
         /\ Become([Expired(R) EXCEPT !.record = Credit(@, c, -Deposit, -1),
                                      !.listing[l] = [state |-> "active", seller |-> c],
                                      !.owed = Credit(@, c, -Deposit, -1)], t, R)
  BY <1>1 DEF List
<1> DEFINE w == Expired(R)
           W == [w EXCEPT !.record = Credit(@, c, -Deposit, -1),
                          !.listing[l] = [state |-> "active", seller |-> c],
                          !.owed = Credit(@, c, -Deposit, -1)]
<1>4. /\ c \in Char /\ pending[c] = None
      /\ w.record \in [Char -> Record] /\ w.owed \in [Char -> Owed]
      /\ ListingTyped(w.listing) /\ Refreshed(w.sessions, w.record)
      /\ \A k \in Listing \ due : w.listing[k] = listing[k]
  BY <1>2, ActingFacts
<1>5. /\ Solvent(w.record) /\ Balanced(w.record, w.owed)
      /\ \A d \in Char : /\ w.record[d] # record[d] => pending[d] = None
                         /\ w.record[d].quest = record[d].quest
      /\ \A k \in due \ R : k \in Listing /\ w.listing[k].state = "active"
  BY ExpiredBooks
<1>6. w = [record |-> w.record, sessions |-> w.sessions, listing |-> w.listing, owed |-> w.owed]
  BY WorldShape
<1> HIDE DEF w, c
<1>7. /\ W.record = Credit(w.record, c, -Deposit, -1)
      /\ W.sessions = w.sessions
  BY <1>6
<1>8. W.listing = [w.listing EXCEPT ![l] = [state |-> "active", seller |-> c]]
  BY <1>6
<1>9. W.owed = Credit(w.owed, c, -Deposit, -1)
  BY <1>6
<1>10. Become(W, t, R)
  BY <1>3 DEF w
<1> HIDE DEF W
<1>11. w.record[c].copper + (-Deposit) >= 0 /\ w.record[c].bag + (-1) \in 0 .. Cap
       /\ -Deposit \in Int /\ -1 \in Int
  <2>1. w.record[c] \in Record
    BY <1>4
  <2>2. w.record[c].copper \in Int /\ w.record[c].bag \in 0 .. Cap
    BY <2>1, RecordFacts
  <2>3. w.record[c].bag > 0 /\ w.record[c].copper >= Deposit
    BY <1>3 DEF MayCreate, w
  <2> QED
    BY <2>2, <2>3, ConstantFacts
<1> DEFINE rr == Credit(w.record, c, -Deposit, -1)
           oo == Credit(w.owed, c, -Deposit, -1)
           L  == [w.listing EXCEPT ![l] = [state |-> "active", seller |-> c]]
<1>12. /\ rr \in [Char -> Record] /\ Solvent(rr) /\ oo \in [Char -> Owed] /\ Balanced(rr, oo)
       /\ \A d \in Char : d # c => rr[d] = w.record[d]
       /\ \A d \in Char : rr[d].quest = w.record[d].quest
  BY <1>4, <1>5, <1>11, CreditKeeps
<1>13. ListingTyped(L) /\ \A k \in Listing : k # l => L[k] = w.listing[k]
  BY <1>4, ListingSteps
<1>14. l \notin due
  BY <1>2 DEF Sound, Typed, TypeOK, Active, Unlisted
<1>15. W.record = rr /\ W.sessions = w.sessions /\ W.listing = L /\ W.owed = oo
  BY <1>7, <1>8, <1>9
<1> HIDE DEF rr, oo, L
<1>16. /\ \A d \in Char : d # c /\ rr[d] # record[d] => pending[d] = None
       /\ \A d \in Char : rr[d].quest = record[d].quest
       /\ \A k \in due \ R : k \in Listing /\ L[k].state = "active"
  BY <1>5, <1>12, <1>13, <1>14
<1>17. /\ CharOf(t) = c /\ Refreshed(w.sessions, w.record)
       /\ rr \in [Char -> Record] /\ Solvent(rr) /\ oo \in [Char -> Owed] /\ Balanced(rr, oo)
       /\ \A d \in Char : d # CharOf(t) => rr[d] = w.record[d]
       /\ ListingTyped(L) /\ Live(t) /\ sessionsByToken[t].connected /\ Free(CharOf(t))
  BY <1>2, <1>4, <1>12, <1>13 DEF c
<1> QED
  BY <1>10, <1>15, <1>16, <1>17, DealKeeps

LEMMA CancelKeeps ==
  ASSUME Sound, Races = {}, NEW t \in Token, HandleAuctionCancel(t)
  PROVE  Sound' /\ RewardsKept
<1> DEFINE c == CharOf(t)
<1>1. PICK l \in Listing : Cancel(t, l)
  BY DEF HandleAuctionCancel
<1>2. Live(t) /\ sessionsByToken[t].connected /\ Free(c) /\ Active(l) /\ l \notin due
  BY <1>1 DEF HandleAuctionCancel, Usable, Cancel
<1>3. PICK R \in Returnable :
         /\ Fits(Expired(R).record[c])
         /\ Become([Expired(R) EXCEPT !.record = Credit(@, c, 0, 1),
                                      !.listing[l].state = "canceled",
                                      !.owed = Credit(@, c, 0, 1)], t, R)
  BY <1>1 DEF Cancel
<1> DEFINE w == Expired(R)
           W == [w EXCEPT !.record = Credit(@, c, 0, 1),
                          !.listing[l].state = "canceled",
                          !.owed = Credit(@, c, 0, 1)]
<1>4. /\ c \in Char /\ pending[c] = None
      /\ w.record \in [Char -> Record] /\ w.owed \in [Char -> Owed]
      /\ ListingTyped(w.listing) /\ Refreshed(w.sessions, w.record)
      /\ \A k \in Listing \ due : w.listing[k] = listing[k]
  BY <1>2, ActingFacts
<1>5. /\ Solvent(w.record) /\ Balanced(w.record, w.owed)
      /\ \A d \in Char : /\ w.record[d] # record[d] => pending[d] = None
                         /\ w.record[d].quest = record[d].quest
      /\ \A k \in due \ R : k \in Listing /\ w.listing[k].state = "active"
  BY ExpiredBooks
<1>6. w = [record |-> w.record, sessions |-> w.sessions, listing |-> w.listing, owed |-> w.owed]
  BY WorldShape
<1> HIDE DEF w, c
<1>7. /\ W.record = Credit(w.record, c, 0, 1)
      /\ W.sessions = w.sessions
  BY <1>6
<1>8. W.listing = [w.listing EXCEPT ![l].state = "canceled"]
  BY <1>6
<1>9. W.owed = Credit(w.owed, c, 0, 1)
  BY <1>6
<1>10. Become(W, t, R)
  BY <1>3 DEF w
<1> HIDE DEF W
<1>11. w.record[c].copper + 0 >= 0 /\ w.record[c].bag + 1 \in 0 .. Cap /\ 0 \in Int /\ 1 \in Int
  <2>1. w.record[c] \in Record /\ w.record[c].copper >= 0
    BY <1>4, <1>5 DEF Solvent
  <2>2. w.record[c].copper \in Int /\ w.record[c].bag \in 0 .. Cap
    BY <2>1, RecordFacts
  <2>3. w.record[c].bag < Cap
    BY <1>3 DEF Fits, w
  <2> QED
    BY <2>1, <2>2, <2>3, ConstantFacts
<1> DEFINE rr == Credit(w.record, c, 0, 1)
           oo == Credit(w.owed, c, 0, 1)
           L  == [w.listing EXCEPT ![l].state = "canceled"]
<1>12. /\ rr \in [Char -> Record] /\ Solvent(rr) /\ oo \in [Char -> Owed] /\ Balanced(rr, oo)
       /\ \A d \in Char : d # c => rr[d] = w.record[d]
       /\ \A d \in Char : rr[d].quest = w.record[d].quest
  BY <1>4, <1>5, <1>11, CreditKeeps
<1>13. ListingTyped(L) /\ \A k \in Listing : k # l => L[k] = w.listing[k]
  <2>1. w.listing[l].state # "none" /\ "canceled" \in ListingStates
    BY <1>2, <1>4 DEF Active, ListingStates
  <2> QED
    BY <1>4, <2>1, ListingSteps
<1>15. W.record = rr /\ W.sessions = w.sessions /\ W.listing = L /\ W.owed = oo
  BY <1>7, <1>8, <1>9
<1> HIDE DEF rr, oo, L
<1>16. /\ \A d \in Char : d # c /\ rr[d] # record[d] => pending[d] = None
       /\ \A d \in Char : rr[d].quest = record[d].quest
       /\ \A k \in due \ R : k \in Listing /\ L[k].state = "active"
  BY <1>2, <1>5, <1>12, <1>13
<1>17. /\ Live(t) /\ sessionsByToken[t].connected /\ Free(CharOf(t))
       /\ \A d \in Char : d # CharOf(t) => rr[d] = w.record[d]
       /\ \A d \in Char : d # CharOf(t) /\ rr[d] # record[d] => pending[d] = None
       /\ Refreshed(w.sessions, w.record) /\ ListingTyped(L)
  BY <1>2, <1>4, <1>12, <1>13, <1>16 DEF c
<1> QED
  BY <1>10, <1>12, <1>15, <1>16, <1>17, DealKeeps

LEMMA BuyoutKeeps ==
  ASSUME Sound, Races = {}, NEW t \in Token, HandleAuctionBuyout(t)
  PROVE  Sound' /\ RewardsKept
<1>1. PICK l \in Listing : Buyout(t, l)
  BY DEF HandleAuctionBuyout
<1> DEFINE c == CharOf(t)
           seller == listing[l].seller
           gain == BuyoutPrice - Cut + Deposit
<1>2. /\ Live(t) /\ sessionsByToken[t].connected /\ Free(c) /\ Active(l) /\ l \notin due
      /\ seller # c /\ Free(seller)
  BY <1>1 DEF HandleAuctionBuyout, Usable, Buyout
<1>3. PICK R \in Returnable :
         /\ Expired(R).record[c].copper >= BuyoutPrice /\ Fits(Expired(R).record[c])
         /\ Become([record |-> Credit(Credit(Expired(R).record, c, -BuyoutPrice, 1), seller, gain, 0),
                    sessions |-> Refresh(Expired(R).sessions,
                       Credit(Credit(Expired(R).record, c, -BuyoutPrice, 1), seller, gain, 0), {seller}),
                    listing |-> [Expired(R).listing EXCEPT ![l].state = "sold"],
                    owed |-> Credit(Credit(Expired(R).owed, c, -BuyoutPrice, 1), seller, gain, 0)], t, R)
  BY <1>1 DEF Buyout
<1> DEFINE w == Expired(R)
           r1 == Credit(w.record, c, -BuyoutPrice, 1)
           o1 == Credit(w.owed, c, -BuyoutPrice, 1)
           r2 == Credit(r1, seller, gain, 0)
           o2 == Credit(o1, seller, gain, 0)
           rq == [w.record EXCEPT ![seller] = r2[seller]]
           ss == Refresh(w.sessions, r2, {seller})
           L  == [w.listing EXCEPT ![l].state = "sold"]
           W  == [record |-> r2, sessions |-> ss, listing |-> L, owed |-> o2]
<1>4. /\ c \in Char /\ pending[c] = None
      /\ w.record \in [Char -> Record] /\ w.owed \in [Char -> Owed]
      /\ ListingTyped(w.listing) /\ Refreshed(w.sessions, w.record)
      /\ \A k \in Listing \ due : w.listing[k] = listing[k]
  BY <1>2, ActingFacts
<1>5. /\ Solvent(w.record) /\ Balanced(w.record, w.owed)
      /\ \A d \in Char : /\ w.record[d] # record[d] => pending[d] = None
                         /\ w.record[d].quest = record[d].quest
      /\ \A k \in due \ R : k \in Listing /\ w.listing[k].state = "active"
  BY ExpiredBooks
<1>6. seller \in Char /\ pending[seller] = None
  BY <1>2 DEF Sound, ListingTyped, Active, Free
<1>7. W.record = r2 /\ W.sessions = ss /\ W.listing = L /\ W.owed = o2
  OBVIOUS
<1>8. Become(W, t, R)
  BY <1>3
<1> HIDE DEF W
<1>9. ListingTyped(L) /\ \A k \in Listing : k # l => L[k] = w.listing[k]
  <2>1. w.listing[l].state # "none" /\ "sold" \in ListingStates
    BY <1>2, <1>4 DEF Active, ListingStates
  <2> HIDE DEF w
  <2> QED
    BY <1>4, <2>1, ListingSteps
<1>10. w.record[c].copper >= BuyoutPrice /\ w.record[c].bag < Cap
  BY <1>3 DEF Fits
<1> HIDE DEF w, c, seller, L
<1>11. w.record[c].copper + (-BuyoutPrice) >= 0 /\ w.record[c].bag + 1 \in 0 .. Cap
       /\ -BuyoutPrice \in Int /\ 1 \in Int /\ gain \in Int /\ gain >= 0
  <2>1. w.record[c] \in Record
    BY <1>4
  <2>2. w.record[c].copper \in Int /\ w.record[c].bag \in 0 .. Cap
    BY <2>1, RecordFacts
  <2> QED
    BY <1>10, <2>2, ConstantFacts
<1> HIDE DEF gain
<1>12. /\ r1 \in [Char -> Record] /\ Solvent(r1) /\ o1 \in [Char -> Owed] /\ Balanced(r1, o1)
       /\ \A d \in Char : d # c => r1[d] = w.record[d]
       /\ \A d \in Char : r1[d].quest = w.record[d].quest
  BY <1>4, <1>5, <1>11, CreditKeeps
<1> HIDE DEF r1, o1
<1>13. r1[seller].copper + gain >= 0 /\ r1[seller].bag + 0 \in 0 .. Cap /\ 0 \in Int
  <2>1. r1[seller] \in Record /\ r1[seller].copper >= 0
    BY <1>6, <1>12 DEF Solvent
  <2>2. r1[seller].copper \in Int /\ r1[seller].bag \in 0 .. Cap
    BY <2>1, RecordFacts
  <2> QED
    BY <1>11, <2>1, <2>2
<1>14. /\ r2 \in [Char -> Record] /\ Solvent(r2) /\ o2 \in [Char -> Owed] /\ Balanced(r2, o2)
       /\ \A d \in Char : d # seller => r2[d] = r1[d]
       /\ \A d \in Char : r2[d].quest = r1[d].quest
  BY <1>6, <1>11, <1>12, <1>13, CreditKeeps
<1> HIDE DEF r2, o2
<1>15. rq[seller] = r2[seller] /\ \A d \in Char : d # seller => rq[d] = w.record[d]
  BY <1>4, <1>6
<1> HIDE DEF rq
<1>16. Refreshed(ss, rq)
  <2>1. \A u \in Token : Live(u) => CharOf(u) \in Char
    BY LiveCharacters
  <2> QED
    BY <1>4, <1>6, <1>14, <1>15, <2>1, SellerRefreshed
<1> HIDE DEF ss
<1>17. /\ Live(t) /\ sessionsByToken[t].connected /\ Free(CharOf(t))
       /\ \A d \in Char : d # CharOf(t) => r2[d] = rq[d]
       /\ \A d \in Char : d # CharOf(t) /\ r2[d] # record[d] => pending[d] = None
       /\ \A d \in Char : r2[d].quest = record[d].quest
       /\ \A k \in due \ R : k \in Listing /\ L[k].state = "active"
  <2>1. \A d \in Char : d # c => r2[d] = rq[d]
    BY <1>12, <1>14, <1>15
  <2>2. \A d \in Char : d # c /\ r2[d] # record[d] => pending[d] = None
    BY <1>5, <1>6, <1>12, <1>14
  <2>3. \A d \in Char : r2[d].quest = record[d].quest
    BY <1>5, <1>12, <1>14
  <2>4. \A k \in due \ R : k \in Listing /\ L[k].state = "active"
    BY <1>2, <1>5, <1>9
  <2> QED
    BY <1>2, <2>1, <2>2, <2>3, <2>4 DEF c
<1> QED
  BY <1>7, <1>8, <1>9, <1>14, <1>16, <1>17, DealKeeps

LEMMA LapseKeeps ==
  ASSUME Sound, NEW l \in Listing, Lapse(l)
  PROVE  Sound' /\ RewardsKept
<1>1. UNCHANGED <<record, listing, server, owed>> /\ due' = due \union {l} /\ Active(l)
  BY DEF Lapse
<1>2. Typed'
  BY <1>1 DEF Sound, Typed, TypeOK, Active, server
<1>3. Indexed' /\ CopiesCurrent' /\ ReadsCurrent' /\ BooksBalance' /\ ListingTyped(listing)'
  BY <1>1 DEF Sound, Indexed, CopiesCurrent, ReadsCurrent, BooksBalance, ListingTyped, server,
              Live, CharOf, Has
<1> QED
  BY <1>1, <1>2, <1>3 DEF Sound, RewardsKept

LEMMA KillKeeps ==
  ASSUME Sound, NEW t \in Token, KillMob(t)
  PROVE  Sound' /\ RewardsKept
<1>1. /\ UNCHANGED <<store, sessionsByToken, sessionTokenByChar, pending, owed>>
      /\ lootContainers' = [lootContainers EXCEPT ![CharOf(t)] = "open"]
  BY DEF KillMob
<1>2. Typed'
  BY <1>1 DEF Sound, Typed, TypeOK, Active, store
<1>3. Indexed' /\ CopiesCurrent' /\ ReadsCurrent' /\ BooksBalance' /\ ListingTyped(listing)'
  BY <1>1 DEF Sound, Indexed, CopiesCurrent, ReadsCurrent, BooksBalance, ListingTyped, store,
              Live, CharOf, Has
<1> QED
  BY <1>1, <1>2, <1>3 DEF Sound, RewardsKept, store

-----------------------------------------------------------------------------
(* Sessions *)

\* Nothing but the sessions, their index and what is pending changes.
LEMMA SessionsKeep ==
  ASSUME Sound, UNCHANGED <<store, owed>>,
         sessionsByToken' \in [Token -> Session \union {None}],
         sessionTokenByChar' \in [Char -> Token \union {None}],
         lootContainers' \in [Char -> {"none", "open", "claimed"}],
         pending' \in [Char -> Pending \union {None}],
         Indexed', CopiesCurrent', ReadsCurrent'
  PROVE  Sound' /\ RewardsKept
<1>1. Typed'
  BY DEF Sound, Typed, TypeOK, Active, store
<1>2. BooksBalance' /\ ListingTyped(listing)'
  BY DEF Sound, BooksBalance, ListingTyped, store
<1> QED
  BY <1>1, <1>2 DEF Sound, RewardsKept, store

Reconnected(S, t, h) == [S EXCEPT ![t].connected = TRUE, ![t].has = h]

LEMMA ReconnectedFacts ==
  ASSUME NEW S \in [Token -> Session \union {None}], NEW t \in Token, S[t] \in Session, NEW h \in Record
  PROVE  /\ Reconnected(S, t, h) \in [Token -> Session \union {None}]
         /\ Reconnected(S, t, h)[t] # None /\ Reconnected(S, t, h)[t].char = S[t].char
         /\ Reconnected(S, t, h)[t].has = h
         /\ \A u \in Token : u # t => Reconnected(S, t, h)[u] = S[u]
<1> DEFINE new == Reconnected(S, t, h)
<1>1. S[t] = [char |-> S[t].char, connected |-> S[t].connected, has |-> S[t].has] /\ S[t].char \in Char
  BY SessionFacts
<1>2. new = [u \in Token |-> new[u]] /\ \A u \in Token : u # t => new[u] = S[u]
  BY DEF Reconnected
<1>3. new[t].char = S[t].char
  BY <1>1 DEF Reconnected
<1>4. new[t].connected = TRUE
  BY <1>1 DEF Reconnected
<1>5. new[t].has = h
  BY <1>1 DEF Reconnected
<1>6. new[t] = [f \in {"char", "connected", "has"} |-> new[t][f]]
  BY <1>1 DEF Reconnected
<1> HIDE DEF new
<1>7. new[t] = [char |-> S[t].char, connected |-> TRUE, has |-> h]
  BY <1>3, <1>4, <1>5, <1>6
<1>8. new[t] \in Session
  BY <1>1, <1>7 DEF Session
<1>9. new \in [Token -> Session \union {None}]
  BY <1>2, <1>8
<1>10. new[t] # None
  BY <1>8, NoneAssumption
<1> QED
  BY <1>2, <1>3, <1>5, <1>9, <1>10 DEF new

\* Session t becomes a connected one of character c that has what the store has.
LEMMA ConnectedKeeps ==
  ASSUME Sound, UNCHANGED <<store, owed>>, NEW c \in Char, NEW t \in Token,
         sessionsByToken' \in [Token -> Session \union {None}],
         sessionsByToken'[t] # None, sessionsByToken'[t].char = c,
         sessionsByToken'[t].has = record[c],
         \A u \in Token : u # t => sessionsByToken'[u] = sessionsByToken[u],
         Live(t) => CharOf(t) = c,
         ~Live(t) => \A u \in Token : Live(u) => CharOf(u) # c,
         sessionTokenByChar' = [sessionTokenByChar EXCEPT ![c] = t],
         lootContainers' = lootContainers,
         pending' = pending \/ (pending' = [pending EXCEPT ![c] = None])
  PROVE  Sound' /\ RewardsKept
<1>1. /\ sessionTokenByChar \in [Char -> Token \union {None}]
      /\ pending \in [Char -> Pending \union {None}]
      /\ lootContainers \in [Char -> {"none", "open", "claimed"}]
  BY DEF Sound, Typed, TypeOK
<1>2. /\ sessionTokenByChar' \in [Char -> Token \union {None}]
      /\ sessionTokenByChar'[c] = t
      /\ \A d \in Char : d # c => sessionTokenByChar'[d] = sessionTokenByChar[d]
  BY <1>1
<1>3. pending' \in [Char -> Pending \union {None}] /\ \A d \in Char : d # c => pending'[d] = pending[d]
  BY <1>1
<1>4. Live(t)' /\ CharOf(t)' = c /\ Has(t)' = record[c]
  BY DEF Live, CharOf, Has
<1>5. \A u \in Token : u # t => /\ Live(u)' <=> Live(u)
                                /\ CharOf(u)' = CharOf(u) /\ Has(u)' = Has(u)
                                /\ sessionsByToken'[u].connected = sessionsByToken[u].connected
  BY DEF Live, CharOf, Has
<1>6. \A u \in Token : u # t /\ Live(u) => CharOf(u) # c /\ CharOf(u) \in Char
  BY LiveCharacters DEF Sound, Indexed
<1>7. Indexed'
  <2>1. ASSUME NEW u \in Token, Live(u)'
        PROVE  sessionTokenByChar'[CharOf(u)'] = u
    <3>1. CASE u = t
      BY <1>2, <1>4, <3>1
    <3>2. CASE u # t
      BY <1>2, <1>5, <1>6, <2>1, <3>2 DEF Sound, Indexed
    <3> QED
      BY <3>1, <3>2
  <2>2. ASSUME NEW d \in Char, NEW u \in Token, sessionTokenByChar'[d] = u
        PROVE  Live(u)' /\ CharOf(u)' = d
    <3>1. CASE d = c
      BY <1>2, <1>4, <2>2, <3>1
    <3>2. CASE d # c
      <4>1. sessionTokenByChar[d] = u
        BY <1>2, <2>2, <3>2
      <4>2. Live(u) /\ CharOf(u) = d
        BY <4>1 DEF Sound, Indexed
      <4>3. u # t
        BY <3>2, <4>2
      <4> QED
        BY <1>5, <4>2, <4>3
    <3> QED
      BY <3>1, <3>2
  <2> QED
    BY <2>1, <2>2 DEF Indexed
<1>8. CopiesCurrent'
  <2> SUFFICES ASSUME NEW u \in Token, Live(u)', sessionsByToken'[u].connected,
                      pending'[CharOf(u)'] = None \/ pending'[CharOf(u)'].kind = "connect"
               PROVE  Has(u)' = record'[CharOf(u)']
    BY DEF CopiesCurrent
  <2>1. CASE u = t
    BY <1>4, <2>1 DEF store
  <2>2. CASE u # t
    <3>1. /\ Live(u) /\ CharOf(u)' = CharOf(u) /\ CharOf(u) # c /\ CharOf(u) \in Char
          /\ Has(u)' = Has(u) /\ sessionsByToken[u].connected
      BY <1>5, <1>6, <2>2
    <3>2. pending'[CharOf(u)] = pending[CharOf(u)]
      BY <1>3, <3>1
    <3> QED
      BY <3>1, <3>2 DEF Sound, CopiesCurrent, store
  <2> QED
    BY <2>1, <2>2
<1>9. ReadsCurrent'
  BY <1>1 DEF Sound, ReadsCurrent, store
<1>10. lootContainers' \in [Char -> {"none", "open", "claimed"}]
  BY <1>1
<1> QED
  BY <1>2, <1>3, <1>7, <1>8, <1>9, <1>10, SessionsKeep

LEMMA ResumeKeeps ==
  ASSUME Sound, NEW c \in Char, ConnectResume(c)
  PROVE  Sound' /\ RewardsKept
<1>1. PICK t \in LiveTokens(c) :
         sessionsByToken' = [sessionsByToken EXCEPT ![t].connected = TRUE, ![t].has = pending[c].has]
  BY DEF ConnectResume
<1>2. /\ pending[c] # None /\ pending' = [pending EXCEPT ![c] = None]
      /\ UNCHANGED <<store, sessionTokenByChar, lootContainers, owed>>
  BY DEF ConnectResume
<1>3. t \in Token /\ Live(t) /\ CharOf(t) = c /\ sessionTokenByChar[c] = t
  BY DEF LiveTokens, Sound, Indexed
<1>4. /\ sessionsByToken \in [Token -> Session \union {None}] /\ sessionsByToken[t] \in Session
      /\ sessionTokenByChar \in [Char -> Token \union {None}]
  BY <1>3 DEF Sound, Typed, TypeOK, Live
<1>5. pending[c].has = record[c] /\ record[c] \in Record
  BY <1>2 DEF Sound, ReadsCurrent, Typed, TypeOK
<1>6. /\ sessionsByToken' \in [Token -> Session \union {None}]
      /\ sessionsByToken'[t] # None /\ sessionsByToken'[t].char = c
      /\ sessionsByToken'[t].has = record[c]
      /\ \A u \in Token : u # t => sessionsByToken'[u] = sessionsByToken[u]
  <2>1. sessionsByToken' = Reconnected(sessionsByToken, t, record[c])
    BY <1>1, <1>5 DEF Reconnected
  <2> QED
    BY <1>3, <1>4, <1>5, <2>1, ReconnectedFacts DEF CharOf
<1>7. sessionTokenByChar' = [sessionTokenByChar EXCEPT ![c] = t]
  BY <1>2, <1>3, <1>4
<1> QED
  BY <1>2, <1>3, <1>6, <1>7, ConnectedKeeps

LEMMA CreateKeeps ==
  ASSUME Sound, NEW c \in Char, NEW t \in Token, ConnectCreate(c, t)
  PROVE  Sound' /\ RewardsKept
<1>1. /\ pending[c] # None /\ LiveTokens(c) = {} /\ ~Live(t)
      /\ sessionsByToken' = [sessionsByToken EXCEPT
           ![t] = [char |-> c, connected |-> TRUE, has |-> pending[c].has]]
      /\ sessionTokenByChar' = [sessionTokenByChar EXCEPT ![c] = t]
      /\ pending' = [pending EXCEPT ![c] = None]
      /\ UNCHANGED <<store, lootContainers, owed>>
  BY DEF ConnectCreate
<1>2. sessionsByToken \in [Token -> Session \union {None}]
  BY DEF Sound, Typed, TypeOK
<1>3. pending[c].has = record[c] /\ record[c] \in Record
  BY <1>1 DEF Sound, ReadsCurrent, Typed, TypeOK
<1>4. [char |-> c, connected |-> TRUE, has |-> record[c]] \in Session
  BY <1>3 DEF Session
<1>5. sessionsByToken'[t] = [char |-> c, connected |-> TRUE, has |-> record[c]]
      /\ \A u \in Token : u # t => sessionsByToken'[u] = sessionsByToken[u]
  BY <1>1, <1>2, <1>3
<1>6. /\ sessionsByToken' \in [Token -> Session \union {None}]
      /\ sessionsByToken'[t] # None /\ sessionsByToken'[t].char = c
      /\ sessionsByToken'[t].has = record[c]
  BY <1>1, <1>2, <1>3, <1>4, <1>5, NoneAssumption
<1>7. \A u \in Token : Live(u) => CharOf(u) # c
  BY <1>1 DEF Sound, Indexed, LiveTokens
<1> QED
  BY <1>1, <1>5, <1>6, <1>7, ConnectedKeeps

LEMMA ReconnectKeeps ==
  ASSUME Sound, NEW t \in Token, Reconnect(t)
  PROVE  Sound' /\ RewardsKept
<1> DEFINE c == CharOf(t)
<1>1. /\ Live(t)
      /\ sessionsByToken' = [sessionsByToken EXCEPT ![t].connected = TRUE, ![t].has = record[c]]
      /\ UNCHANGED <<store, sessionTokenByChar, lootContainers, pending, owed>>
  BY DEF Reconnect
<1>2. /\ sessionsByToken \in [Token -> Session \union {None}] /\ sessionsByToken[t] \in Session
      /\ sessionTokenByChar \in [Char -> Token \union {None}]
  BY <1>1 DEF Sound, Typed, TypeOK, Live
<1>3. c \in Char /\ sessionTokenByChar[c] = t /\ record[c] \in Record
  BY <1>1, <1>2, SessionFacts DEF Sound, Typed, TypeOK, Indexed, CharOf
<1>4. /\ sessionsByToken' \in [Token -> Session \union {None}]
      /\ sessionsByToken'[t] # None /\ sessionsByToken'[t].char = c
      /\ sessionsByToken'[t].has = record[c]
      /\ \A u \in Token : u # t => sessionsByToken'[u] = sessionsByToken[u]
  <2>1. sessionsByToken' = Reconnected(sessionsByToken, t, record[c])
    BY <1>1 DEF Reconnected
  <2>2. sessionsByToken[t].char = c
    BY DEF CharOf
  <2> HIDE DEF c
  <2> QED
    BY <1>2, <1>3, <2>1, <2>2, ReconnectedFacts
<1>5. sessionTokenByChar' = [sessionTokenByChar EXCEPT ![c] = t]
  BY <1>1, <1>2, <1>3
<1> QED
  BY <1>1, <1>3, <1>4, <1>5, ConnectedKeeps

LEMMA ReadKeeps ==
  ASSUME Sound, NEW c \in Char, ConnectRead(c)
  PROVE  Sound' /\ RewardsKept
<1>1. /\ pending[c] = None
      /\ pending' = [pending EXCEPT ![c] = [kind |-> "connect", has |-> record[c]]]
      /\ UNCHANGED <<store, sessionsByToken, sessionTokenByChar, lootContainers, owed>>
  BY DEF ConnectRead, Begins
<1>2. /\ record[c] \in Record /\ pending \in [Char -> Pending \union {None}]
      /\ sessionsByToken' \in [Token -> Session \union {None}]
      /\ sessionTokenByChar' \in [Char -> Token \union {None}]
      /\ lootContainers' \in [Char -> {"none", "open", "claimed"}]
  BY <1>1 DEF Sound, Typed, TypeOK
<1>3. [kind |-> "connect", has |-> record[c]] \in Pending
  BY <1>2 DEF Pending
<1>4. pending' \in [Char -> Pending \union {None}]
  BY <1>1, <1>2, <1>3
<1>5. Indexed'
  BY <1>1 DEF Sound, Indexed, Live, CharOf
<1>6. CopiesCurrent'
  <2> SUFFICES ASSUME NEW u \in Token, Live(u), sessionsByToken[u].connected,
                      pending'[CharOf(u)] = None \/ pending'[CharOf(u)].kind = "connect"
               PROVE  Has(u) = record[CharOf(u)]
    BY <1>1 DEF CopiesCurrent, Live, CharOf, Has, store
  <2>1. CharOf(u) \in Char
    BY LiveCharacters
  <2>2. pending[CharOf(u)] = None \/ pending[CharOf(u)].kind = "connect"
    BY <1>1, <1>2, <2>1
  <2> QED
    BY <2>2 DEF Sound, CopiesCurrent
<1>7. ReadsCurrent'
  <2> SUFFICES ASSUME NEW d \in Char, pending'[d] # None
               PROVE  pending'[d].has = record[d]
    BY <1>1 DEF ReadsCurrent, store
  <2>1. CASE d = c
    BY <1>1, <1>2, <2>1
  <2>2. CASE d # c
    BY <1>1, <1>2, <2>2 DEF Sound, ReadsCurrent
  <2> QED
    BY <2>1, <2>2
<1> QED
  BY <1>1, <1>2, <1>4, <1>5, <1>6, <1>7, SessionsKeep

LEMMA RefusedKeeps ==
  ASSUME Sound, NEW c \in Char, ConnectRefused(c)
  PROVE  Sound' /\ RewardsKept
<1>1. /\ pending[c] # None /\ pending[c].kind = "connect"
      /\ pending' = [pending EXCEPT ![c] = None]
      /\ UNCHANGED <<store, sessionsByToken, sessionTokenByChar, lootContainers, owed>>
  BY DEF ConnectRefused
<1>2. /\ pending' \in [Char -> Pending \union {None}] /\ pending \in [Char -> Pending \union {None}]
      /\ sessionsByToken' \in [Token -> Session \union {None}]
      /\ sessionTokenByChar' \in [Char -> Token \union {None}]
      /\ lootContainers' \in [Char -> {"none", "open", "claimed"}]
  BY <1>1 DEF Sound, Typed, TypeOK
<1>3. Indexed'
  BY <1>1 DEF Sound, Indexed, Live, CharOf
<1>4. CopiesCurrent'
  <2> SUFFICES ASSUME NEW u \in Token, Live(u), sessionsByToken[u].connected,
                      pending'[CharOf(u)] = None \/ pending'[CharOf(u)].kind = "connect"
               PROVE  Has(u) = record[CharOf(u)]
    BY <1>1 DEF CopiesCurrent, Live, CharOf, Has, store
  <2>1. CharOf(u) \in Char
    BY LiveCharacters
  <2>2. pending[CharOf(u)] = None \/ pending[CharOf(u)].kind = "connect"
    BY <1>1, <1>2, <2>1
  <2> QED
    BY <2>2 DEF Sound, CopiesCurrent
<1>5. ReadsCurrent'
  BY <1>1, <1>2 DEF Sound, ReadsCurrent, store
<1> QED
  BY <1>1, <1>2, <1>3, <1>4, <1>5, SessionsKeep

LEMMA DisconnectKeeps ==
  ASSUME Sound, NEW t \in Token, Disconnect(t)
  PROVE  Sound' /\ RewardsKept
<1>1. /\ Live(t)
      /\ sessionsByToken' = [sessionsByToken EXCEPT ![t].connected = FALSE]
      /\ UNCHANGED <<store, sessionTokenByChar, lootContainers, pending, owed>>
  BY DEF Disconnect
<1>2. /\ sessionsByToken \in [Token -> Session \union {None}] /\ sessionsByToken[t] \in Session
      /\ sessionTokenByChar' \in [Char -> Token \union {None}]
      /\ pending' \in [Char -> Pending \union {None}]
      /\ lootContainers' \in [Char -> {"none", "open", "claimed"}]
  BY <1>1 DEF Sound, Typed, TypeOK, Live
<1>3. sessionsByToken'[t] = [char |-> CharOf(t), connected |-> FALSE, has |-> Has(t)]
  <2>1. sessionsByToken'[t] = [sessionsByToken[t] EXCEPT !.connected = FALSE]
    BY <1>1, <1>2
  <2> DEFINE s == sessionsByToken[t]
             n == [s EXCEPT !.connected = FALSE]
  <2>2. s = [char |-> s.char, connected |-> s.connected, has |-> s.has]
    BY <1>2, SessionFacts
  <2> HIDE DEF s
  <2>3. n.char = s.char
    BY <2>2
  <2>4. n.connected = FALSE
    BY <2>2
  <2>5. n.has = s.has
    BY <2>2
  <2>6. n = [f \in {"char", "connected", "has"} |-> n[f]]
    BY <2>2
  <2>7. sessionsByToken'[t] = n
    BY <2>1 DEF s
  <2> HIDE DEF n
  <2>8. n = [char |-> s.char, connected |-> FALSE, has |-> s.has]
    BY <2>3, <2>4, <2>5, <2>6
  <2> QED
    BY <2>7, <2>8 DEF CharOf, Has, s
<1>4. sessionsByToken'[t] \in Session
  <2>1. CharOf(t) \in Char /\ Has(t) \in Record
    BY <1>2, SessionFacts DEF CharOf, Has
  <2> QED
    BY <1>3, <2>1 DEF Session
<1>5. /\ sessionsByToken' \in [Token -> Session \union {None}]
      /\ \A u \in Token : u # t => sessionsByToken'[u] = sessionsByToken[u]
  BY <1>1, <1>2, <1>4
<1>6. \A u \in Token : /\ Live(u)' <=> Live(u)
                       /\ Live(u) => CharOf(u)' = CharOf(u) /\ Has(u)' = Has(u)
  <2>1. Live(t)' /\ CharOf(t)' = CharOf(t) /\ Has(t)' = Has(t)
    <3>1. sessionsByToken'[t].char = CharOf(t) /\ sessionsByToken'[t].has = Has(t)
      BY <1>3
    <3>2. sessionsByToken'[t] # None
      BY <1>4, NoneAssumption
    <3> QED
      BY <3>1, <3>2 DEF Live, CharOf, Has
  <2> QED
    BY <1>1, <1>5, <2>1 DEF Live, CharOf, Has
<1>7. Indexed'
  BY <1>1, <1>6 DEF Sound, Indexed
<1>8. CopiesCurrent'
  <2> SUFFICES ASSUME NEW u \in Token, Live(u)', sessionsByToken'[u].connected,
                      pending[CharOf(u)'] = None \/ pending[CharOf(u)'].kind = "connect"
               PROVE  Has(u)' = record[CharOf(u)']
    BY <1>1 DEF CopiesCurrent, store
  <2>1. u # t
    BY <1>3
  <2> QED
    BY <1>5, <1>6, <2>1 DEF Sound, CopiesCurrent
<1>9. ReadsCurrent'
  BY <1>1 DEF Sound, ReadsCurrent, store
<1> QED
  BY <1>1, <1>2, <1>5, <1>7, <1>8, <1>9, SessionsKeep

LEMMA DropKeeps ==
  ASSUME Sound, NEW t \in Token, DropSession(t)
  PROVE  Sound' /\ RewardsKept
<1>1. /\ Live(t)
      /\ sessionsByToken' = [sessionsByToken EXCEPT ![t] = None]
      /\ sessionTokenByChar' = [sessionTokenByChar EXCEPT ![CharOf(t)] = IF @ = t THEN None ELSE @]
      /\ UNCHANGED <<store, lootContainers, pending, owed>>
  BY DEF DropSession
<1>2. /\ sessionsByToken \in [Token -> Session \union {None}]
      /\ sessionTokenByChar \in [Char -> Token \union {None}]
      /\ pending' \in [Char -> Pending \union {None}]
      /\ lootContainers' \in [Char -> {"none", "open", "claimed"}]
  BY <1>1 DEF Sound, Typed, TypeOK
<1>3. CharOf(t) \in Char /\ sessionTokenByChar[CharOf(t)] = t
  BY <1>1, LiveCharacters DEF Sound, Indexed
<1>4. /\ sessionsByToken' \in [Token -> Session \union {None}]
      /\ sessionsByToken'[t] = None
      /\ \A u \in Token : u # t => sessionsByToken'[u] = sessionsByToken[u]
  BY <1>1, <1>2
<1>5. /\ sessionTokenByChar' \in [Char -> Token \union {None}]
      /\ sessionTokenByChar'[CharOf(t)] = None
      /\ \A d \in Char : d # CharOf(t) => sessionTokenByChar'[d] = sessionTokenByChar[d]
  BY <1>1, <1>2, <1>3
<1>6. /\ ~Live(t)'
      /\ \A u \in Token : u # t => (Live(u)' <=> Live(u)) /\ CharOf(u)' = CharOf(u) /\ Has(u)' = Has(u)
  BY <1>4 DEF Live, CharOf, Has
<1>7. Indexed'
  <2>1. ASSUME NEW u \in Token, Live(u)'
        PROVE  sessionTokenByChar'[CharOf(u)'] = u
    <3>1. u # t /\ Live(u) /\ CharOf(u)' = CharOf(u)
      BY <1>6, <2>1
    <3>2. CharOf(u) \in Char /\ sessionTokenByChar[CharOf(u)] = u
      BY <3>1, LiveCharacters DEF Sound, Indexed
    <3>3. CharOf(u) # CharOf(t)
      BY <1>3, <3>1, <3>2
    <3> QED
      BY <1>5, <3>1, <3>2, <3>3
  <2>2. ASSUME NEW d \in Char, NEW u \in Token, sessionTokenByChar'[d] = u
        PROVE  Live(u)' /\ CharOf(u)' = d
    <3>1. d # CharOf(t)
      BY <1>5, <2>2, EconomyAssumption
    <3>2. Live(u) /\ CharOf(u) = d
      BY <1>5, <2>2, <3>1 DEF Sound, Indexed
    <3> QED
      BY <1>6, <3>1, <3>2
  <2> QED
    BY <2>1, <2>2 DEF Indexed
<1>8. CopiesCurrent'
  <2> SUFFICES ASSUME NEW u \in Token, Live(u)', sessionsByToken'[u].connected,
                      pending[CharOf(u)'] = None \/ pending[CharOf(u)'].kind = "connect"
               PROVE  Has(u)' = record[CharOf(u)']
    BY <1>1 DEF CopiesCurrent, store
  <2> QED
    BY <1>4, <1>6 DEF Sound, CopiesCurrent
<1>9. ReadsCurrent'
  BY <1>1 DEF Sound, ReadsCurrent, store
<1> QED
  BY <1>1, <1>2, <1>4, <1>5, <1>7, <1>8, <1>9, SessionsKeep

LEMMA AdminStoreKeeps ==
  ASSUME Sound, NEW c \in Char, AdminStore(c)
  PROVE  Sound' /\ RewardsKept
<1>1. /\ pending[c] = None
      /\ record' = Credit(record, c, AdminGrant, 0)
      /\ owed' = Credit(owed, c, AdminGrant, 0)
      /\ pending' = [pending EXCEPT ![c] = [kind |-> "admin", has |-> record'[c]]]
      /\ UNCHANGED <<listing, due, sessionsByToken, sessionTokenByChar, lootContainers>>
  BY DEF AdminStore, Begins
<1>2. /\ record \in [Char -> Record] /\ owed \in [Char -> Owed] /\ pending \in [Char -> Pending \union {None}]
      /\ Solvent(record) /\ Balanced(record, owed)
  BY DEF Sound, Typed, TypeOK, Solvent, Balanced, BooksBalance
<1>3. record[c].copper + AdminGrant >= 0 /\ record[c].bag + 0 \in 0 .. Cap
      /\ AdminGrant \in Int /\ 0 \in Int
  <2>1. record[c] \in Record /\ record[c].copper >= 0
    BY <1>2 DEF Solvent
  <2>2. record[c].copper \in Int /\ record[c].bag \in 0 .. Cap
    BY <2>1, RecordFacts
  <2> QED
    BY <2>1, <2>2, ConstantFacts
<1>4. /\ record' \in [Char -> Record] /\ Solvent(record')
      /\ owed' \in [Char -> Owed] /\ Balanced(record', owed')
      /\ \A d \in Char : d # c => record'[d] = record[d]
      /\ \A d \in Char : record'[d].quest = record[d].quest
  BY <1>1, <1>2, <1>3, CreditKeeps
<1>5. [kind |-> "admin", has |-> record'[c]] \in Pending
  BY <1>4 DEF Pending
<1>6. /\ pending' \in [Char -> Pending \union {None}]
      /\ pending'[c] = [kind |-> "admin", has |-> record'[c]] /\ pending'[c] # None
      /\ \A d \in Char : d # c => pending'[d] = pending[d]
  BY <1>1, <1>2, <1>5, NoneAssumption
<1>7. Typed' /\ ListingTyped(listing)'
  BY <1>1, <1>4, <1>6 DEF Sound, Typed, TypeOK, Active, Solvent, ListingTyped
<1>8. Indexed'
  BY <1>1 DEF Sound, Indexed, Live, CharOf
<1>9. CopiesCurrent'
  <2> SUFFICES ASSUME NEW u \in Token, Live(u), sessionsByToken[u].connected,
                      pending'[CharOf(u)] = None \/ pending'[CharOf(u)].kind = "connect"
               PROVE  Has(u) = record'[CharOf(u)]
    BY <1>1 DEF CopiesCurrent, Live, CharOf, Has
  <2>1. CharOf(u) \in Char /\ CharOf(u) # c
    BY <1>6, LiveCharacters
  <2> QED
    BY <1>4, <1>6, <2>1 DEF Sound, CopiesCurrent
<1>10. ReadsCurrent'
  BY <1>4, <1>6 DEF Sound, ReadsCurrent
<1>11. BooksBalance' /\ RewardsKept
  BY <1>4 DEF BooksBalance, Balanced, RewardsKept
<1> QED
  BY <1>7, <1>8, <1>9, <1>10, <1>11 DEF Sound

LEMMA AdminApplyKeeps ==
  ASSUME Sound, NEW c \in Char, AdminApply(c)
  PROVE  Sound' /\ RewardsKept
<1>1. /\ pending[c] # None
      /\ sessionsByToken' = [t \in Token |-> IF t \in LiveTokens(c)
                                               THEN [sessionsByToken[t] EXCEPT !.has = pending[c].has]
                                               ELSE sessionsByToken[t]]
      /\ pending' = [pending EXCEPT ![c] = None]
      /\ UNCHANGED <<store, sessionTokenByChar, lootContainers, owed>>
  BY DEF AdminApply
<1>2. /\ sessionsByToken \in [Token -> Session \union {None}]
      /\ sessionTokenByChar' \in [Char -> Token \union {None}]
      /\ pending \in [Char -> Pending \union {None}]
      /\ lootContainers' \in [Char -> {"none", "open", "claimed"}]
  BY <1>1 DEF Sound, Typed, TypeOK
<1>3. pending[c].has = record[c] /\ record[c] \in Record
  BY <1>1 DEF Sound, ReadsCurrent, Typed, TypeOK
<1>4. \A t \in Token : t \in LiveTokens(c) <=> Live(t) /\ CharOf(t) = c
  BY DEF Sound, Indexed, LiveTokens
<1>5. ASSUME NEW t \in Token, Live(t), CharOf(t) = c
      PROVE  /\ sessionsByToken'[t].char = c /\ sessionsByToken'[t].has = record[c]
             /\ sessionsByToken'[t].connected = sessionsByToken[t].connected
             /\ sessionsByToken'[t] \in Session
  <2>1. sessionsByToken[t] \in Session
    BY <1>2, <1>5 DEF Live
  <2>2. sessionsByToken'[t] = [sessionsByToken[t] EXCEPT !.has = record[c]]
    BY <1>1, <1>3, <1>4, <1>5
  <2>3. sessionsByToken'[t] = [char |-> c, connected |-> sessionsByToken[t].connected,
                               has |-> record[c]]
    BY <1>5, <2>1, <2>2, NewCopy DEF CharOf
  <2>4. sessionsByToken[t].connected \in BOOLEAN
    BY <2>1, SessionFacts
  <2>5. sessionsByToken'[t].char = c /\ sessionsByToken'[t].has = record[c]
    BY <2>3
  <2>6. sessionsByToken'[t].connected = sessionsByToken[t].connected
    BY <2>3
  <2>7. sessionsByToken'[t] \in Session
    BY <1>3, <2>3, <2>4 DEF Session
  <2> QED
    BY <2>5, <2>6, <2>7
<1>6. ASSUME NEW t \in Token, ~(Live(t) /\ CharOf(t) = c)
      PROVE  sessionsByToken'[t] = sessionsByToken[t]
  BY <1>1, <1>4, <1>6
<1>7. sessionsByToken' \in [Token -> Session \union {None}]
  <2>1. \A t \in Token : sessionsByToken'[t] \in Session \union {None}
    BY <1>2, <1>5, <1>6
  <2>2. sessionsByToken' = [t \in Token |-> sessionsByToken'[t]]
    BY <1>1
  <2> QED
    BY <2>1, <2>2
<1>8. ASSUME NEW t \in Token
      PROVE  /\ Live(t)' <=> Live(t)
             /\ Live(t) => CharOf(t)' = CharOf(t)
             /\ Live(t) => sessionsByToken'[t].connected = sessionsByToken[t].connected
             /\ Live(t) => Has(t)' = IF CharOf(t) = c THEN record[c] ELSE Has(t)
  <2>1. CASE Live(t) /\ CharOf(t) = c
    <3>1. sessionsByToken'[t].char = c /\ sessionsByToken'[t].has = record[c]
      BY <1>5, <2>1
    <3>2. sessionsByToken'[t].connected = sessionsByToken[t].connected
      BY <1>5, <2>1
    <3>3. sessionsByToken'[t] # None
      BY <1>5, <2>1, NoneAssumption
    <3> QED
      BY <2>1, <3>1, <3>2, <3>3 DEF Live, CharOf, Has
  <2>2. CASE ~(Live(t) /\ CharOf(t) = c)
    BY <1>6, <2>2 DEF Live, CharOf, Has
  <2> QED
    BY <2>1, <2>2
<1>9. pending' \in [Char -> Pending \union {None}] /\ \A d \in Char : d # c => pending'[d] = pending[d]
  BY <1>1, <1>2
<1>10. Indexed'
  BY <1>1, <1>8 DEF Sound, Indexed
<1>11. CopiesCurrent'
  <2> SUFFICES ASSUME NEW u \in Token, Live(u)', sessionsByToken'[u].connected,
                      pending'[CharOf(u)'] = None \/ pending'[CharOf(u)'].kind = "connect"
               PROVE  Has(u)' = record[CharOf(u)']
    BY <1>1 DEF CopiesCurrent, store
  <2>1. Live(u) /\ CharOf(u)' = CharOf(u) /\ CharOf(u) \in Char /\ sessionsByToken[u].connected
    BY <1>8, LiveCharacters
  <2>2. CASE CharOf(u) = c
    BY <1>8, <2>1, <2>2
  <2>3. CASE CharOf(u) # c
    <3>1. Has(u)' = Has(u) /\ pending'[CharOf(u)] = pending[CharOf(u)]
      BY <1>8, <1>9, <2>1, <2>3
    <3> QED
      BY <2>1, <3>1 DEF Sound, CopiesCurrent
  <2> QED
    BY <2>2, <2>3
<1>12. ReadsCurrent'
  BY <1>1, <1>2 DEF Sound, ReadsCurrent, store
<1> QED
  BY <1>1, <1>2, <1>7, <1>9, <1>10, <1>11, <1>12, SessionsKeep

LEMMA RestartKeeps ==
  ASSUME Sound, Restart
  PROVE  Sound' /\ RewardsKept
<1>1. /\ sessionsByToken' = [t \in Token |-> None] /\ sessionTokenByChar' = [c \in Char |-> None]
      /\ lootContainers' = [c \in Char |-> "none"] /\ pending' = [c \in Char |-> None]
      /\ UNCHANGED <<store, owed>>
  BY DEF Restart
<1>2. Indexed'
  BY <1>1, EconomyAssumption DEF Indexed, Live
<1>3. CopiesCurrent' /\ ReadsCurrent'
  BY <1>1 DEF CopiesCurrent, ReadsCurrent, Live
<1> QED
  BY <1>1, <1>2, <1>3, SessionsKeep

-----------------------------------------------------------------------------
(* The theorems *)

LEMMA InitSound == Init => Sound
<1> SUFFICES ASSUME Init
             PROVE  Sound
  OBVIOUS
<1> USE DEF Init
<1>1. [copper |-> StartCopper, bag |-> 1, quest |-> "active"] \in Record /\ StartCopper >= 0
  BY ConstantFacts DEF Record
<1>2. owed \in [Char -> Owed]
  BY ConstantFacts DEF Owed
<1>3. Typed
  BY <1>1, <1>2 DEF Typed, TypeOK, Unlisted, ListingStates
<1>4. ListingTyped(listing)
  BY DEF ListingTyped, Unlisted, ListingStates
<1>5. Indexed
  BY EconomyAssumption DEF Indexed, Live
<1>6. CopiesCurrent /\ ReadsCurrent
  BY DEF CopiesCurrent, ReadsCurrent, Live
<1>7. BooksBalance
  BY DEF BooksBalance
<1> QED
  BY <1>3, <1>4, <1>5, <1>6, <1>7 DEF Sound

LEMMA NextKeeps ==
  ASSUME Sound, Races = {}, Next
  PROVE  Sound' /\ RewardsKept
<1>1. ASSUME NEW t \in Token,
             \/ HandleVendorBuy(t) \/ HandleVendorSell(t) \/ GrantQuestReward(t)
             \/ KillMob(t) \/ HandleLootClaim(t)
      PROVE  Sound' /\ RewardsKept
  BY <1>1, VendorBuyKeeps, VendorSellKeeps, QuestKeeps, KillKeeps, ClaimKeeps
<1>2. ASSUME NEW t \in Token,
             \/ HandleAuctionBrowse(t) \/ HandleAuctionList(t)
             \/ HandleAuctionBuyout(t) \/ HandleAuctionCancel(t)
      PROVE  Sound' /\ RewardsKept
  BY <1>2, BrowseKeeps, ListKeeps, BuyoutKeeps, CancelKeeps
<1>3. ASSUME NEW t \in Token, Reconnect(t) \/ Disconnect(t) \/ DropSession(t)
      PROVE  Sound' /\ RewardsKept
  BY <1>3, ReconnectKeeps, DisconnectKeeps, DropKeeps
<1>4. ASSUME NEW l \in Listing, Lapse(l)
      PROVE  Sound' /\ RewardsKept
  BY <1>4, LapseKeeps
<1>5. ASSUME NEW c \in Char,
             \/ ConnectRead(c) \/ ConnectResume(c) \/ ConnectRefused(c)
             \/ \E t \in Token : ConnectCreate(c, t)
      PROVE  Sound' /\ RewardsKept
  BY <1>5, ReadKeeps, ResumeKeeps, RefusedKeeps, CreateKeeps
<1>6. ASSUME NEW c \in Char, AdminStore(c) \/ AdminApply(c)
      PROVE  Sound' /\ RewardsKept
  BY <1>6, AdminStoreKeeps, AdminApplyKeeps
<1>7. ASSUME Restart
      PROVE  Sound' /\ RewardsKept
  BY <1>7, RestartKeeps
<1> QED
  BY <1>1, <1>2, <1>3, <1>4, <1>5, <1>6, <1>7 DEF Next

LEMMA StutterKeeps ==
  ASSUME Sound, UNCHANGED vars
  PROVE  Sound' /\ RewardsKept
<1>1. UNCHANGED <<store, owed>> /\ UNCHANGED server
  BY DEF vars, store, server
<1>2. Indexed' /\ CopiesCurrent' /\ ReadsCurrent'
  BY <1>1 DEF Sound, Indexed, CopiesCurrent, ReadsCurrent, Live, CharOf, Has, store, server
<1>3. /\ sessionsByToken' \in [Token -> Session \union {None}]
      /\ sessionTokenByChar' \in [Char -> Token \union {None}]
      /\ lootContainers' \in [Char -> {"none", "open", "claimed"}]
      /\ pending' \in [Char -> Pending \union {None}]
  BY <1>1 DEF Sound, Typed, TypeOK, server
<1> QED
  BY <1>1, <1>2, <1>3, SessionsKeep

\* Every copy a connected session has and every record a connect or an
\* administrator has read is what the store holds, and the store is what the
\* acknowledged operations add up to: the invariant the others rest on.
THEOREM SoundInvariant == ASSUME Races = {} PROVE Spec => []Sound
<1>1. Init => Sound
  BY InitSound
<1>2. Sound /\ [Next]_vars => Sound'
  BY NextKeeps, StutterKeeps
<1> QED
  BY <1>1, <1>2, PTL DEF Spec

\* The variables keep their types and nobody is in debt: guards look at the
\* session's copy or at the store, and both are the same.
THEOREM TypeCorrect == ASSUME Races = {} PROVE Spec => []TypeOK
<1>1. Sound => TypeOK
  BY DEF Sound, Typed
<1> QED
  BY <1>1, SoundInvariant, PTL

\* The store holds what the acknowledged purchases, sales, rewards, loot,
\* market deals and grants of each character add up to, whichever of the
\* handlers write absolute values and whichever write differences
\* (persistSession...Locked, AuctionStore, AdminStore).
THEOREM BooksAlwaysBalance == ASSUME Races = {} PROVE Spec => []BooksBalance
<1>1. Sound => BooksBalance
  BY DEF Sound
<1> QED
  BY <1>1, SoundInvariant, PTL

\* A connected client is shown what the store holds, after deals of others,
\* expiries, grants, resumed and refused connects (the reloads of
\* applyCharacterProgressionLocked).
THEOREM ConnectedSees == ASSUME Races = {} PROVE Spec => []ConnectedSeesTheStore
<1>1. Sound => ConnectedSeesTheStore
  BY DEF Sound, CopiesCurrent, ConnectedSeesTheStore
<1> QED
  BY <1>1, SoundInvariant, PTL

\* No step takes a granted reward out of the store, however old the copy it
\* writes back might be (UpdateCharacterProgression replaces the quests).
THEOREM RewardStays == ASSUME Races = {} PROVE Spec => RewardIsForGood
<1>1. Sound /\ [Next]_vars => [RewardsKept]_vars
  BY NextKeeps, StutterKeeps
<1>2. [RewardsKept]_vars =>
         [\A c \in Char : record[c].quest = "rewarded" => record'[c].quest = "rewarded"]_vars
  BY DEF RewardsKept
<1> QED
  BY <1>1, <1>2, SoundInvariant, PTL DEF Spec, RewardIsForGood
=============================================================================
