---------------------------- MODULE RewardCommands ----------------------------
(***************************************************************************)
(* The typed commands about quests, loot, money, items and the action bar    *)
(* (loop/commands.go), each with what replaying its record does              *)
(* (shard_loop.go applyReplayRecord).                                        *)
(*                                                                         *)
(* A key is a mutation key and NoKey the empty one; a claim without a key    *)
(* has one of its own, made of the quest's or the container's id, a delta or *)
(* a grant without one has none.  An item list is a sequence, one entry for  *)
(* each item of a quantity.                                                  *)
(***************************************************************************)
EXTENDS FightCommands, SequencesExt

NoKey == "no key"
NoItem == "no item"
QuestKey == "quest:"
LootKey == "loot:"

(* A slot with the empty id in it is empty too. *)
ItemIn(bag, i) == IF i \in DOMAIN bag THEN bag[i] ELSE NoItem

FirstEmptySlot(bag) == Min({i \in 0 .. Cardinality(DOMAIN bag) : ItemIn(bag, i) = NoItem})

PutInBag(bag, items) ==
    FoldLeft(LAMBDA b, item : With(b, FirstEmptySlot(b), item), bag, items)

(* The items at some places of a list, in their order. *)
ItemsAt(items, places) ==
    LET before(i) == Cardinality({j \in places : j <= i})
    IN [k \in 1 .. Cardinality(places) |-> items[CHOOSE i \in places : before(i) = k]]

Copies(item, quantity) == [i \in 1 .. quantity |-> item]

-----------------------------------------------------------------------------
(* The quest journal. *)
AcceptQuest(w, t, q) == Change(w, t, [w.player[t] EXCEPT !.quests = IF q \in DOMAIN @ THEN @ ELSE With(@, q, 0)])

(* Progress begins again. *)
ReplayAcceptQuest(w, t, q) == Change(w, t, [w.player[t] EXCEPT !.quests = With(@, q, 0)])

Progressed(quests, q, delta) == With(quests, q, (IF q \in DOMAIN quests THEN quests[q] ELSE 0) + delta)

ProgressQuestObjective(w, t, q, delta) ==
    Change(w, t, [w.player[t] EXCEPT !.quests = Progressed(@, q, IF delta = 0 THEN 1 ELSE delta)])

ReplayProgressQuestObjective(w, t, q, delta) ==
    Change(w, t, [w.player[t] EXCEPT !.quests = Progressed(@, q, delta)])

AbandonQuest(w, t, q) ==
    Change(w, t, [w.player[t] EXCEPT !.quests = Without(@, q), !.done = @ \ {q}])

ReplayAbandonQuest(w, t, q) ==
    Change(w, t, [w.player[t] EXCEPT !.quests = Without(@, q), !.done = @ \ {q}])

CompleteQuest(w, t, q) == Change(w, t, [w.player[t] EXCEPT !.done = @ \cup {q}])

ReplayCompleteQuest(w, t, q) == Change(w, t, [w.player[t] EXCEPT !.done = @ \cup {q}])

(* The action bar: no ability clears a slot, whether the command says so or not. *)
UpdateActionBar(w, t, slot, ability, clear) ==
    Change(w, t, [w.player[t] EXCEPT !.bar =
                      IF clear \/ ability = NoItem THEN Without(@, slot) ELSE With(@, slot, ability)])

ReplayUpdateActionBar(w, t, slot, ability, clear) ==
    Change(w, t, [w.player[t] EXCEPT !.bar =
                      IF clear THEN Without(@, slot)
                      ELSE IF ability # NoItem THEN With(@, slot, ability)
                      ELSE @])

-----------------------------------------------------------------------------
(* Rewards, money and items.  A key claimed before pays nothing. *)

\* Mutant: the reward is paid and its key not kept.
WrongClaimQuestReward(w, t, q, items, copper, key) ==
    Change(w, t, [w.player[t] EXCEPT !.done = @ \cup {q}, !.copper = @ + copper, !.bag = PutInBag(@, items)])

ClaimQuestReward(w, t, q, items, copper, key) ==
    LET its == IF key = NoKey THEN QuestKey ELSE key
    IN IF Has(w, t) /\ its \in w.player[t].claims THEN w
       ELSE Change(w, t, [w.player[t] EXCEPT !.done = @ \cup {q}, !.copper = @ + copper,
                                             !.bag = PutInBag(@, ItemsAt(items, {i \in DOMAIN items : items[i] # NoItem})),
                                             !.claims = @ \cup {its}])

(* An item without an id is put in the bag, and a key claimed before upserts the player. *)
ReplayClaimQuestReward(w, t, q, items, copper, key) ==
    LET its == IF key = NoKey THEN QuestKey ELSE key
    IN IF Has(w, t) /\ its \in w.player[t].claims THEN UpsertPlayer(w, t, w.player[t])
       ELSE Change(w, t, [w.player[t] EXCEPT !.done = @ \cup {q}, !.copper = @ + copper,
                                             !.bag = PutInBag(@, items),
                                             !.claims = @ \cup {its}])

ApplyCurrencyDelta(w, t, amount, key) ==
    IF Has(w, t) /\ key \in w.player[t].claims THEN w
    ELSE Change(w, t, [w.player[t] EXCEPT !.copper = @ + amount, !.claims = @ \cup ({key} \ {NoKey})])

ReplayCurrencyDelta(w, t, amount, key) ==
    IF Has(w, t) /\ key \in w.player[t].claims THEN UpsertPlayer(w, t, w.player[t])
    ELSE Change(w, t, [w.player[t] EXCEPT !.copper = @ + amount, !.claims = @ \cup ({key} \ {NoKey})])

(* A quantity left empty is one, except when it is replayed. *)
ApplyItemGrant(w, t, item, quantity, key) ==
    IF Has(w, t) /\ key \in w.player[t].claims THEN w
    ELSE Change(w, t, [w.player[t] EXCEPT !.bag = PutInBag(@, Copies(item, Higher(1, quantity))),
                                          !.claims = @ \cup ({key} \ {NoKey})])

ReplayItemGrant(w, t, item, quantity, key) ==
    IF Has(w, t) /\ key \in w.player[t].claims THEN UpsertPlayer(w, t, w.player[t])
    ELSE Change(w, t, [w.player[t] EXCEPT !.bag = PutInBag(@, Copies(item, quantity)),
                                          !.claims = @ \cup ({key} \ {NoKey})])

Swapped(bag, from, to) ==
    LET moved == With(With(bag, from, ItemIn(bag, to)), to, ItemIn(bag, from))
    IN IF ItemIn(moved, from) = NoItem THEN Without(moved, from) ELSE moved

MoveInventoryItem(w, t, from, to) ==
    IF ~Has(w, t) \/ ItemIn(w.player[t].bag, from) = NoItem THEN Refused
    ELSE UpsertPlayer(w, t, [w.player[t] EXCEPT !.bag = Swapped(@, from, to)])

ReplayMoveInventoryItem(w, t, from, to) == Change(w, t, [w.player[t] EXCEPT !.bag = Swapped(@, from, to)])

-----------------------------------------------------------------------------
(* Loot.  A container that was not claimed is claimed whole, whatever is taken of it. *)
GenerateLoot(w, c, owner, items) ==
    UpsertLootContainer(w, c, [owner |-> owner, items |-> items, opened |-> NoId,
                               claimed |-> NoId, closed |-> FALSE])

ReplayGenerateLoot(w, c, owner, items) ==
    UpsertLootContainer(w, c, [owner |-> owner, items |-> items, opened |-> NoId,
                               claimed |-> NoId, closed |-> FALSE])

MayLoot(w, t, c) ==
    Has(w, t) /\ c \in DOMAIN w.loot /\ w.loot[c].owner \in {NoId, w.player[t].char}

OpenLoot(w, t, c) ==
    IF MayLoot(w, t, c)
    THEN UpsertLootContainer(w, c, [w.loot[c] EXCEPT !.opened = w.player[t].char])
    ELSE Refused

ReplayOpenLoot(w, t, c) ==
    IF Has(w, t) /\ c \in DOMAIN w.loot
    THEN UpsertLootContainer(w, c, [w.loot[c] EXCEPT !.opened = w.player[t].char])
    ELSE Refused

TakeFrom(w, t, c, item, key) ==
    LET p == w.player[t]
        there == w.loot[c].items
        taken == ItemsAt(there, {i \in DOMAIN there : item \in {NoItem, there[i]}})
    IN UpsertLootContainer(
           UpsertPlayer(w, t, [p EXCEPT !.bag = PutInBag(@, taken), !.claims = @ \cup {key}]),
           c, [w.loot[c] EXCEPT !.claimed = p.char])

ClaimLoot(w, t, c, item, key) ==
    LET its == IF key = NoKey THEN LootKey ELSE key
    IN IF ~MayLoot(w, t, c) THEN Refused
       ELSE IF its \in w.player[t].claims \/ w.loot[c].claimed # NoId THEN w
       ELSE TakeFrom(w, t, c, item, its)

(* Whose loot it is was asked when the command was applied. *)
ReplayClaimLoot(w, t, c, item, key) ==
    LET its == IF key = NoKey THEN LootKey ELSE key
    IN IF ~Has(w, t) \/ c \notin DOMAIN w.loot THEN Refused
       ELSE IF its \in w.player[t].claims \/ w.loot[c].claimed # NoId
            THEN UpsertPlayer(w, t, w.player[t])
       ELSE TakeFrom(w, t, c, item, its)

CloseLoot(w, c) ==
    IF c \in DOMAIN w.loot THEN UpsertLootContainer(w, c, [w.loot[c] EXCEPT !.closed = TRUE]) ELSE Refused

ReplayCloseLoot(w, c) ==
    IF c \in DOMAIN w.loot THEN UpsertLootContainer(w, c, [w.loot[c] EXCEPT !.closed = TRUE]) ELSE Refused
===============================================================================
