------------------------------ MODULE Belongings ------------------------------
(***************************************************************************)
(* What a character carries, wears, keeps in the chest of its room and has *)
(* on its action bar (inventory.go, housing.go, abilities.go).             *)
(*                                                                         *)
(* A bag move, a deposit and a withdrawal are stored before the session    *)
(* has them; what is put on and taken off is in the session first.  The    *)
(* chest is only in the store.  There is one equipment slot; where the     *)
(* character stands is left out, and so are quest items, which the chest   *)
(* refuses.  Moves within the bag only swap, those in the chest also merge. *)
(***************************************************************************)
EXTENDS Careers

CONSTANTS
    Gear,                   \* items that are worn, one to a slot
    MaxStack,               \* of the one item that is not gear, "ore"
    OreGiven,               \* how much of it there is
    PackSlots, ChestSlots, BarSlots

ASSUME BelongingsAssumption ==
    /\ {MaxStack, OreGiven, PackSlots, ChestSlots, BarSlots} \subseteq Nat \ {0}
    /\ IsFiniteSet(Gear) /\ "ore" \notin Gear /\ None \notin Gear \cup {"ore"}
    /\ OreGiven <= MaxStack /\ Cardinality(Gear) < PackSlots

VARIABLES
    goods,      \* character -> bag, worn, chest and bar in the store
    held        \* character -> bag, worn and bar in its session
belongings == <<goods, held>>

Items == Gear \cup {"ore"}
Limit(item) == IF item \in Gear THEN 1 ELSE MaxStack
NoStack == [item |-> None, n |-> 0]
Stack(item, n) == [item |-> item, n |-> n]
Copy(g) == [bag |-> g.bag, worn |-> g.worn, bar |-> g.bar]
Empty(slots) == {i \in DOMAIN slots : slots[i] = NoStack}
First(S) == CHOOSE i \in S : \A j \in S : i <= j

BelongingsInit ==
    LET things == [i \in 1..Cardinality(Gear) |-> Stack(SetToSeq(Gear)[i], 1)] \o <<Stack("ore", OreGiven)>>
    IN  /\ goods = [c \in Char |->
               [bag |-> [i \in 1..PackSlots |-> IF i \in DOMAIN things THEN things[i] ELSE NoStack],
                worn |-> None, chest |-> [i \in 1..ChestSlots |-> NoStack],
                bar |-> [i \in 1..BarSlots |-> IF i = 1 THEN "strike" ELSE None]]]
        /\ held = [c \in Char |-> Copy(goods[c])]

-----------------------------------------------------------------------------
(* Slots.  What may be refused yields the set of its results, empty or of one. *)

TopUp(adding, i) ==
    LET s == adding.slots[i]
        k == IF s.item = adding.item /\ s.item \notin Gear /\ s.n + adding.left <= MaxStack THEN adding.left
             ELSE IF s.item = adding.item /\ s.item \notin Gear THEN MaxStack - s.n ELSE 0
    IN  [adding EXCEPT !.slots[i].n = @ + k, !.left = @ - k]
FillEmpty(adding, i) ==
    LET k == IF adding.left <= Limit(adding.item) THEN adding.left ELSE Limit(adding.item)
    IN  IF adding.slots[i] = NoStack /\ adding.left > 0
        THEN [adding EXCEPT !.slots[i] = Stack(adding.item, k), !.left = @ - k] ELSE adding
\* grantDefinedItemToInventory, addDefinedItemToHousingStorage without a slot asked for
Spread(slots, item, n) ==
    LET order == [i \in DOMAIN slots |-> i]
        added == FoldLeft(FillEmpty, FoldLeft(TopUp, [slots |-> slots, item |-> item, left |-> n], order), order)
    IN  IF added.left = 0 THEN {added.slots} ELSE {}

\* slotCanAcceptItem
WrongSlotCanAccept(s, item, n) == s.n + n <= Limit(item)
SlotCanAccept(s, item, n) ==
    IF s = NoStack THEN n <= Limit(item)
    ELSE item \notin Gear /\ s.item = item /\ s.n + n <= MaxStack

\* addItemToHousingSlot, addItemToInventorySlot
AddToSlot(s, item, n) == IF s = NoStack THEN Stack(item, n) ELSE [s EXCEPT !.n = @ + n]
AddAt(slots, i, item, n) ==
    IF SlotCanAccept(slots[i], item, n) THEN {[slots EXCEPT ![i] = AddToSlot(@, item, n)]} ELSE {}

AddToChest(slots, where, item, n) == IF where = 0 THEN Spread(slots, item, n) ELSE AddAt(slots, where, item, n)
AddToBag(slots, where, item, n) == IF where = 0 THEN Spread(slots, item, n) ELSE AddAt(slots, where, item, n)

TakeFromBag(slots, i, n) == [slots EXCEPT ![i] = IF @.n = n THEN NoStack ELSE Stack(@.item, @.n - n)]
TakeFromChest(slots, i, n) == [slots EXCEPT ![i] = IF @.n = n THEN NoStack ELSE Stack(@.item, @.n - n)]
Swap(slots, i, j) == [slots EXCEPT ![i] = slots[j], ![j] = slots[i]]

-----------------------------------------------------------------------------
(* The saves.  All but the last leave the session alone when they fail. *)
Stored(c, g, h) ==
    \E saved \in Saves :
        /\ goods' = IF saved THEN [goods EXCEPT ![c] = g] ELSE goods
        /\ held' = IF saved THEN [held EXCEPT ![c] = h] ELSE held
        /\ failures' = failures + (IF saved THEN 0 ELSE 1)
        /\ UNCHANGED <<record, session, torn>>
UpdateCharacterInventory(c, bag) == Stored(c, [goods[c] EXCEPT !.bag = bag], [held[c] EXCEPT !.bag = bag])
UpdateHousingStorage(c, chest) == Stored(c, [goods[c] EXCEPT !.chest = chest], held[c])
UpdateCharacterInventoryAndHousingStorage(c, bag, chest) ==
    Stored(c, [goods[c] EXCEPT !.bag = bag, !.chest = chest], [held[c] EXCEPT !.bag = bag])

\* Known abilities; the store keeps on the bar what it knows to be learned.
KnownAbilities(r) == {"strike"} \cup (IF r.learned THEN {"lesson"} ELSE {})
OnBar(bar, r) == [i \in 1..BarSlots |-> IF bar[i] \in KnownAbilities(r) THEN bar[i] ELSE None]
UpdateCharacterActionBarSlots(c, bar) ==
    LET kept == OnBar(bar, record[c])
    IN  Stored(c, [goods[c] EXCEPT !.bar = kept], [held[c] EXCEPT !.bar = OnBar(kept, session[c])])

\* persistSessionEconomyLocked of a session that has changed to `h' already
PersistGear(c, h) ==
    \E saved \in Saves :
        /\ goods' = IF saved THEN [goods EXCEPT ![c].bag = h.bag, ![c].worn = h.worn] ELSE goods
        /\ held' = [held EXCEPT ![c] = h]
        /\ Failing(c, saved)
        /\ UNCHANGED <<record, session>>

-----------------------------------------------------------------------------
\* moveInventorySlotLocked
MoveInventorySlot(c, i, j) ==
    /\ i # j /\ held[c].bag[i] # NoStack
    /\ UpdateCharacterInventory(c, Swap(held[c].bag, i, j))

\* equipInventorySlotLocked: what was worn takes the slot.
EquipInventorySlot(c, i) ==
    LET bag == held[c].bag
        off == IF held[c].worn = None THEN NoStack ELSE Stack(held[c].worn, 1)
    IN  /\ bag[i].n = 1 /\ bag[i].item \in Gear
        /\ PersistGear(c, [held[c] EXCEPT !.bag[i] = off, !.worn = bag[i].item])

\* unequipEquipmentSlotLocked
UnequipEquipmentSlot(c) ==
    /\ held[c].worn # None /\ Empty(held[c].bag) # {}
    /\ PersistGear(c, [held[c] EXCEPT !.bag[First(Empty(held[c].bag))] = Stack(held[c].worn, 1), !.worn = None])

\* depositHousingStorageLocked, to a slot or (0) to any
DepositHousingStorage(c, i, where, n) ==
    LET s == held[c].bag[i]
    IN  /\ n \in 1..s.n
        /\ \E chest \in AddToChest(goods[c].chest, where, s.item, n) :
               UpdateCharacterInventoryAndHousingStorage(c, TakeFromBag(held[c].bag, i, n), chest)

\* withdrawHousingStorageLocked
WithdrawHousingStorage(c, i, where, n) ==
    LET s == goods[c].chest[i]
    IN  /\ n \in 1..s.n
        /\ \E bag \in AddToBag(held[c].bag, where, s.item, n) :
               UpdateCharacterInventoryAndHousingStorage(c, bag, TakeFromChest(goods[c].chest, i, n))

\* moveHousingStorageLocked: onto a stack with room it merges.
MoveHousingStorage(c, i, j) ==
    LET chest == goods[c].chest
        from == chest[i]
        to == chest[j]
        room == MaxStack - to.n
        moved == IF from.n <= room THEN from.n ELSE room
        merges == from.item = to.item /\ from.item \notin Gear /\ room > 0
    IN  /\ i # j /\ from # NoStack
        /\ UpdateHousingStorage(c,
               IF merges THEN [TakeFromChest(chest, i, moved) EXCEPT ![j].n = @ + moved] ELSE Swap(chest, i, j))

-----------------------------------------------------------------------------
\* The action bar
AssignActionBarSlot(c, i, a) ==
    /\ a \in KnownAbilities(session[c])
    /\ UpdateCharacterActionBarSlots(c, [OnBar(held[c].bar, session[c]) EXCEPT ![i] = a])
ClearActionBarSlot(c, i) == UpdateCharacterActionBarSlots(c, [OnBar(held[c].bar, session[c]) EXCEPT ![i] = None])
MoveActionBarSlot(c, i, j) ==
    /\ i # j /\ held[c].bar[i] # None
    /\ UpdateCharacterActionBarSlots(c, Swap(OnBar(held[c].bar, session[c]), i, j))

-----------------------------------------------------------------------------
\* The requests
HandleInventoryMove(c) == InWorld(c) /\ \E i, j \in 1..PackSlots : MoveInventorySlot(c, i, j)
HandleInventoryEquip(c) == InWorld(c) /\ \E i \in 1..PackSlots : EquipInventorySlot(c, i)
HandleInventoryUnequip(c) == InWorld(c) /\ UnequipEquipmentSlot(c)
HandleHousingStorageDeposit(c) ==
    InWorld(c) /\ \E i \in 1..PackSlots, where \in 0..ChestSlots, n \in 1..MaxStack : DepositHousingStorage(c, i, where, n)
HandleHousingStorageWithdraw(c) ==
    InWorld(c) /\ \E i \in 1..ChestSlots, where \in 0..PackSlots, n \in 1..MaxStack : WithdrawHousingStorage(c, i, where, n)
HandleHousingStorageMove(c) == InWorld(c) /\ \E i, j \in 1..ChestSlots : MoveHousingStorage(c, i, j)
HandleActionBarAssign(c) == InWorld(c) /\ \E i \in 1..BarSlots, a \in {"strike", "lesson"} : AssignActionBarSlot(c, i, a)
HandleActionBarClear(c) == InWorld(c) /\ \E i \in 1..BarSlots : ClearActionBarSlot(c, i)
HandleActionBarMove(c) == InWorld(c) /\ \E i, j \in 1..BarSlots : MoveActionBarSlot(c, i, j)

BagNext(c) ==
    \/ HandleInventoryMove(c) \/ HandleInventoryEquip(c) \/ HandleInventoryUnequip(c)
    \/ HandleHousingStorageDeposit(c) \/ HandleHousingStorageWithdraw(c) \/ HandleHousingStorageMove(c)
BarNext(c) == HandleActionBarAssign(c) \/ HandleActionBarClear(c) \/ HandleActionBarMove(c)

\* A session that is made takes the store's; one that ends leaves nothing behind.
Carry(c) == held' = [held EXCEPT ![c] = Copy(goods[c])] /\ UNCHANGED goods

-----------------------------------------------------------------------------
Slot == [item : Items \cup {None}, n : 0..MaxStack]
Bar == [1..BarSlots -> {None, "strike", "lesson"}]
BelongingsTypeOK ==
    \A c \in Char :
        /\ goods[c] \in [bag : [1..PackSlots -> Slot], worn : Gear \cup {None}, chest : [1..ChestSlots -> Slot], bar : Bar]
        /\ held[c] \in [bag : [1..PackSlots -> Slot], worn : Gear \cup {None}, bar : Bar]

Amount(slots, item) == FoldLeft(LAMBDA sum, s : IF s.item = item THEN sum + s.n ELSE sum, 0, slots)
Given(item) == IF item \in Gear THEN 1 ELSE OreGiven

(* Whatever is moved, worn, stored away and fetched again, the store has every item a *)
(* character was given exactly once, in bag, equipment or chest, and the session shows *)
(* what the store has: a failed save of what was put on or taken off excepted, which   *)
(* leaves the two apart until the whole of them is saved (inventory.go                 *)
(* equipInventorySlotLocked, moveInventorySlotLocked, housing.go depositHousingStorageLocked). *)
BelongingsKept ==
    \A c \in Char \ torn :
        /\ \A item \in Items :
               Amount(goods[c].bag, item) + Amount(goods[c].chest, item) + (IF goods[c].worn = item THEN 1 ELSE 0)
                   = Given(item)
        /\ held[c] = Copy(goods[c])
=============================================================================
