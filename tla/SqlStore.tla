------------------------------- MODULE SqlStore -------------------------------
(***************************************************************************)
(* The SQL store: its goods, its groups, and its doors.  They share the     *)
(* connection, and no table that one of them writes and another reads: a   *)
(* behaviour of the store is one of each, and a run need not interleave    *)
(* them.  `scene` says which of them moves.                                *)
(***************************************************************************)
EXTENDS SqlGoods, SqlGroups, SqlDoors

VARIABLE scene

Init ==
    /\ scene \in {"goods", "groups", "doors"}
    /\ GoodsInit /\ GroupedInit /\ DoorsInit

Next ==
    /\ UNCHANGED scene
    /\ \/ scene = "goods" /\ GoodsNext /\ UNCHANGED <<grouped, doors>>
       \/ scene = "groups" /\ GroupedNext /\ UNCHANGED <<goods, doors>>
       \/ scene = "doors" /\ DoorsNext /\ UNCHANGED <<goods, grouped>>

Spec == Init /\ [][Next]_<<goods, grouped, doors, scene>>

(* The three modules' types. *)
TypeOK == GoodsTypeOK /\ GroupedTypeOK /\ DoorsTypeOK

=============================================================================
