---------------------------- MODULE MCShardCommands ----------------------------
(* A small instance of ShardCommands for TLC: two sessions of one character and one of
   another, and one NPC. *)
EXTENDS ShardCommands

CONSTANTS a1, a2, b1

MCCharacterOf == a1 :> 1 @@ a2 :> 1 @@ b1 :> 2

MCNatives == [s \in Scenes |-> IF s = "goods" THEN {a1, b1} ELSE {a1}]
===============================================================================
