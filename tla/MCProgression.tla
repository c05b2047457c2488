---------------------------- MODULE MCProgression ----------------------------
(* A small instance of Progression for TLC. *)
EXTENDS Progression, TLC

CONSTANTS ann, bob

Kinds == "wolves" :> "count" @@ "lesson" :> "lesson" @@ "survey" :> "graph"
Needs == "wolves" :> {} @@ "lesson" :> {} @@ "survey" :> {"wolves"}
Levels == ann :> 2 @@ bob :> 1
Asked == "wolves" :> 1 @@ "lesson" :> 2 @@ "survey" :> 2
Nodes == "survey" :> <<[kind |-> "kill", deps |-> {}], [kind |-> "item", deps |-> {1}],
                       [kind |-> "kill", deps |-> {1}]>>
=============================================================================
