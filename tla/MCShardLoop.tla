---------------------------- MODULE MCShardLoop ----------------------------
(* Small instances of ShardLoop for TLC. *)
EXTENDS ShardLoopRefinement, TLC

\* Clients are interchangeable, and so are stoppers.
Interchangeable == Permutations(Clients) \cup Permutations(Stoppers)
=============================================================================
