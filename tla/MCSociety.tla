------------------------------ MODULE MCSociety ------------------------------
(* A small instance of Society for TLC; the talkers are alike, and so are the others. *)
EXTENDS Society, TLC

Symmetry == Permutations(Talkers)
=============================================================================
