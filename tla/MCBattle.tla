------------------------------ MODULE MCBattle ------------------------------
(* A small instance of Battle for TLC: two players, a mob, and one ability of each kind. *)
EXTENDS Battle, TLC

Venom == [cast |-> TRUE, rule |-> "enemy", effects |-> {"aura"}]
Smite == [cast |-> FALSE, rule |-> "enemy", effects |-> {"damage"}]
Mend == [cast |-> FALSE, rule |-> "ally", effects |-> {"heal"}]
MCAbilities == {Venom, Smite, Mend}
CONSTANTS ann, bob
MCKnows == (ann :> {Venom}) @@ (bob :> {Smite, Mend})
=============================================================================
