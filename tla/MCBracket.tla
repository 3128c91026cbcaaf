------------------------------ MODULE MCBracket ------------------------------
(* Small instances of Bracket for TLC. *)
EXTENDS Bracket, TLC

CONSTANTS a1, a2, a3, a4

MCAthletes == {a1, a2, a3, a4}
Symmetry == Permutations(MCAthletes)
=============================================================================
