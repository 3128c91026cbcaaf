----------------------------- MODULE MCScoring -----------------------------
(* Model-checking instances of Scoring.                                     *)
EXTENDS Scoring, TLC

CONSTANTS i1, i2, j1, j2, j3

OneInstance == {i1}
TwoInstances == {i1, i2}
ThreeJudges == {j1, j2, j3}

\* The judges of a match and the API processes are interchangeable.
Symmetry == Permutations(Judges) \cup Permutations(Instances)
=============================================================================
