-------------------------- MODULE MCMatchLifecycle --------------------------
(* Model-checking instances of MatchLifecycle.                              *)
EXTENDS MatchState, TLC

CONSTANTS i1, i2

OneInstance == {i1}
TwoInstances == {i1, i2}

\* The API processes are interchangeable.
Symmetry == Permutations(Instances)
=============================================================================
