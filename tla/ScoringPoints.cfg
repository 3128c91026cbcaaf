\* Two processes, up to three rounds and two cancellations around one window.
SPECIFICATION Spec
CONSTANTS
    i1 = i1
    i2 = i2
    j1 = j1
    j2 = j2
    j3 = j3
    Instances <- TwoInstances
    Judges <- ThreeJudges
    MaxRounds = 3
    MaxWindows = 1
    MaxCancelled = 2
SYMMETRY Symmetry
INVARIANTS
    PointsAreAccounted
PROPERTIES
    ResolvedIsFinal
    AppealedPointsAreFrozen
\* Officials may stop at any time.
CHECK_DEADLOCK FALSE
