\* A cancelled round whose window was open, played again.
SPECIFICATION Spec
CONSTANTS
    i1 = i1
    i2 = i2
    j1 = j1
    j2 = j2
    j3 = j3
    Instances <- OneInstance
    Judges <- ThreeJudges
    MaxRounds = 2
    MaxWindows = 1
    MaxCancelled = 1
INVARIANT
    ValidVotesOpenWindows
\* Officials may stop at any time.
CHECK_DEADLOCK FALSE
