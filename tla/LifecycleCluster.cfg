\* Two processes with timers of their own.
SPECIFICATION Spec
CONSTANTS
    i1 = i1
    i2 = i2
    Instances <- TwoInstances
    MaxRounds = 3
    MaxOps = 1
    MaxAppeals = 1
    MaxScored = 1
    RulesVersion = "V2"
    LegacyAccess = FALSE
SYMMETRY Symmetry
INVARIANTS
    CrewCoversProgress
PROPERTY
    PausedRoundKeepsTime
    ImplementsContract
\* A match nobody claims, or whose result is published, may rest for ever.
CHECK_DEADLOCK FALSE
