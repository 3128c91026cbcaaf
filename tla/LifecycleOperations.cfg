\* One process, two result operations, one overtime.
SPECIFICATION Spec
CONSTANTS
    i1 = i1
    i2 = i2
    Instances <- OneInstance
    MaxRounds = 3
    MaxOps = 2
    MaxAppeals = 1
    MaxScored = 1
    RulesVersion = "V2"
    LegacyAccess = FALSE
INVARIANTS
    LegalRows
    RoundsBackTheMatch
PROPERTY
    OrderlyUndoIsExact
\* A match nobody claims, or whose result is published, may rest for ever.
CHECK_DEADLOCK FALSE
