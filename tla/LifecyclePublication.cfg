\* Up to publication, with a restarted overtime; fair processes and clock.
SPECIFICATION FairSpec
CONSTANTS
    i1 = i1
    i2 = i2
    Instances <- OneInstance
    MaxRounds = 4
    MaxOps = 1
    MaxAppeals = 3
    MaxScored = 1
    RulesVersion = "V2"
    LegacyAccess = FALSE
INVARIANTS
    OffersAreAccepted
    PublishedResultIsBacked
PROPERTY
    ScheduledRoundEnds
\* A match nobody claims, or whose result is published, may rest for ever.
CHECK_DEADLOCK FALSE
