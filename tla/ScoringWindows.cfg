\* Two successive windows of one round, under fair processes and clock.
SPECIFICATION FairSpec
CONSTANTS
    i1 = i1
    i2 = i2
    j1 = j1
    j2 = j2
    j3 = j3
    Instances <- OneInstance
    Judges <- ThreeJudges
    MaxRounds = 1
    MaxWindows = 2
    MaxCancelled = 0
INVARIANTS
    AwardedOnce
    PointHasMajority
PROPERTY
    ScheduledWindowResolves
\* Officials may stop at any time.
CHECK_DEADLOCK FALSE
