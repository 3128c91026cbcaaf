\* One owner with one tournament and two super administrators; two supervisors,
\* four judges and three matches of two bracket rounds; two images and two
\* commands of the storage migration, with two faults.
SPECIFICATION MCSpec
CONSTANTS
    Supers = {root1, root2}
    Owners = {owner}
    Tournaments = {t1}
    Sports = {sp}
    Keys = {k1}
    Periods = {1, 2}
    Grace = 1
    Recovery = 1
    MaxTime = 4
    s1 = s1
    s2 = s2
    j1 = j1
    j2 = j2
    j3 = j3
    j4 = j4
    semi = semi
    final = final
    manual = manual
    Supervisors <- MCSupervisors
    Judges <- MCJudges
    Matches <- MCMatches
    Rounds = {1, 2}
    RoundOf <- MCRoundOf
    NoRound = 0
    MinimumJudges = 1
    ImageKeys = {i1, i2}
    Commands = {p1, p2}
    MaxTrouble = 2
SYMMETRY Symmetry
INVARIANTS
    SuperAdminRemains
    SportsInUseAreActive
    CrewsAreKept
    OfferedMatchIsTakeable
    LiveImagesAreServed
PROPERTIES
    ActiveOwnersKeepTournaments
    BracketStaysStaffable
