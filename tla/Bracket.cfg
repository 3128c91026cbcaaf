SPECIFICATION Spec
CONSTANTS
    a1 = a1
    a2 = a2
    a3 = a3
    a4 = a4
    Nobody = Nobody
    Athletes <- MCAthletes
    MaxSize = 4
    MaxEdits = 2
SYMMETRY Symmetry
INVARIANTS
    GraphIsSound
    EntrantsAreTheRoster
    SlotsFollowWinners
    MatchesAreFrozen
    WinnersFought
