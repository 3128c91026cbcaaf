SPECIFICATION Spec
CONSTANTS
    o1 = o1
    c1 = c1
    d1 = d1
    d2 = d2
    None = None
    Officials <- MCOfficials
    Codes <- MCCodes
    Devices <- MCDevices
    MaxSessions = 3
    MaxGeneration = 1
SYMMETRY Symmetry
INVARIANTS
    SessionsAreCurrent
PROPERTIES
    TakeoverEvictsWhatItSaw
    ImplementsContract
