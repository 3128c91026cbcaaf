SPECIFICATION MCSpec
CONSTANTS
    o1 = o1
    c1 = c1
    x1 = x1
    x2 = x2
    m1 = m1
    p1 = p1
    p2 = p2
    None = None
    Keys <- MCKeys
    Officials = {o1}
    Codes = {c1}
    CodeMatch <- MCCodeMatch
    Sessions = {1, 2}
    Sockets = {x1, x2}
    Processes = {p1, p2}
    Matches = {m1}
    MaxCommands = 2
    MaxInbox = 2
    MaxReplies = 1
INVARIANTS
    SocketsAreTold
SYMMETRY Symmetry
PROPERTY CommandsNeverGoBack
\* A console that has left the page, or spent its commands, may rest for ever.
CHECK_DEADLOCK FALSE
