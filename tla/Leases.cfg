\* One official on two sockets and a scoreboard; one row whose image is
\* replaced once, two workers and two faults.
SPECIFICATION MCSpec
CONSTANTS
    sup = sup
    m1 = m1
    m2 = m2
    x1 = x1
    x2 = x2
    b1 = b1
    None = None
    Officials = {sup}
    Matches = {m1, m2}
    Sockets = {x1, x2, b1}
    OwnerOf <- MCOwnerOf
    Rows = {r1}
    Objects = {o1, o2}
    Workers = {w1, w2}
    MaxFaults = 2
    NoObject = NoObject
INVARIANTS
    CountersCoverConnections
    ReferencedObjectsExist
PROPERTIES
    AbandonedMatchIsNotReady
    OutboxDrains
\* Every image may be gone and every key used.
CHECK_DEADLOCK FALSE
