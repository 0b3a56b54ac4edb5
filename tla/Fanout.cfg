SPECIFICATION Spec
CONSTANTS
    o1 = o1  o2 = o2  k1 = k1  k2 = k2  n1 = n1  n2 = n2  c1 = c1
    None = None
    Origins = {o1}
    Keys = {k1}
    Nodes = {n1}
    Containers = {c1}
    Query <- QueryBoth
    AdminOrigins = {}
    ZeroTimeout = {}
    Home <- HomeN1
    ZeroNode = None
    MaxReplicas = 2
    MaxFalse = 1
    MaxCrashes = 1
    MaxFaults = 1
    Restarts = TRUE
    DropReplies = FALSE
INVARIANTS TypeOK EndTaskOnce EndedOnFullCount FullCountIsClaimed
CHECK_DEADLOCK FALSE
