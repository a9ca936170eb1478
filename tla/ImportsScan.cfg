SPECIFICATION FairSpec
CONSTANTS
    p1 = p1
    p2 = p2
    a1 = a1
    a2 = a2
    a3 = a3
    a4 = a4
    r1 = r1
    r2 = r2
    None = none
    Paths = {p1, p2}
    Nodes = {a1, a2, a3, a4}
    Requests = {r1}
    Contested = {p1}
    MaxVersion <- MCVersions
    MaxFaults = 2
    Faults = {"error", "disconnect", "crash"}
INVARIANTS
    TypeOK
    NothingLost
    NodesIntact
    SizeAgrees
PROPERTIES
    ImportsSettle
CHECK_DEADLOCK FALSE
