SPECIFICATION Spec
CONSTANTS
    p1 = p1
    p2 = p2
    a1 = a1
    a2 = a2
    a3 = a3
    a4 = a4
    r1 = r1
    r2 = r2
    None = none
    Paths = {p1}
    Nodes = {a1, a2, a3, a4}
    Requests = {r1}
    Contested = {p1}
    MaxVersion <- MCVersions
    MaxFaults = 0
    Faults = {"reuse"}
INVARIANTS
    NeverOverwritten
CHECK_DEADLOCK FALSE
