SPECIFICATION Spec
CONSTANTS
    s1 = s1
    s2 = s2
    r1 = r1
    r2 = r2
    r3 = r3
    n1 = n1
    n2 = n2
    i1 = i1
    i2 = i2
    i3 = i3
    k1 = k1
    k2 = k2
    unknown = unknown
    Unknown = unknown
    None = none
    MaxByte = 1
    Sessions = {s1}
    Requests = {r1, r2}
    Names = {n1}
    Inodes = {i1, i2}
    Keys = {k1, k2}
    Sizes <- MCSizes
    Totals = {TRUE}
    Shared = TRUE
    Faults = {}
SYMMETRY Symmetry
VIEW View
INVARIANT
    SizeConfirmed
CHECK_DEADLOCK FALSE
