SPECIFICATION FairSpec
CONSTANTS
    n1 = n1
    r1 = r1
    r2 = r2
    w1 = w1
    k1 = k1
    k2 = k2
    k3 = k3
    k4 = k4
    None = None
    Nodes = {n1}
    Requests = {r1}
    Workers = {w1}
    Keys = {k1, k2, k3, k4}
    Special = {}
    Broken <- NoThumbnail
    MaxAttempts = 2
    MaxFaults = 0
    Faults = {}
PROPERTY
    PreviewsArrive
CHECK_DEADLOCK FALSE
