SPECIFICATION Spec
CONSTANTS
    n1 = n1
    r1 = r1
    r2 = r2
    w1 = w1
    k1 = k1
    k2 = k2
    k3 = k3
    k4 = k4
    None = None
    Nodes = {n1}
    Requests = {r1, r2}
    Workers = {w1}
    Keys = {k1, k2, k3, k4}
    Special = {}
    Broken <- NoPreview
    MaxAttempts = 2
    MaxFaults = 1
    Faults = {"error", "tool", "crash", "disconnect", "misread", "twice", "converter"}
SYMMETRY Symmetry
INVARIANT
    NoStrayArtifact
PROPERTY
    ArtifactStable
CHECK_DEADLOCK FALSE
