SPECIFICATION RacesSpec
CONSTANTS
    root = root
    d1 = d1
    d2 = d2
    f1 = f1
    a = a
    b = b
    r1 = r1
    r2 = r2
    None = none
    Root = root
    Folders = {root, d1, d2}
    Files = {}
    Names = {a, b}
    Faults = {}
    Requests = {r1, r2}
INVARIANT
    NoFolderCycle
CHECK_DEADLOCK FALSE
