SPECIFICATION Spec
CONSTANTS
    root = root
    d1 = d1
    d2 = d2
    f1 = f1
    a = a
    b = b
    None = none
    Root = root
    Folders = {root, d1}
    Files = {f1}
    Names = {a}
    Faults = {}
INVARIANT
    RetentionKept
CHECK_DEADLOCK FALSE
