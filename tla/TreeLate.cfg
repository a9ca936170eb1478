SPECIFICATION Spec
CONSTANTS
    root = root
    d1 = d1
    d2 = d2
    f1 = f1
    a = a
    b = b
    None = none
    Root = root
    Folders = {root, d1, d2}
    Files = {f1}
    Names = {a}
    Faults = {"worker_error", "late_upload"}
SYMMETRY Symmetry
VIEW View
INVARIANTS
    TypeOK
    TrashListed
PROPERTIES
    KeepsContract
CHECK_DEADLOCK FALSE
