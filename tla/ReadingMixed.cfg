SPECIFICATION Spec
CONSTANTS
    Numbers = {0, 2, 3, 4}
    MaxU64 = 3
    Ids <- MCIds
    Names <- MCNames
    Kind <- MCMixed
    Size <- MCSize
    Asks <- MCAsks
    Limits = {1, 2}
    None = None
    MaxChanges = 2
INVARIANTS
    EachOnce
CHECK_DEADLOCK FALSE
