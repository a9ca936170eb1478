SPECIFICATION FairSpec
CONSTANTS
    Numbers = {0, 2, 3, 4}
    MaxU64 = 3
    Ids <- MCIds
    Names <- MCNames
    Kind <- MCFiles
    Size <- MCSize
    Asks <- MCAsks
    Limits = {1, 2}
    None = None
    MaxChanges = 2
INVARIANTS
    TypeOK
    EachOnce
    RangeRight
PROPERTIES
    PagingEnds
CHECK_DEADLOCK FALSE
