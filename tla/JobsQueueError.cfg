SPECIFICATION FairSpec
CONSTANTS
    j1 = j1
    j2 = j2
    n1 = n1
    w1 = w1
    w2 = w2
    None = none
    Jobs = {j1}
    Nodes = {n1}
    KindCount = 2
    Deletion = 1
    Priorities <- MCPriorities
    MaxAttempts = 2
    Workers = {w1}
    MaxRestarts = 1
    MaxOverruns = 0
    DbErrors = TRUE
PROPERTIES
    QueueErrorReturns
CHECK_DEADLOCK FALSE
