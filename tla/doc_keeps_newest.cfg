SPECIFICATION Spec
CONSTANTS
    Executions = {e1}
    Jobs = {j1, j2}
    NoExecution = NoExecution
    NoJob = NoJob
    BackoffLimit = 0
    MaxLag = 2
    SameSecond = TRUE
    Budget <- None
SYMMETRY Permuted
INVARIANT PruningKeepsOne
CHECK_DEADLOCK FALSE
