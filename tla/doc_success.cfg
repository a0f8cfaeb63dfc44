SPECIFICATION Spec
CONSTANTS
    Executions = {e1}
    Jobs = {j1, j2}
    NoExecution = NoExecution
    NoJob = NoJob
    BackoffLimit = 1
    MaxLag = 2
    SameSecond = FALSE
    Budget <- None
SYMMETRY Permuted
INVARIANT CompletedIsSucceeded
CHECK_DEADLOCK FALSE
