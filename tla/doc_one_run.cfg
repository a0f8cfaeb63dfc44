SPECIFICATION Spec
CONSTANTS
    Executions = {e1}
    Jobs = {j1, j2}
    NoExecution = NoExecution
    NoJob = NoJob
    BackoffLimit = 0
    MaxLag = 2
    SameSecond = FALSE
    Budget <- None
SYMMETRY Permuted
INVARIANT OneRunPerExecution
CHECK_DEADLOCK FALSE
