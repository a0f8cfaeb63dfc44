SPECIFICATION Spec
CONSTANTS
    Executions = {e1}
    Jobs = {j1, j2}
    NoExecution = NoExecution
    NoJob = NoJob
    BackoffLimit = 0
    MaxLag = 1
    SameSecond = FALSE
    Budget <- LossBudget
SYMMETRY Permuted
INVARIANT QuiescentIsSettled
PROPERTY ImplementsLife
CHECK_DEADLOCK FALSE
