SPECIFICATION LiveSpec
CONSTANTS
    Executions = {e1}
    Jobs = {j1, j2}
    NoExecution = NoExecution
    NoJob = NoJob
    BackoffLimit = 0
    MaxLag = 1
    SameSecond = FALSE
    Budget <- LiveBudget
PROPERTY Converges
CHECK_DEADLOCK FALSE
