SPECIFICATION Spec
CONSTANTS
    Executions = {e1}
    Jobs = {j1, j2}
    NoExecution = NoExecution
    NoJob = NoJob
    BackoffLimit = 1
    MaxLag = 1
    SameSecond = FALSE
    Budget <- CoreBudget
SYMMETRY Permuted
INVARIANTS TypeOK NewestNeverPruned TruthfulStatus QuiescentIsSettled
PROPERTY PhaseForward
CHECK_DEADLOCK FALSE
