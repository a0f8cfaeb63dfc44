SPECIFICATION Spec
CONSTANTS
    Modules = {m1}
    Executions = {x1, x2}
    NoModule = NoModule
    NoExecution = NoExecution
    MaxLag = 1
    SameSecond = FALSE
    Budget <- CoreBudget
SYMMETRY Permuted
INVARIANTS TypeOK StatusIsTrue QuiescentIsRolledOut
PROPERTIES LatestNeverRegresses ReportedRunEndsFirst
CHECK_DEADLOCK FALSE
