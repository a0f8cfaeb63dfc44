SPECIFICATION LiveSpec
CONSTANTS
    Modules = {m1}
    Executions = {x1, x2}
    NoModule = NoModule
    NoExecution = NoExecution
    MaxLag = 1
    SameSecond = FALSE
    Budget <- LiveBudget
PROPERTY EventuallyRolledOut
CHECK_DEADLOCK FALSE
