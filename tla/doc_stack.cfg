SPECIFICATION Spec
CONSTANTS
    m1 = m1
    s1 = s1
    Modules <- OneModule
    Stacks <- OneStack
    ModuleRef <- Ref
    MaxExecutions = 2
    MaxJobs = 2
    SameSecond = FALSE
    UsersWait = TRUE
    Budget = 1
INVARIANT StackFollowsModule
CHECK_DEADLOCK FALSE
