SPECIFICATION LiveSpec
CONSTANTS
    i1 = i1
    i2 = i2
    N = 2
    Images = {i0, i1, i2}
    DefaultImage = i0
    Unset = Unset
    Malformed = Malformed
    Contents <- MCContents
    WatchConfig = TRUE
    InPod = TRUE
    Budget <- CoreBudget
INVARIANTS TypeOK ReadyMeansInitialised ControllersHaveSettings SettledIsCurrent
PROPERTY EventuallyCurrent
CHECK_DEADLOCK FALSE
