SPECIFICATION Spec
CONSTANTS
    Workdirs = {"infra"}
    Tag = "v1"
    Branch = "main"
    EngineVersions = {"1.9"}
    DefaultImage <- TofuImage
    MaxCommits = 3
    MaxPods = 2
INVARIANTS TypeOK ActionIsPrepared EngineAsAsked TagIsCheckedOut
CHECK_DEADLOCK FALSE
