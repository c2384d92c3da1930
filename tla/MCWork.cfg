SPECIFICATION MCSpec
CONSTANTS
    a = a
    b = b
    Ids = {a, b}
    Files = {1, 2, 3, 4}
    Request <- InRequests
    MaxBatch = 3
    MaxEdits = 1
    MaxFaults = 1
    Agents = {a1, a2}
    MaxRuns = 3
    Sends = {s1, s2}
    Follows = {f}
    Other = other
    NoOne = none
    MaxReqs = 2
    MaxSessions = 2
    MaxTyped = 1
INVARIANTS
    WorkTypes
    PromptMeetsItsCli
    LaunchedOnce
    AckedIsDurable
    QuitLosesNothing
    NoneForgotten
PROPERTIES
    WaitsEnd
CHECK_DEADLOCK FALSE
