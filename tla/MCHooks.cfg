SPECIFICATION MCSpec
CONSTANTS
    h1 = h1
    h2 = h2
    q1 = q1
    Handlers = {h1, h2}
    Questions = {q1}
    Window = 2
    Hold = 3
    HoldGrace = 1
    Grace = 1
    WatchEnd = 2
    Noise = 2
    MaxNotes = 2
    Main = "main"
    Subs = {"sub"}
    Parent <- ByMain
    Models = {"m1", "m2"}
    TailRows = 3
    CodexRows = 4
    CodexRestarts = 1
    TailLines = 5
    MaxIds = 3
    PairHooks = {h1, h2}
    PairLines = 3
    PairRestarts = 0
    LineHooks = {h1}
    LineLines = 4
    LineRestarts = 1
    Conv = 1
    KeptHistory = {0, 1, 2}
    KeptRows = 5
    Convs = {1, 2}
    MovedHistory = {0, 1}
    MovedRows = 3
    MovedRestarts = 1
    Agents = {worker}
    ReleaseDelay = 2
    RenewInterval = 2
    Lease = 6
    Late = 1
    MaxActs = 2
INVARIANTS
    HookTypes
    
    NoneMissed
    AwakeAsNeeded
PROPERTIES
    AnnouncedInTime
    HeldResolves
CHECK_DEADLOCK FALSE
