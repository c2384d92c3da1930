SPECIFICATION MCSpec
CONSTANTS
    s1 = s1
    s2 = s2
    p1 = p1
    p2 = p2
    none = none
    nobody = nobody
    Sids = {s1, s2}
    NoSid <- none
    Strict = {p1}
    Plain = {p2}
    NoOne <- nobody
    MaxGates = 1
    MaxTyped = 2
    MaxBodies = 1
    Alphabets = {{"["}}
    MaxBatch = 4
    BacklogCap = 1
    MaxRead = 1
    MaxBytes = 4
    MaxQueue = 1
    MaxSubs = 3
    Mounted = {TRUE, FALSE}
    InTime = TRUE
    RingCap = 3
    MaxOut = 6
    MaxTrips = 2
INVARIANTS
    TerminalTypes
    
    StreamPreserved
    ChunksOnce
    BellsAreLone
    LogIsTheScreen
    TailContiguous
    NothingLost
PROPERTIES
    CrFollowsItsBody
    OnlyOverSeenInput
    QueueDrains
    LogCloses
CHECK_DEADLOCK FALSE
