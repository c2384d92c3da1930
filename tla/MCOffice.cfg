SPECIFICATION MCSpec
CONSTANTS
    t1 = t1
    root = root
    Tasks = {t1, root}
    Needs <- OneBefore
    Order <- Panel
    Root = root
    Memo = FALSE
    MaxFollowUps = 1
    HumanStatuses = {"todo", "review", "done"}
    InTime = TRUE
    MaxSessions = 3
    MaxActs = 1
    MAX_TASK_CHATS = 1
    MaxChats = 2
    MaxReloads = 1
    Agents = {a1, a2}
    Daemons = {d1, d2}
    NoDaemon = none
    Overlap = FALSE
    MaxConns = 3
    MaxStarts = 1
INVARIANTS
    OfficeTypes
    RestsOnlyWaiting
    ChatsInSight
    HandedOffSurvives
    FoundAgain
PROPERTIES
    ReasonKept
    WorkEnds
    IdleDaemonLeaves
CHECK_DEADLOCK FALSE
