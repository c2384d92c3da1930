SPECIFICATION FairSpec
CONSTANTS
    t1 = t1
    root = root
    Tasks = {t1, root}
    Needs <- OneBefore
    Order <- Panel
    Root = root
    Memo = FALSE
    MaxFollowUps = 1
    HumanStatuses = {"todo", "review", "done"}
    InTime = TRUE
    MaxSessions = 3
    MaxActs = 3
INVARIANT JudgeKnown
CHECK_DEADLOCK FALSE
