SPECIFICATION Spec
CONSTANTS
    Tasks = {t1, t2}
    MAX_TASK_CHATS = 1
    MaxSessions = 2
    MaxReloads = 0
INVARIANT LimitKept
CHECK_DEADLOCK FALSE
