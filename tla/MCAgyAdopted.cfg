SPECIFICATION Spec
CONSTANTS
    Convs = {c1}
    History = {0}
    MaxRows = 4
    MaxRestarts = 1
CHECK_DEADLOCK FALSE
INVARIANTS
    HistoryLeftAlone
