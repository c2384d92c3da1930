SPECIFICATION Spec
CONSTANTS
    a = a
    b = b
    Ids = {a, b}
    Files <- MCFiles
    Request <- MCRequest
    MaxBatch = 3
    MaxEdits = 1
    MaxFaults = 1
CHECK_DEADLOCK FALSE
INVARIANTS
    RejectedIsUnapplied
