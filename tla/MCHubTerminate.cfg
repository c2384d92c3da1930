SPECIFICATION Spec
CONSTANTS
    Handlers = {h1}
    Questions = {q1}
    Window = 2
    Hold = 2
    HoldGrace = 1
    Grace = 1
    WatchEnd = 2
    Noise = 2
    MaxNotes = 2
INVARIANT TerminatedIsQuiet
CHECK_DEADLOCK FALSE
