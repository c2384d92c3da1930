SPECIFICATION Spec
CONSTANTS
    Sids = {s1, s2}
    NoSid = none
    Strict = {p1, p2}
    Plain = {}
    NoOne = nobody
    MaxGates = 2
    MaxTyped = 1
    MaxBodies = 1
PROPERTIES
    CrFollowsItsBody
CHECK_DEADLOCK FALSE
