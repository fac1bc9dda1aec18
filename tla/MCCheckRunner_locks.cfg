CONSTANTS
    a = a
    b = b
    d = d
    w1 = w1
    w2 = w2
    Worker = {w1, w2}
    Obs = {b, d}
    obstime <- Obstime
    typeid <- Typeid
    NChecks = 1
    back <- Back1
    TextCheck = {1}
    MaxId = 4
    stored <- Stored
    SerializeLimit = 2
    AbortLimit = 1
    MaxFaults = 0
CHECK_DEADLOCK FALSE
SPECIFICATION CheckSpec
INVARIANT
    CheckTypeOK
PROPERTIES
    CheckEnds
