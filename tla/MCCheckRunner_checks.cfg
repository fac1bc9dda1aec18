CONSTANTS
    a = a
    b = b
    d = d
    w1 = w1
    w2 = w2
    Worker = {w1, w2}
    Obs = {a, b}
    obstime <- Obstime
    typeid <- Typeid
    NChecks = 2
    back <- Back
    TextCheck = {2}
    MaxId = 3
    stored <- Stored
    SerializeLimit = 2
    AbortLimit = 1
    MaxFaults = 1
CHECK_DEADLOCK FALSE
SPECIFICATION CheckSafety
SYMMETRY Sym
INVARIANTS
    ReadsAreStable
PROPERTIES
    ChecksAreAtomic
    MessageIsCommitted
