CONSTANTS
    w1 = w1
    w2 = w2
    e1 = e1
    e2 = e2
    e3 = e3
    Worker = {w1, w2}
    Entry = {e1, e2, e3}
    MaxFaults = 2
SPECIFICATION ClaimSpec
SYMMETRY Sym
INVARIANT
    ClaimIsExclusive
