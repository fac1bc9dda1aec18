CONSTANTS
    r1 = r1
    r2 = r2
    r3 = r3
    Http = {r1, r2, r3}
    NCon = 2
    RedirectLimit = 1
    LookupMayThrow = TRUE
    MaxRequests = 4
    MaxMishaps = 1
CHECK_DEADLOCK FALSE
SPECIFICATION ServiceSpec
SYMMETRY Sym
INVARIANTS
    ServiceTypeOK
    ConnectionHasOneUser
    CommandIsAlive
    CommandIsServed
