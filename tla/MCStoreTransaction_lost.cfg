CONSTANTS
    p = p
    q = q
    x = x
    t1 = t1
    t2 = t2
    Param = {p, q, x}
    Text = {x}
    Orig <- Values
    Thread = {t1}
    Messages <- StoreMessages
    InitDb <- StoreDb
    MaxRetry = 2
    MaxFaults = 1
CHECK_DEADLOCK FALSE
SPECIFICATION StoreSafety
PROPERTIES
    SuccessIsStored
