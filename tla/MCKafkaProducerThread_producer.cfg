CONSTANTS
    c1 = c1
    c2 = c2
    c3 = c3
    c4 = c4
    Cmd = {c1, c2, c3, c4}
    QueueSize = 1
    BufferSize = 2
    NoCmd = NoCmd
CHECK_DEADLOCK FALSE
SPECIFICATION ProducerSpec
INVARIANTS
    ProducerTypeOK
    OwnedOnce
    ExitIsClean
PROPERTIES
    AcceptedIsReported
