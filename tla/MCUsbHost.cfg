SPECIFICATION FairSpec
CONSTANTS
    PoolSize = 32
    Qhds = 3
    ControlSize = 8
    DataSize = 3
    MaxPlugs = 4
INVARIANTS TypeOK PoolIntact BuffersHeld BuffersAccounted
PROPERTIES TransferReturns
\* The task is at rest when no device comes any more, and it can hang in a
\* transfer queued on a pipe that the handler has closed.
CHECK_DEADLOCK FALSE
