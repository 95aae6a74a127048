\* Two loops and the top lists on a pool of two connections.
SPECIFICATION FairSpec
CONSTANTS
    Loops = {l1, l2}
    PoolSize = 2
    MaxBlock = 1
    MaxUpdate = 2
    MaxFaults = 1
INVARIANTS TypeOK NoneLeftOpen RowsBelowPointer
PROPERTIES UpdateWhole PointersAdvance
\* The bounds end the run, and a lock of a transaction left open is waited for.
CHECK_DEADLOCK FALSE
