\* The service's loop alone, two nodes at their own heights, a failure or crash.
SPECIFICATION FairSpec
CONSTANTS
    Nodes = {n1, n2}
    Workers = {}
    MaxBlock = 3
    BlockRange = 2
    MaxBatchCount = 2
    InitialBatch = 3
    InitialStart = 0
    TraceEnabled = TRUE
    Content <- MCContent
    AdminBlocks = {}
    MaxFaults = 1
INVARIANTS TypeOK ParentsFirst PrefixCovered PointerStored
PROPERTY HeadReached
