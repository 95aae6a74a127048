\* The service's loop, two nodes at their own heights, a failure or crash or a second
\* loop on block 2, and a configured start above the chain's first blocks.
SPECIFICATION MCSpec
CONSTANTS
    Nodes = {n1, n2}
    Workers = {w1}
    MaxBlock = 3
    BlockRange = 2
    MaxBatchCount = 2
    InitialBatch = 1
    InitialPointer = 1
    WithLogs <- MCSparse
    AdminBlocks = {2}
    MaxFaults = 1
INVARIANTS TypeOK LogsCovered
PROPERTIES SkipsOneBlock BackOnlyWithTheNode HeadReached
