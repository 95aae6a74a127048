\* One node, no failures: what the log line of a batch says.
SPECIFICATION Spec
CONSTANTS
    Nodes = {n1}
    Workers = {}
    MaxBlock = 6
    BlockRange = 2
    MaxBatchCount = 2
    InitialBatch = 1
    InitialPointer = 0
    WithLogs <- MCEveryBlock
    AdminBlocks = {}
    MaxFaults = 0
INVARIANT ProcessedIsStored
