\* The task beside the service's loop and a loop on block 0 or 1, a failure or crash.
SPECIFICATION RSpec
CONSTANTS
    Nodes = {n1}
    Workers = {w1}
    MaxBlock = 2
    BlockRange = 1
    MaxBatchCount = 2
    InitialBatch = 2
    InitialStart = 0
    TraceEnabled = TRUE
    Content <- MCContent
    AdminBlocks = {0, 1}
    MaxFaults = 1
    Window = 1
INVARIANTS RTypeOK BatchKept SingleNodeGapless MarkedWithTrace
PROPERTY IndexerUndisturbed
