\* Gaps left by nodes that lag, and the script that fills them.
SPECIFICATION RepairSpec
CONSTANTS
    Nodes = {n1, n2}
    Workers = {w1}
    MaxBlock = 2
    BlockRange = 1
    MaxBatchCount = 2
    InitialBatch = 3
    InitialStart = 0
    TraceEnabled = TRUE
    Content <- MCSparse
    AdminBlocks = {}
    MaxFaults = 1
INVARIANTS IndInv
PROPERTIES PointerMonotone GapsRepaired
