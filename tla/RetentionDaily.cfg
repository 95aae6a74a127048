\* What is said of the task: it runs every day.
SPECIFICATION RFairSpec
CONSTANTS
    Nodes = {n1}
    Workers = {}
    MaxBlock = 1
    BlockRange = 1
    MaxBatchCount = 2
    InitialBatch = 2
    InitialStart = 0
    TraceEnabled = TRUE
    Content <- MCContent
    AdminBlocks = {}
    MaxFaults = 0
    Window = 1
PROPERTY RemovedEveryDay
