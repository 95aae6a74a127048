\* What is said of the task: only old rows go.
SPECIFICATION RSpec
CONSTANTS
    Nodes = {n1}
    Workers = {}
    MaxBlock = 3
    BlockRange = 1
    MaxBatchCount = 2
    InitialBatch = 2
    InitialStart = 0
    TraceEnabled = TRUE
    Content <- MCContent
    AdminBlocks = {}
    MaxFaults = 0
    Window = 1
INVARIANT SevenDaysKept
