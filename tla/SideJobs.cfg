\* Two requests, and small instances of the scripts and of the daily metrics.
SPECIFICATION Spec
CONSTANTS
    Requests = {r1, r2}
    Asked <- MCAsked
    MaxNow = 4
    MaxRead = 1
    MaxVersion = 1
    Tokens <- MCTokens
    Logs <- MCLogs
    Start = 1
    Finish = 3
    Shards = {0, 1}
    From = 1
    To = 4
    Height = 4
    Lowest = 3
    Inputs <- MCInputs
    Traced <- MCTraced
    Kinds <- MCKinds
    Window = 2
    LastDay = 3
    RowsADay = 1
    BatchSize = 2
    ChunkSize = 1
    MaxErrors = 1
SYMMETRY Symmetry
INVARIANTS TypeOK RightAnswer BoundedStaleness NotFoundIsFresh EventsMigrated QuietBlocksFilled DaysCounted
\* The scripts end, and the clock has a bound.
CHECK_DEADLOCK FALSE
