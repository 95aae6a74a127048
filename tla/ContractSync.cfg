\* One type at a time, every order of registration, marking and updating, nodes
\* that lag by as much as the threshold, one failure, crash or step back.
SPECIFICATION FairSpec
CONSTANTS
    Tokens = {"t1", "t2"}
    Owners = {"a", "b"}
    Ids = {"id"}
    MaxBlock = 4
    Deployed <- MCDeployed
    Transfers <- MCTransfers
    BlocksRange = 2
    Threshold = 1
    MaxLag = 1
    InitialHeight = 0
    MaxFaults = 1
INVARIANTS TypeOK HoldingsFresh TokensRegistered MarkedAreRegistered TotalsFollow
PROPERTY CatchesUp
