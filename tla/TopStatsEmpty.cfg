\* What the transaction is for: readers never find a list that was stored empty.
SPECIFICATION FairSpec
CONSTANTS
    Loops = {l1}
    PoolSize = 2
    MaxBlock = 2
    MaxUpdate = 2
    MaxFaults = 0
PROPERTY TopAlwaysThere
CHECK_DEADLOCK FALSE
