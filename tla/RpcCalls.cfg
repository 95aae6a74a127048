\* Two urls or one of them, three calls at a time, answers fast and slow.
SPECIFICATION FairSpec
CONSTANTS
    Urls = {u1, u2}
    Calls = {c1, c2, c3}
    OkTimes = {100, 4000}
    MaxFaults = 2
INVARIANTS TypeOK LoadExact EveryUrlTried
PROPERTY CallsEnd
\* Every call is over.
CHECK_DEADLOCK FALSE
