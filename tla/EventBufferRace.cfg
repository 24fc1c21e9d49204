\* An append and a flush on the same buffer, nothing failing.
CONSTANTS
    e1 = e1
    e2 = e2
    e3 = e3
    f1 = f1
    f2 = f2
    Events <- MCTwoEvents
    Flushers <- MCFlushers
    BatchSize = 2
    MaxFileLines = 1
    MaxFaults = 0
    WritesMayFail = FALSE
SPECIFICATION FairSpec
CHECK_DEADLOCK FALSE
INVARIANT
    NoEventLost
