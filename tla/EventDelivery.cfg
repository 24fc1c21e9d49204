\* Failing writes and flushes; one process at a time, or any interleaving.
CONSTANTS
    e1 = e1
    e2 = e2
    e3 = e3
    f1 = f1
    f2 = f2
    Events <- MCEvents
    Flushers <- MCFlushers
    BatchSize = 2
    MaxFileLines = 1
    MaxFaults = 1
    WritesMayFail = TRUE
SPECIFICATION FairSpec
CHECK_DEADLOCK FALSE
INVARIANTS
    TypeOK
    DeliveredBeforeUnlink
    DurableAlone
    RedeliveredByFailures
PROPERTY
    BufferedIsDelivered
