\* Nothing fails: one process serves and is shut down.
CONSTANTS
    e1 = e1
    e2 = e2
    e3 = e3
    e4 = e4
    Events <- MCEvents
    MaxSize = 2
    MaxLives = 1
    StoreMayFail = FALSE
    SpoolMayFail = FALSE
    MayCrash = FALSE
SPECIFICATION FairSpec
CHECK_DEADLOCK FALSE
INVARIANT
    ShutdownKeepsEvents
