\* Two lives of the process, over two days; the store, the spool and the
\* process may fail.
CONSTANTS
    e1 = e1
    e2 = e2
    e3 = e3
    Events <- MCEvents
    MaxSize = 2
    MaxLives = 2
    StoreMayFail = TRUE
    SpoolMayFail = TRUE
    MayCrash = TRUE
    Reservation = 1
    DailyBudget = 2
    CostOf <- MCCostOf
    MaxCost = 2
    LastDay = 1
SPECIFICATION SpecBudget
CHECK_DEADLOCK FALSE
INVARIANTS
    TypeOK
    MetricsBalance
    LossBound
    StoreInLogOrder
    FallbackOvershoot
PROPERTY
    QueuedIsPersisted
