\* One replica within one day, nothing failing: fairness, the downgrade and the ledger.
CONSTANTS
    r1 = r1
    r2 = r2
    r3 = r3
    g1 = g1
    g2 = g2
    dear = dear
    cheap = cheap
    Requests <- MCRequests
    Replicas <- MCOneReplica
    Models <- MCModels
    Reservation <- MCReservation
    MaxReservation = 2
    Substitute <- MCSubstitute
    ThresholdPct = 80
    DailyBudget = 6
    MonthlyBudget = 5
    MaxCost = 3
    LastDay = 0
    MonthOf <- MCOneDay
    ReservationEnabled = TRUE
    RedisMayFail = FALSE
    ReplicasMayCrash = FALSE
SPECIFICATION FairSpec
CHECK_DEADLOCK FALSE
INVARIANTS
    BudgetRespected
PROPERTIES
    PremiumOnlyBelowThreshold
    ImplementsLedger
    HoldsReleased
