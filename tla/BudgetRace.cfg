\* Two replicas within one day, nothing failing.
CONSTANTS
    r1 = r1
    r2 = r2
    r3 = r3
    g1 = g1
    g2 = g2
    dear = dear
    cheap = cheap
    Requests <- MCTwoRequests
    Replicas <- MCReplicas
    Models <- MCModels
    Reservation <- MCReservation
    MaxReservation = 2
    Substitute <- MCSubstitute
    ThresholdPct = 80
    DailyBudget = 2
    MonthlyBudget = 3
    MaxCost = 3
    LastDay = 0
    MonthOf <- MCOneDay
    ReservationEnabled = TRUE
    RedisMayFail = FALSE
    ReplicasMayCrash = FALSE
SPECIFICATION Spec
CHECK_DEADLOCK FALSE
INVARIANT
    BudgetRespected
