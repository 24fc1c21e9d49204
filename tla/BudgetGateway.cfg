\* Two replicas, a midnight, Redis failures and crashes; one model, so no downgrade.
CONSTANTS
    r1 = r1
    r2 = r2
    r3 = r3
    g1 = g1
    g2 = g2
    dear = dear
    cheap = cheap
    Requests <- MCRequests
    Replicas <- MCReplicas
    Models <- MCOneModel
    Reservation <- MCDearPrice
    MaxReservation = 2
    Substitute <- MCItself
    ThresholdPct = 80
    DailyBudget = 2
    MonthlyBudget = 3
    MaxCost = 3
    LastDay = 1
    MonthOf <- MCTwoDays
    ReservationEnabled = TRUE
    RedisMayFail = TRUE
    ReplicasMayCrash = TRUE
SPECIFICATION Spec
SYMMETRY MCSymmetry
CHECK_DEADLOCK FALSE
INVARIANTS
    TypeOK
    CountersExplained
    OvershootBound
    SpendBound
