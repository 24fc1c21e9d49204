------------------------------- MODULE Budget -------------------------------
(***************************************************************************)
(* The spending counters of one user in Redis (app/budget.py, Redis mode), *)
(* shared by all gateway replicas, and the part of the two proxy handlers  *)
(* of app/main.py that reads and writes them: /v1/chat/completions         *)
(* ("chat") and /v1/messages ("messages").                                 *)
(*                                                                         *)
(* A handler is a coroutine of its replica's event loop.  It gives the     *)
(* loop up only at an await, so between its decision and the provider call *)
(* no other request of the SAME replica runs; the Redis client is          *)
(* synchronous, so each of its round trips is one atomic step, between     *)
(* which OTHER replicas run.  Money is counted in whole units.             *)
(*                                                                         *)
(* A counter lives under a key named after its day or its month.  The      *)
(* expiry of a key comes after its period is over, when nothing reads it:  *)
(* not modelled.                                                           *)
(***************************************************************************)
EXTENDS Integers, FiniteSets

CONSTANTS Requests,            \* the user's requests, each handled at most once
          Replicas,            \* gateway processes
          Models,              \* models a request may resolve to
          Reservation,         \* estimate_reservation of each model
          MaxReservation,      \* the largest of them
          Substitute,          \* budget_downgrade_model's rule; m |-> m where there is none
          ThresholdPct,        \* routing.fallback.budget_downgrade.threshold_pct, in percent
          DailyBudget,         \* defaults.daily_budget_usd_per_user
          MonthlyBudget,       \* defaults.monthly_budget_usd_per_user
          MaxCost,             \* bound: the most a provider call costs
          LastDay,             \* bound: the last day of the model
          MonthOf,             \* the month of each day
          ReservationEnabled,  \* settings.budget_reservation_enabled
          RedisMayFail,        \* may a Redis round trip raise?
          ReplicasMayCrash     \* may a gateway process die?

Days  == 0 .. LastDay
Never == -1

ASSUME BudgetAssumption ==
    /\ IsFiniteSet(Requests) /\ IsFiniteSet(Replicas)
    /\ Replicas # {}
    /\ MaxReservation \in Nat /\ MaxCost \in Nat
    /\ Reservation \in [Models -> 0 .. MaxReservation]
    /\ Substitute \in [Models -> Models]
    /\ DailyBudget \in Nat /\ MonthlyBudget \in Nat /\ ThresholdPct \in Nat
    /\ LastDay \in Nat /\ MonthOf \in [Days -> Nat]
    /\ \A d, e \in Days : d <= e => MonthOf[d] <= MonthOf[e]
    /\ {ReservationEnabled, RedisMayFail, ReplicasMayCrash} \subseteq BOOLEAN

(* _period_keys: the keys a round trip of day d reads or writes.           *)
KeysOf(d) == {<<"day", d>>, <<"month", MonthOf[d]>>}
Keys      == UNION {KeysOf(d) : d \in Days}
Limit(k)  == IF k[1] = "day" THEN DailyBudget ELSE MonthlyBudget

VARIABLES
    today,                                          \* the UTC date
    actual, reserved,                               \* the counters in Redis, by key
    pc, route, replica,                             \* where each request is
    asked,                                          \* model of the policy decision
    model,                                          \* decision.model_used
    held,                                           \* what the request added to the reserved counters
    cost,                                           \* what it added to the actual counters
    reservedOn, settledOn                           \* history: the day keys it wrote

counters == <<actual, reserved>>
request  == <<route, replica, asked, model>>
history  == <<held, cost, reservedOn, settledOn>>
vars     == <<today, counters, pc, request, history>>

(* The states in which a handler occupies its replica's event loop.        *)
OnLoop   == {"deciding", "priced", "approved", "unrouted", "settled"}
(* The states of a handler that is done: 403, 402, answered with an audit  *)
(* event, failed with a 500 and no audit event, dead with its process.     *)
Ended    == {"blocked", "refused", "answered", "error", "lost"}
InFlight == OnLoop \cup {"calling"}

Init ==
    /\ today = 0
    /\ actual = [k \in Keys |-> 0]
    /\ reserved = [k \in Keys |-> 0]
    /\ pc = [r \in Requests |-> "idle"]
    /\ route \in [Requests -> {"chat", "messages"}]
    /\ replica \in [Requests -> Replicas]
    /\ asked \in [Requests -> Models]
    /\ model = asked
    /\ held = [r \in Requests |-> 0]
    /\ cost = [r \in Requests |-> 0]
    /\ reservedOn = [r \in Requests |-> Never]
    /\ settledOn = [r \in Requests |-> Never]

LoopFree(p) == \A r \in Requests : replica[r] = p => pc[r] \notin OnLoop

To(r, s) == pc' = [pc EXCEPT ![r] = s]

(* Where a handler goes once its budget check is over: it awaits the first *)
(* configured provider; the chat loop may find none and awaits nothing.    *)
Dispatch(r) ==
    \E s \in {"calling"} \cup (IF route[r] = "chat" THEN {"unrouted"} ELSE {}) : To(r, s)

(* policy.decide blocks the request; the event is logged in the same slice. *)
Block(r) ==
    /\ pc[r] = "idle" /\ LoopFree(replica[r])
    /\ To(r, "blocked")
    /\ UNCHANGED <<today, counters, request, history>>

(* policy.decide lets the request through. *)
Admit(r) ==
    /\ pc[r] = "idle" /\ LoopFree(replica[r])
    /\ IF ReservationEnabled
       THEN To(r, IF route[r] = "chat" THEN "deciding" ELSE "priced")
       ELSE Dispatch(r)
    /\ UNCHANGED <<today, counters, request, history>>

(* budget_downgrade_model's threshold on the projected month. *)
NearBudget(projected) ==
    MonthlyBudget # 0 /\ 100 * projected >= ThresholdPct * MonthlyBudget

(* Mutant of Project: the holds of other requests are left out. *)
ProjectOnSpend(r) ==
    /\ pc[r] = "deciding"
    /\ model' = IF NearBudget(actual[<<"month", MonthOf[today]>>] + Reservation[model[r]])
                THEN [model EXCEPT ![r] = Substitute[@]]
                ELSE model
    /\ To(r, "priced")
    /\ UNCHANGED <<today, counters, route, replica, asked, history>>

(* First spend_snapshot of the chat handler, and the downgrade it leads to. *)
Project(r) ==
    /\ pc[r] = "deciding"
    /\ LET k == <<"month", MonthOf[today]>>
       IN  model' = IF NearBudget(actual[k] + reserved[k] + Reservation[model[r]])
                    THEN [model EXCEPT ![r] = Substitute[@]]
                    ELSE model
    /\ To(r, "priced")
    /\ UNCHANGED <<today, counters, route, replica, asked, history>>

(* Mutants of Affordable: one of the terms is forgotten. *)
AffordableBySpend(amount) ==
    \A k \in KeysOf(today) : actual[k] + amount <= Limit(k)

AffordableByHolds(amount) ==
    \A k \in KeysOf(today) : reserved[k] + amount <= Limit(k)

AffordableBeforehand(amount) ==
    \A k \in KeysOf(today) : actual[k] + reserved[k] <= Limit(k)

(* The test of reserve on the counters of today's keys. *)
Affordable(amount) ==
    \A k \in KeysOf(today) : actual[k] + reserved[k] + amount <= Limit(k)

(* The spend_snapshot of reserve and its verdict; a refusal is logged and  *)
(* answered with 402 in the same slice.                                    *)
Snapshot(r) ==
    /\ pc[r] = "priced"
    /\ To(r, IF Affordable(Reservation[model[r]]) THEN "approved" ELSE "refused")
    /\ UNCHANGED <<today, counters, request, history>>

(* A MULTI block adds n to the counters c of today's keys. *)
Add(c, n) == [k \in Keys |-> c[k] + IF k \in KeysOf(today) THEN n ELSE 0]

(* The increments of reserve, on the keys of the moment: midnight may have *)
(* passed since the snapshot.                                              *)
Hold(r) ==
    /\ reserved' = Add(reserved, Reservation[model[r]])
    /\ held' = [held EXCEPT ![r] = Reservation[model[r]]]
    /\ reservedOn' = [reservedOn EXCEPT ![r] = today]

Commit(r) ==
    /\ pc[r] = "approved"
    /\ Hold(r)
    /\ Dispatch(r)
    /\ UNCHANGED <<today, actual, request, cost, settledOn>>

(* Mutants of Reconcile: the reservation is taken off the wrong counter;   *)
(* a call without cost returns early.                                      *)
ReconcileNet(r, c) ==
    /\ actual' = Add(actual, c - held[r])
    /\ cost' = [cost EXCEPT ![r] = c]
    /\ settledOn' = [settledOn EXCEPT ![r] = today]
    /\ UNCHANGED reserved

ReconcileCosts(r, c) ==
    /\ reserved' = Add(reserved, IF c = 0 THEN 0 ELSE -held[r])
    /\ actual' = Add(actual, c)
    /\ cost' = [cost EXCEPT ![r] = c]
    /\ settledOn' = [settledOn EXCEPT ![r] = today]

(* reconcile, on the keys of the moment, which need not be the keys that   *)
(* hold the reservation.                                                   *)
Reconcile(r, c) ==
    /\ reserved' = Add(reserved, -held[r])
    /\ actual' = Add(actual, c)
    /\ cost' = [cost EXCEPT ![r] = c]
    /\ settledOn' = [settledOn EXCEPT ![r] = today]

(* What a call may turn out to cost: nothing when no provider answered,    *)
(* else the estimate on the usage the provider reports, however it         *)
(* compares with the reservation.                                          *)
Outcome(r, c) ==
    \/ pc[r] = "unrouted" /\ c = 0
    \/ pc[r] = "calling" /\ LoopFree(replica[r])

(* Mutant of Settle: the 502 for want of a provider returns first. *)
SettleRouted(r, c) ==
    /\ Outcome(r, c)
    /\ IF pc[r] = "unrouted" THEN UNCHANGED <<counters, cost, settledOn>> ELSE Reconcile(r, c)
    /\ To(r, "settled")
    /\ UNCHANGED <<today, request, held, reservedOn>>

Settle(r, c) ==
    /\ Outcome(r, c)
    /\ Reconcile(r, c)
    /\ To(r, "settled")
    /\ UNCHANGED <<today, request, held, reservedOn>>

(* The audit event of the answer (or of the provider error) is logged.     *)
Log(r) ==
    /\ pc[r] = "settled"
    /\ To(r, "answered")
    /\ UNCHANGED <<today, counters, request, history>>

(* /v1/messages parses the usage outside any try: a usage that is not a    *)
(* mapping of integers ends the handler before it reconciles or logs.      *)
Unparseable(r) ==
    /\ pc[r] = "calling" /\ route[r] = "messages" /\ LoopFree(replica[r])
    /\ To(r, "error")
    /\ UNCHANGED <<today, counters, request, history>>

(* A Redis round trip raises, and no handler catches it.  A write may have *)
(* been applied although its reply was lost.                               *)
ReadFails(r) ==
    /\ RedisMayFail /\ pc[r] \in {"deciding", "priced"}
    /\ To(r, "error")
    /\ UNCHANGED <<today, counters, request, history>>

CommitFails(r) ==
    /\ RedisMayFail /\ pc[r] = "approved" /\ Reservation[model[r]] > 0
    /\ Hold(r) \/ UNCHANGED <<reserved, held, reservedOn>>
    /\ To(r, "error")
    /\ UNCHANGED <<today, actual, request, cost, settledOn>>

SettleFails(r, c) ==
    /\ RedisMayFail /\ Outcome(r, c) /\ (held[r] > 0 \/ c > 0)
    /\ Reconcile(r, c) \/ UNCHANGED <<counters, cost, settledOn>>
    /\ To(r, "error")
    /\ UNCHANGED <<today, request, held, reservedOn>>

(* A gateway process dies with the handlers it runs and starts again.      *)
Crash(p) ==
    /\ ReplicasMayCrash
    /\ \E r \in Requests : replica[r] = p /\ pc[r] \in InFlight
    /\ pc' = [r \in Requests |-> IF replica[r] = p /\ pc[r] \in InFlight
                                 THEN "lost" ELSE pc[r]]
    /\ UNCHANGED <<today, counters, request, history>>

(* Midnight, at any moment. *)
Tick ==
    /\ today < LastDay
    /\ today' = today + 1
    /\ UNCHANGED <<counters, pc, request, history>>

Arrive(r) == Block(r) \/ Admit(r)

Proceed(r) ==
    \/ Project(r) \/ Snapshot(r) \/ Commit(r)
    \/ \E c \in 0 .. MaxCost : Settle(r, c) \/ SettleFails(r, c)
    \/ Log(r) \/ Unparseable(r)
    \/ ReadFails(r) \/ CommitFails(r)

Next ==
    \/ \E r \in Requests : Arrive(r) \/ Proceed(r)
    \/ \E p \in Replicas : Crash(p)
    \/ Tick

Spec == Init /\ [][Next]_vars

(* The event loop keeps running its ready coroutines, and a provider call  *)
(* ends: the HTTP client has a 120 s timeout.                              *)
FairSpec == Spec /\ \A r \in Requests : WF_vars(Proceed(r))

-----------------------------------------------------------------------------
(* Type correctness of the counters and of every handler; the sum charged  *)
(* to a user never falls below zero.                                       *)
TypeOK ==
    /\ today \in Days
    /\ actual \in [Keys -> Nat]     \* reserved may fall below 0 after midnight
    /\ reserved \in [Keys -> Int]
    /\ pc \in [Requests -> {"idle", "calling"} \cup OnLoop \cup Ended]
    /\ route \in [Requests -> {"chat", "messages"}]
    /\ replica \in [Requests -> Replicas]
    /\ asked \in [Requests -> Models]
    /\ model \in [Requests -> Models]
    /\ held \in [Requests -> 0 .. MaxReservation]
    /\ cost \in [Requests -> 0 .. MaxCost]
    /\ reservedOn \in [Requests -> Days \cup {Never}]
    /\ settledOn \in [Requests -> Days \cup {Never}]

(* The units of money of a set of requests, as pairs <<request, unit>>:    *)
(* their number is a sum of amounts.                                       *)
HeldUnits(k) ==
    {x \in Requests \X (1 .. MaxReservation) :
        reservedOn[x[1]] \in Days /\ k \in KeysOf(reservedOn[x[1]]) /\ x[2] <= held[x[1]]}
SettledIn(r, k) == settledOn[r] \in Days /\ k \in KeysOf(settledOn[r])
ReleasedUnits(k) ==
    {x \in Requests \X (1 .. MaxReservation) : SettledIn(x[1], k) /\ x[2] <= held[x[1]]}
SpentUnits(k) ==
    {x \in Requests \X (1 .. MaxCost) : SettledIn(x[1], k) /\ x[2] <= cost[x[1]]}
(* What calls settled under k cost beyond their reservation. *)
ExcessUnits(k) ==
    {x \in SpentUnits(k) : x[2] > held[x[1]]}
(* What was released under k but reserved under another key. *)
MisfiledUnits(k) == ReleasedUnits(k) \ HeldUnits(k)

(* Every counter is what the requests that reached Redis account for: no   *)
(* crash, lost reply, refusal, failed call or midnight makes budget.py add *)
(* or release an amount twice, or release one that was never added.        *)
CountersExplained ==
    \A k \in Keys :
        /\ reserved[k] = Cardinality(HeldUnits(k)) - Cardinality(ReleasedUnits(k))
        /\ actual[k] = Cardinality(SpentUnits(k))

(* reserve checks and then adds, so replicas overshoot; this is by how     *)
(* much: one reservation for every other replica.  Beyond that a budget is *)
(* exceeded only by calls that cost more than they reserved.               *)
Ceiling(k) ==
    (IF Limit(k) >= MaxReservation THEN Limit(k) ELSE MaxReservation)
        + (Cardinality(Replicas) - 1) * MaxReservation

OvershootBound ==
    \A k \in Keys :
        actual[k] + reserved[k] <= Ceiling(k) + Cardinality(ExcessUnits(k))

(* So what a user really spends in a period is bounded too, except that    *)
(* reconcile releases a reservation of yesterday from today's counter and  *)
(* so makes room for as much again.                                        *)
SpendBound ==
    \A k \in Keys :
        actual[k] <= Ceiling(k) + Cardinality(ExcessUnits(k)) + Cardinality(MisfiledUnits(k))

(* policy.yaml's budget taken at its word: no day or month is charged and  *)
(* reserved beyond it, except for calls dearer than their reservation.     *)
BudgetRespected ==
    \A k \in Keys : actual[k] + reserved[k] <= Limit(k) + Cardinality(ExcessUnits(k))

(* "This prevents users near budget limits from consuming premium models   *)
(* when policy defines a lower-cost substitute" (main.py): no chat request *)
(* reserves for the model it was decided on, if that has a substitute,     *)
(* while the month is past the threshold.                                  *)
PremiumReserved(r) ==
    /\ route[r] = "chat" /\ model[r] = asked[r] /\ Substitute[asked[r]] # asked[r]
    /\ reservedOn[r] = Never /\ reservedOn'[r] # Never

ProjectedMonth(r) ==
    LET k == <<"month", MonthOf[today]>>
    IN  actual[k] + reserved[k] + Reservation[model[r]]

PremiumOnlyBelowThreshold ==
    [][\A r \in Requests : PremiumReserved(r) => ~NearBudget(ProjectedMonth(r))]_vars

(* Every hold is released again, unless the usage of a /v1/messages answer *)
(* does not parse (Redis and the replicas staying up).                     *)
HoldsReleased ==
    \A r \in Requests :
        reservedOn[r] # Never ~>
            settledOn[r] # Never \/ (route[r] = "messages" /\ pc[r] = "error")

(* On one replica and within one day the two steps of reserve are as good  *)
(* as one, and the counters as good as the true sums: the handlers         *)
(* implement the ledger.                                                   *)
Ledger == INSTANCE BudgetLedger WITH
    Allowance <- IF DailyBudget <= MonthlyBudget THEN DailyBudget ELSE MonthlyBudget,
    spent  <- actual[<<"day", 0>>],
    amount <- held,
    state  <- [r \in Requests |->
                  IF settledOn[r] # Never THEN "charged"
                  ELSE IF reservedOn[r] # Never THEN "reserved" ELSE "new"]

ImplementsLedger == Ledger!Spec

=============================================================================
