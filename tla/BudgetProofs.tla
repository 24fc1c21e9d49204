---------------------------- MODULE BudgetProofs ----------------------------
(***************************************************************************)
(* Budget's invariants, proved for any number of requests, replicas,       *)
(* models and days, any prices and budgets, with or without failures.      *)
(*                                                                         *)
(* Sums of money are cardinalities of sets of units (see Budget), so that  *)
(* a step that adds an amount adds the units of one request: AddUnits.     *)
(***************************************************************************)
EXTENDS Budget, FiniteSetTheorems, TLAPS

USE BudgetAssumption

-----------------------------------------------------------------------------
(* Type correctness. *)

LEMMA AddType ==
    ASSUME NEW c \in [Keys -> Int], NEW n \in Int
    PROVE  Add(c, n) \in [Keys -> Int]
BY DEF Add

LEMMA AddNatType ==
    ASSUME NEW c \in [Keys -> Nat], NEW n \in Nat
    PROVE  Add(c, n) \in [Keys -> Nat]
BY DEF Add

LEMMA KeysOfToday ==
    ASSUME today \in Days
    PROVE  KeysOf(today) \subseteq Keys
BY DEF Keys

LEMMA TypeInit == Init => TypeOK
BY DEF Init, TypeOK, OnLoop, Ended, Days

LEMMA TypeStep == TypeOK /\ [Next]_vars => TypeOK'
<1> SUFFICES ASSUME TypeOK, [Next]_vars PROVE TypeOK'
    OBVIOUS
<1> USE DEF TypeOK, OnLoop, Ended, To, counters, request, history
<1>1. ASSUME NEW r \in Requests, Block(r) PROVE TypeOK'
    BY <1>1 DEF Block
<1>2. ASSUME NEW r \in Requests, Admit(r) PROVE TypeOK'
    BY <1>2 DEF Admit, Dispatch
<1>3. ASSUME NEW r \in Requests, Project(r) PROVE TypeOK'
    <2>1. model' \in [Requests -> Models]
        BY <1>3 DEF Project
    <2> QED BY <1>3, <2>1 DEF Project
<1>4. ASSUME NEW r \in Requests, Snapshot(r) PROVE TypeOK'
    BY <1>4 DEF Snapshot
<1>5. ASSUME NEW r \in Requests, Hold(r)
      PROVE  /\ reserved' \in [Keys -> Int]
             /\ held' \in [Requests -> 0 .. MaxReservation]
             /\ reservedOn' \in [Requests -> Days \cup {Never}]
    <2>1. Reservation[model[r]] \in 0 .. MaxReservation /\ Reservation[model[r]] \in Int
        OBVIOUS
    <2> QED BY <1>5, <2>1, AddType DEF Hold
<1>6. ASSUME NEW r \in Requests, NEW c \in 0 .. MaxCost, Reconcile(r, c)
      PROVE  /\ reserved' \in [Keys -> Int] /\ actual' \in [Keys -> Nat]
             /\ cost' \in [Requests -> 0 .. MaxCost]
             /\ settledOn' \in [Requests -> Days \cup {Never}]
    <2>1. -held[r] \in Int /\ c \in Nat
        OBVIOUS
    <2> QED BY <1>6, <2>1, AddType, AddNatType DEF Reconcile
<1>7. ASSUME NEW r \in Requests, Commit(r) PROVE TypeOK'
    BY <1>7, <1>5 DEF Commit, Dispatch
<1>8. ASSUME NEW r \in Requests, CommitFails(r) PROVE TypeOK'
    BY <1>8, <1>5 DEF CommitFails
<1>9. ASSUME NEW r \in Requests, NEW c \in 0 .. MaxCost, Settle(r, c) PROVE TypeOK'
    BY <1>9, <1>6 DEF Settle
<1>10. ASSUME NEW r \in Requests, NEW c \in 0 .. MaxCost, SettleFails(r, c) PROVE TypeOK'
    BY <1>10, <1>6 DEF SettleFails
<1>11. ASSUME NEW r \in Requests, Log(r) \/ Unparseable(r) \/ ReadFails(r) PROVE TypeOK'
    BY <1>11 DEF Log, Unparseable, ReadFails
<1>12. ASSUME NEW p \in Replicas, Crash(p) PROVE TypeOK'
    BY <1>12 DEF Crash
<1>13. CASE Tick
    BY <1>13 DEF Tick, Days
<1>14. CASE UNCHANGED vars
    BY <1>14 DEF vars
<1> QED
    BY <1>1, <1>2, <1>3, <1>4, <1>7, <1>8, <1>9, <1>10, <1>11, <1>12, <1>13, <1>14
       DEF Next, Arrive, Proceed

(* Every reachable state is well typed: no step of a handler or of Redis   *)
(* takes a counter, a program counter or a history out of its range.       *)
THEOREM TypeCorrect == Spec => []TypeOK
BY TypeInit, TypeStep, PTL DEF Spec

-----------------------------------------------------------------------------
(* Sums of money. *)

(* The units a+1 .. b of one request. *)
Slice(r, a, b) == {r} \X (a + 1 .. b)

LEMMA SliceSize ==
    ASSUME NEW r, NEW a \in Nat, NEW b \in Nat
    PROVE  /\ IsFiniteSet(Slice(r, a, b))
           /\ Cardinality(Slice(r, a, b)) = IF b >= a THEN b - a ELSE 0
<1>1. IsFiniteSet(a + 1 .. b) /\ Cardinality(a + 1 .. b) = IF a + 1 > b THEN 0 ELSE b - (a + 1) + 1
    BY FS_Interval
<1>2. IsFiniteSet({r}) /\ Cardinality({r}) = 1
    BY FS_Singleton
<1>3. /\ IsFiniteSet({r} \X (a + 1 .. b))
      /\ Cardinality({r} \X (a + 1 .. b)) = 1 * Cardinality(a + 1 .. b)
    BY <1>1, <1>2, FS_Product
<1> QED BY <1>1, <1>3 DEF Slice

(* Adding the units of a request that had none of them adds their number.  *)
LEMMA AddUnits ==
    ASSUME NEW S, IsFiniteSet(S), NEW r, NEW a \in Nat, NEW b \in Nat,
           S \cap Slice(r, a, b) = {}
    PROVE  Cardinality(S \cup Slice(r, a, b)) =
               Cardinality(S) + IF b >= a THEN b - a ELSE 0
<1>1. Cardinality({}) = 0
    BY FS_EmptySet
<1>2. Cardinality(S) \in Nat
    BY FS_CardinalityType
<1> QED BY <1>1, <1>2, SliceSize, FS_Union

LEMMA UnitsFinite ==
    ASSUME NEW k
    PROVE  /\ IsFiniteSet(HeldUnits(k)) /\ IsFiniteSet(ReleasedUnits(k))
           /\ IsFiniteSet(SpentUnits(k)) /\ IsFiniteSet(ExcessUnits(k))
           /\ IsFiniteSet(MisfiledUnits(k))
<1>1. IsFiniteSet(1 .. MaxReservation) /\ IsFiniteSet(1 .. MaxCost)
    BY FS_Interval
<1>2. IsFiniteSet(Requests \X (1 .. MaxReservation)) /\ IsFiniteSet(Requests \X (1 .. MaxCost))
    BY <1>1, FS_Product
<1>3. /\ HeldUnits(k) \in SUBSET (Requests \X (1 .. MaxReservation))
      /\ ReleasedUnits(k) \in SUBSET (Requests \X (1 .. MaxReservation))
      /\ MisfiledUnits(k) \in SUBSET (Requests \X (1 .. MaxReservation))
      /\ SpentUnits(k) \in SUBSET (Requests \X (1 .. MaxCost))
      /\ ExcessUnits(k) \in SUBSET (Requests \X (1 .. MaxCost))
    BY DEF HeldUnits, ReleasedUnits, MisfiledUnits, SpentUnits, ExcessUnits
<1> QED BY <1>2, <1>3, FS_Subset

LEMMA UnitsFinitePrime ==
    ASSUME NEW k
    PROVE  IsFiniteSet(ExcessUnits(k)')
<1>1. IsFiniteSet(1 .. MaxCost)
    BY FS_Interval
<1>2. IsFiniteSet(Requests \X (1 .. MaxCost))
    BY <1>1, FS_Product
<1>3. ExcessUnits(k)' \in SUBSET (Requests \X (1 .. MaxCost))
    BY DEF ExcessUnits, SpentUnits
<1> QED BY <1>2, <1>3, FS_Subset

-----------------------------------------------------------------------------
(* Every counter is explained by the requests that reached Redis. *)

(* What the program counter says of the history: nothing is reserved       *)
(* before the commit, nothing charged before the settlement.               *)
HistoryInv ==
    \A r \in Requests :
        /\ reservedOn[r] = Never => held[r] = 0
        /\ pc[r] \in {"idle", "deciding", "priced", "approved"} => reservedOn[r] = Never
        /\ pc[r] \in {"idle", "deciding", "priced", "approved", "calling", "unrouted"} =>
               settledOn[r] = Never
        /\ settledOn[r] = Never => cost[r] = 0

LEMMA HistoryInit == Init => HistoryInv
BY DEF Init, HistoryInv

LEMMA HistoryStep == TypeOK /\ HistoryInv /\ [Next]_vars => HistoryInv'
<1> SUFFICES ASSUME TypeOK, HistoryInv, [Next]_vars PROVE HistoryInv'
    OBVIOUS
<1> USE DEF HistoryInv, TypeOK, To, request, history, counters
<1>1. Never \notin Days
    BY DEF Never, Days
<1>2. ASSUME NEW r \in Requests, Arrive(r) PROVE HistoryInv'
    BY <1>2 DEF Arrive, Block, Admit, Dispatch
<1>3. ASSUME NEW r \in Requests, Project(r) \/ Snapshot(r) PROVE HistoryInv'
    BY <1>3 DEF Project, Snapshot
<1>4. ASSUME NEW r \in Requests, Commit(r) \/ CommitFails(r) PROVE HistoryInv'
    BY <1>1, <1>4 DEF Commit, CommitFails, Dispatch, Hold
<1>5. ASSUME NEW r \in Requests, NEW c \in 0 .. MaxCost, Settle(r, c) \/ SettleFails(r, c)
      PROVE  HistoryInv'
    BY <1>1, <1>5 DEF Settle, SettleFails, Reconcile, Outcome
<1>6. ASSUME NEW r \in Requests, Log(r) \/ Unparseable(r) \/ ReadFails(r) PROVE HistoryInv'
    BY <1>6 DEF Log, Unparseable, ReadFails
<1>7. ASSUME NEW p \in Replicas, Crash(p) PROVE HistoryInv'
    BY <1>7 DEF Crash
<1>8. CASE Tick \/ UNCHANGED vars
    BY <1>8 DEF Tick, vars
<1> QED
    BY <1>2, <1>3, <1>4, <1>5, <1>6, <1>7, <1>8 DEF Next, Proceed

(* The commit of a reservation adds its units under today's keys ...       *)
LEMMA HoldUnits ==
    ASSUME TypeOK, NEW r \in Requests, Hold(r), UNCHANGED <<cost, settledOn>>,
           reservedOn[r] = Never, settledOn[r] = Never, NEW k \in Keys
    PROVE  /\ HeldUnits(k)' = HeldUnits(k) \cup
                  (IF k \in KeysOf(today) THEN Slice(r, 0, Reservation[model[r]]) ELSE {})
           /\ HeldUnits(k) \cap Slice(r, 0, Reservation[model[r]]) = {}
           /\ ReleasedUnits(k)' = ReleasedUnits(k)
           /\ SpentUnits(k)' = SpentUnits(k)
           /\ ExcessUnits(k)' = ExcessUnits(k)
<1> USE DEF TypeOK
<1>1. Never \notin Days
    BY DEF Never, Days
<1>2. Reservation[model[r]] \in 0 .. MaxReservation
    OBVIOUS
<1>3. HeldUnits(k)' = HeldUnits(k) \cup
         (IF k \in KeysOf(today) THEN Slice(r, 0, Reservation[model[r]]) ELSE {})
    BY <1>1, <1>2 DEF HeldUnits, Hold, Slice
<1>4. HeldUnits(k) \cap Slice(r, 0, Reservation[model[r]]) = {}
    BY <1>1 DEF HeldUnits, Slice
<1>5. ReleasedUnits(k)' = ReleasedUnits(k) /\ SpentUnits(k)' = SpentUnits(k)
    BY <1>1 DEF ReleasedUnits, SpentUnits, SettledIn, Hold
<1>6. ExcessUnits(k)' = ExcessUnits(k)
    BY <1>1 DEF ExcessUnits, SpentUnits, SettledIn, Hold
<1> QED BY <1>3, <1>4, <1>5, <1>6

(* ... and a reconciliation releases them, and adds the units of the cost, *)
(* under what are today's keys then.                                       *)
LEMMA ReconcileUnits ==
    ASSUME TypeOK, NEW r \in Requests, NEW c \in 0 .. MaxCost, Reconcile(r, c),
           UNCHANGED <<held, reservedOn>>, settledOn[r] = Never, NEW k \in Keys
    PROVE  /\ HeldUnits(k)' = HeldUnits(k)
           /\ ReleasedUnits(k)' = ReleasedUnits(k) \cup
                  (IF k \in KeysOf(today) THEN Slice(r, 0, held[r]) ELSE {})
           /\ ReleasedUnits(k) \cap Slice(r, 0, held[r]) = {}
           /\ SpentUnits(k)' = SpentUnits(k) \cup
                  (IF k \in KeysOf(today) THEN Slice(r, 0, c) ELSE {})
           /\ SpentUnits(k) \cap Slice(r, 0, c) = {}
           /\ ExcessUnits(k)' = ExcessUnits(k) \cup
                  (IF k \in KeysOf(today) THEN Slice(r, held[r], c) ELSE {})
           /\ ExcessUnits(k) \cap Slice(r, held[r], c) = {}
<1> USE DEF TypeOK
<1>1. Never \notin Days
    BY DEF Never, Days
<1>2. HeldUnits(k)' = HeldUnits(k)
    BY DEF HeldUnits
<1>3. ReleasedUnits(k)' = ReleasedUnits(k) \cup
         (IF k \in KeysOf(today) THEN Slice(r, 0, held[r]) ELSE {})
    BY <1>1 DEF ReleasedUnits, SettledIn, Reconcile, Slice
<1>4. SpentUnits(k)' = SpentUnits(k) \cup
         (IF k \in KeysOf(today) THEN Slice(r, 0, c) ELSE {})
    BY <1>1 DEF SpentUnits, SettledIn, Reconcile, Slice
<1>5. ExcessUnits(k)' = ExcessUnits(k) \cup
         (IF k \in KeysOf(today) THEN Slice(r, held[r], c) ELSE {})
    BY <1>1 DEF ExcessUnits, SpentUnits, SettledIn, Reconcile, Slice
<1>6. /\ ReleasedUnits(k) \cap Slice(r, 0, held[r]) = {}
      /\ SpentUnits(k) \cap Slice(r, 0, c) = {}
      /\ ExcessUnits(k) \cap Slice(r, held[r], c) = {}
    BY <1>1 DEF ReleasedUnits, ExcessUnits, SpentUnits, SettledIn, Slice
<1> QED BY <1>2, <1>3, <1>4, <1>5, <1>6

LEMMA SameUnits ==
    ASSUME UNCHANGED history, NEW k
    PROVE  /\ HeldUnits(k)' = HeldUnits(k) /\ ReleasedUnits(k)' = ReleasedUnits(k)
           /\ SpentUnits(k)' = SpentUnits(k) /\ ExcessUnits(k)' = ExcessUnits(k)
BY DEF history, HeldUnits, ReleasedUnits, SpentUnits, ExcessUnits, SettledIn

LEMMA SumsInNat ==
    ASSUME NEW k
    PROVE  /\ Cardinality(HeldUnits(k)) \in Nat /\ Cardinality(ReleasedUnits(k)) \in Nat
           /\ Cardinality(SpentUnits(k)) \in Nat /\ Cardinality(ExcessUnits(k)) \in Nat
           /\ Cardinality(MisfiledUnits(k)) \in Nat
BY UnitsFinite, FS_CardinalityType

LEMMA ExplainedInit == Init => CountersExplained
<1> SUFFICES ASSUME Init, NEW k \in Keys
             PROVE  /\ reserved[k] = Cardinality(HeldUnits(k)) - Cardinality(ReleasedUnits(k))
                    /\ actual[k] = Cardinality(SpentUnits(k))
    BY DEF CountersExplained
<1>1. HeldUnits(k) = {} /\ ReleasedUnits(k) = {} /\ SpentUnits(k) = {}
    BY DEF Init, HeldUnits, ReleasedUnits, SpentUnits, SettledIn, Never, Days
<1> QED BY <1>1, FS_EmptySet DEF Init

LEMMA ExplainedHold ==
    ASSUME TypeOK, CountersExplained, NEW r \in Requests, Hold(r),
           UNCHANGED <<actual, cost, settledOn>>, reservedOn[r] = Never, settledOn[r] = Never
    PROVE  CountersExplained'
<1> SUFFICES ASSUME NEW k \in Keys
             PROVE  (/\ reserved[k] = Cardinality(HeldUnits(k)) - Cardinality(ReleasedUnits(k))
                     /\ actual[k] = Cardinality(SpentUnits(k)))'
    BY DEF CountersExplained
<1> DEFINE amount == Reservation[model[r]]
<1>1. amount \in Nat
    BY DEF TypeOK
<1>2. reserved'[k] = reserved[k] + IF k \in KeysOf(today) THEN amount ELSE 0
    BY DEF Hold, Add
<1>3. Cardinality(HeldUnits(k)') =
          Cardinality(HeldUnits(k)) + IF k \in KeysOf(today) THEN amount ELSE 0
    <2>1. CASE k \in KeysOf(today)
        <3>1. HeldUnits(k)' = HeldUnits(k) \cup Slice(r, 0, amount)
              /\ HeldUnits(k) \cap Slice(r, 0, amount) = {}
            BY <2>1, HoldUnits
        <3>2. Cardinality(HeldUnits(k) \cup Slice(r, 0, amount)) =
                  Cardinality(HeldUnits(k)) + amount
            BY <3>1, <1>1, AddUnits, UnitsFinite, SumsInNat
        <3> QED BY <3>1, <3>2, <2>1
    <2>2. CASE k \notin KeysOf(today)
        BY <2>2, HoldUnits, SumsInNat
    <2> QED BY <2>1, <2>2
<1>4. ReleasedUnits(k)' = ReleasedUnits(k) /\ SpentUnits(k)' = SpentUnits(k)
    BY HoldUnits
<1>5. reserved[k] \in Int
    BY DEF TypeOK
<1> HIDE DEF amount
<1> QED BY <1>1, <1>2, <1>3, <1>4, <1>5, SumsInNat DEF CountersExplained

LEMMA ExplainedReconcile ==
    ASSUME TypeOK, CountersExplained, NEW r \in Requests, NEW c \in 0 .. MaxCost,
           Reconcile(r, c), UNCHANGED <<held, reservedOn>>, settledOn[r] = Never
    PROVE  CountersExplained'
<1> SUFFICES ASSUME NEW k \in Keys
             PROVE  (/\ reserved[k] = Cardinality(HeldUnits(k)) - Cardinality(ReleasedUnits(k))
                     /\ actual[k] = Cardinality(SpentUnits(k)))'
    BY DEF CountersExplained
<1> DEFINE h == held[r]
<1>1. h \in Nat /\ c \in Nat /\ reserved[k] \in Int /\ actual[k] \in Int
    BY DEF TypeOK
<1>2. /\ reserved'[k] = reserved[k] + IF k \in KeysOf(today) THEN -h ELSE 0
      /\ actual'[k] = actual[k] + IF k \in KeysOf(today) THEN c ELSE 0
    BY DEF Reconcile, Add
<1>3. /\ Cardinality(ReleasedUnits(k)') =
              Cardinality(ReleasedUnits(k)) + IF k \in KeysOf(today) THEN h ELSE 0
      /\ Cardinality(SpentUnits(k)') =
              Cardinality(SpentUnits(k)) + IF k \in KeysOf(today) THEN c ELSE 0
    <2>1. CASE k \in KeysOf(today)
        <3>1. /\ ReleasedUnits(k)' = ReleasedUnits(k) \cup Slice(r, 0, h)
              /\ ReleasedUnits(k) \cap Slice(r, 0, h) = {}
              /\ SpentUnits(k)' = SpentUnits(k) \cup Slice(r, 0, c)
              /\ SpentUnits(k) \cap Slice(r, 0, c) = {}
            BY <2>1, ReconcileUnits
        <3>2. Cardinality(ReleasedUnits(k) \cup Slice(r, 0, h)) =
                  Cardinality(ReleasedUnits(k)) + h
            BY <3>1, <1>1, AddUnits, UnitsFinite, SumsInNat
        <3>3. Cardinality(SpentUnits(k) \cup Slice(r, 0, c)) = Cardinality(SpentUnits(k)) + c
            BY <3>1, <1>1, AddUnits, UnitsFinite, SumsInNat
        <3> QED BY <3>1, <3>2, <3>3, <2>1
    <2>2. CASE k \notin KeysOf(today)
        <3>1. ReleasedUnits(k)' = ReleasedUnits(k) /\ SpentUnits(k)' = SpentUnits(k)
            BY <2>2, ReconcileUnits
        <3> QED BY <3>1, <2>2, SumsInNat
    <2> QED BY <2>1, <2>2
<1>4. HeldUnits(k)' = HeldUnits(k)
    BY ReconcileUnits
<1> HIDE DEF h
<1> QED BY <1>1, <1>2, <1>3, <1>4, SumsInNat DEF CountersExplained

LEMMA ExplainedSame ==
    ASSUME CountersExplained, UNCHANGED <<counters, history>>
    PROVE  CountersExplained'
BY SameUnits DEF CountersExplained, counters

LEMMA ExplainedStep ==
    TypeOK /\ HistoryInv /\ CountersExplained /\ [Next]_vars => CountersExplained'
<1> SUFFICES ASSUME TypeOK, HistoryInv, CountersExplained, [Next]_vars
             PROVE  CountersExplained'
    OBVIOUS
<1>1. ASSUME NEW r \in Requests, Commit(r) \/ CommitFails(r) PROVE CountersExplained'
    <2>1. reservedOn[r] = Never /\ settledOn[r] = Never
        BY <1>1 DEF Commit, CommitFails, HistoryInv
    <2>2. CASE Hold(r)
        BY <1>1, <2>1, <2>2, ExplainedHold DEF Commit, CommitFails
    <2>3. CASE UNCHANGED <<reserved, held, reservedOn>>
        BY <1>1, <2>3, ExplainedSame DEF Commit, CommitFails, counters, history
    <2> QED BY <1>1, <2>2, <2>3 DEF Commit, CommitFails
<1>2. ASSUME NEW r \in Requests, NEW c \in 0 .. MaxCost, Settle(r, c) \/ SettleFails(r, c)
      PROVE  CountersExplained'
    <2>1. settledOn[r] = Never
        BY <1>2 DEF Settle, SettleFails, Outcome, HistoryInv
    <2>2. CASE Reconcile(r, c)
        BY <1>2, <2>1, <2>2, ExplainedReconcile DEF Settle, SettleFails
    <2>3. CASE UNCHANGED <<counters, cost, settledOn>>
        BY <1>2, <2>3, ExplainedSame DEF Settle, SettleFails, counters, history
    <2> QED BY <1>2, <2>2, <2>3 DEF Settle, SettleFails
<1>3. ASSUME NEW r \in Requests,
             \/ Arrive(r) \/ Project(r) \/ Snapshot(r)
             \/ Log(r) \/ Unparseable(r) \/ ReadFails(r)
      PROVE  CountersExplained'
    BY <1>3, ExplainedSame
       DEF Arrive, Block, Admit, Project, Snapshot, Log, Unparseable, ReadFails
<1>4. ASSUME NEW p \in Replicas, Crash(p) PROVE CountersExplained'
    BY <1>4, ExplainedSame DEF Crash
<1>5. CASE Tick \/ UNCHANGED vars
    BY <1>5, ExplainedSame DEF Tick, vars
<1> QED BY <1>1, <1>2, <1>3, <1>4, <1>5 DEF Next, Proceed

(* For every period, the reserved counter is the sum of the reservations   *)
(* made in it minus the sum of those released in it, and the actual        *)
(* counter the sum of the costs charged in it, whatever fails.             *)
THEOREM CountersAlwaysExplained == Spec => []CountersExplained
<1>1. Init => TypeOK /\ HistoryInv /\ CountersExplained
    BY TypeInit, HistoryInit, ExplainedInit
<1>2. TypeOK /\ HistoryInv /\ CountersExplained /\ [Next]_vars
          => (TypeOK /\ HistoryInv /\ CountersExplained)'
    BY TypeStep, HistoryStep, ExplainedStep
<1> QED BY <1>1, <1>2, PTL DEF Spec

-----------------------------------------------------------------------------
(* The overshoot of the budget is bounded. *)

(* The event loop is held by one handler of a replica at a time. *)
OneHolder ==
    \A r, s \in Requests :
        replica[r] = replica[s] /\ pc[r] \in OnLoop /\ pc[s] \in OnLoop => r = s

(* What has passed the test of reserve and is not in the counters yet, as  *)
(* units of the replicas that are about to add it.                         *)
PendingUnits ==
    {x \in Replicas \X (1 .. MaxReservation) :
        \E r \in Requests :
            replica[r] = x[1] /\ pc[r] = "approved" /\ x[2] <= Reservation[model[r]]}

(* A key whose period has not begun is untouched. *)
Fresh ==
    \A k \in Keys : (\A d \in 0 .. today : k \notin KeysOf(d)) => actual[k] = 0 /\ reserved[k] = 0

(* The bound of the current keys has room for what is pending. *)
PendingBound ==
    \A k \in KeysOf(today) :
        actual[k] + reserved[k] + Cardinality(PendingUnits)
            <= Ceiling(k) + Cardinality(ExcessUnits(k))

OvershootInv == OneHolder /\ Fresh /\ PendingBound /\ OvershootBound

LEMMA OneHolderStep == TypeOK /\ OneHolder /\ [Next]_vars => OneHolder'
<1> SUFFICES ASSUME TypeOK, OneHolder, [Next]_vars PROVE OneHolder'
    OBVIOUS
<1> USE DEF TypeOK, OneHolder, OnLoop, To, LoopFree, request
<1>1. ASSUME NEW r \in Requests, Arrive(r) PROVE OneHolder'
    BY <1>1 DEF Arrive, Block, Admit, Dispatch
<1>2. ASSUME NEW r \in Requests, Project(r) \/ Snapshot(r) PROVE OneHolder'
    BY <1>2 DEF Project, Snapshot
<1>3. ASSUME NEW r \in Requests, Commit(r) \/ CommitFails(r) PROVE OneHolder'
    BY <1>3 DEF Commit, CommitFails, Dispatch
<1>4. ASSUME NEW r \in Requests, NEW c \in 0 .. MaxCost, Settle(r, c) \/ SettleFails(r, c)
      PROVE  OneHolder'
    BY <1>4 DEF Settle, SettleFails, Outcome
<1>5. ASSUME NEW r \in Requests, Log(r) \/ Unparseable(r) \/ ReadFails(r) PROVE OneHolder'
    BY <1>5 DEF Log, Unparseable, ReadFails
<1>6. ASSUME NEW p \in Replicas, Crash(p) PROVE OneHolder'
    BY <1>6 DEF Crash
<1>7. CASE Tick \/ UNCHANGED vars
    BY <1>7 DEF Tick, vars
<1> QED BY <1>1, <1>2, <1>3, <1>4, <1>5, <1>6, <1>7 DEF Next, Proceed

(* Only the counters of the current keys change. *)
LEMMA FreshStep == TypeOK /\ Fresh /\ [Next]_vars => Fresh'
<1> SUFFICES ASSUME TypeOK, Fresh, [Next]_vars PROVE Fresh'
    OBVIOUS
<1>1. today \in 0 .. today
    BY DEF TypeOK, Days
<1>2. ASSUME NEW r \in Requests, Hold(r), UNCHANGED <<today, actual>> PROVE Fresh'
    BY <1>1, <1>2 DEF Fresh, Hold, Add, TypeOK
<1>3. ASSUME NEW r \in Requests, NEW c \in 0 .. MaxCost, Reconcile(r, c), UNCHANGED today
      PROVE  Fresh'
    BY <1>1, <1>3 DEF Fresh, Reconcile, Add, TypeOK
<1>4. ASSUME UNCHANGED <<today, counters>> PROVE Fresh'
    BY <1>4 DEF Fresh, counters
<1>5. CASE Tick
    BY <1>5 DEF Tick, Fresh, counters, TypeOK, Days
<1> QED
    BY <1>2, <1>3, <1>4, <1>5
       DEF Next, Proceed, Arrive, Block, Admit, Project, Snapshot, Commit, CommitFails, Settle,
           SettleFails, Log, Unparseable, ReadFails, Crash, vars, counters

(* The units pending on other replicas than p: at most one reservation on  *)
(* each.                                                                   *)
LEMMA PendingElsewhere ==
    ASSUME NEW p \in Replicas, NEW S \in SUBSET ((Replicas \ {p}) \X (1 .. MaxReservation))
    PROVE  /\ IsFiniteSet(S)
           /\ Cardinality(S) <= (Cardinality(Replicas) - 1) * MaxReservation
<1>1. IsFiniteSet(Replicas \ {p}) /\ Cardinality(Replicas \ {p}) = Cardinality(Replicas) - 1
    BY FS_RemoveElement
<1>2. IsFiniteSet(1 .. MaxReservation) /\ Cardinality(1 .. MaxReservation) = MaxReservation
    BY FS_Interval
<1>3. /\ IsFiniteSet((Replicas \ {p}) \X (1 .. MaxReservation))
      /\ Cardinality((Replicas \ {p}) \X (1 .. MaxReservation)) =
             (Cardinality(Replicas) - 1) * MaxReservation
    <2> DEFINE others == Replicas \ {p}
    <2>1. /\ IsFiniteSet(others \X (1 .. MaxReservation))
          /\ Cardinality(others \X (1 .. MaxReservation)) =
                 Cardinality(others) * Cardinality(1 .. MaxReservation)
        <3> HIDE DEF others
        <3> QED BY <1>1, <1>2, FS_Product DEF others
    <2> QED BY <1>1, <1>2, <2>1
<1> QED BY <1>3, FS_Subset, FS_CardinalityType

LEMMA PendingFinite ==
    /\ IsFiniteSet(PendingUnits)
    /\ Cardinality(PendingUnits) \in Nat
    /\ Cardinality(PendingUnits) <= Cardinality(Replicas) * MaxReservation
<1>1. IsFiniteSet(1 .. MaxReservation) /\ Cardinality(1 .. MaxReservation) = MaxReservation
    BY FS_Interval
<1>2. /\ IsFiniteSet(Replicas \X (1 .. MaxReservation))
      /\ Cardinality(Replicas \X (1 .. MaxReservation)) = Cardinality(Replicas) * MaxReservation
    BY <1>1, FS_Product
<1>3. PendingUnits \in SUBSET (Replicas \X (1 .. MaxReservation))
    BY DEF PendingUnits
<1> QED BY <1>2, <1>3, FS_Subset, FS_CardinalityType

(* A step after which no further request is approved adds nothing pending. *)
LEMMA PendingShrinks ==
    ASSUME UNCHANGED replica,
           \A r \in Requests : pc'[r] = "approved" => pc[r] = "approved" /\ model'[r] = model[r]
    PROVE  Cardinality(PendingUnits') <= Cardinality(PendingUnits)
<1>1. PendingUnits' \in SUBSET PendingUnits
    BY DEF PendingUnits
<1> QED BY <1>1, PendingFinite, FS_Subset

LEMMA PendingPrimeFinite == IsFiniteSet(PendingUnits') /\ Cardinality(PendingUnits') \in Nat
<1>1. IsFiniteSet(Replicas \X (1 .. MaxReservation))
    <2>1. IsFiniteSet(1 .. MaxReservation)
        BY FS_Interval
    <2> QED BY <2>1, FS_Product
<1>2. PendingUnits' \in SUBSET (Replicas \X (1 .. MaxReservation))
    BY DEF PendingUnits
<1> QED BY <1>1, <1>2, FS_Subset, FS_CardinalityType

(* The units pending on the replica that approves are those of the request *)
(* alone: its handler holds the loop.                                      *)
LEMMA PendingApproved ==
    ASSUME TypeOK, OneHolder, NEW r \in Requests, Snapshot(r)
    PROVE  Cardinality(PendingUnits') <=
               (Cardinality(Replicas) - 1) * MaxReservation + Reservation[model[r]]
<1> DEFINE p == replica[r]
           amount == Reservation[model[r]]
           others == {x \in PendingUnits : x[1] # p}
<1>1. p \in Replicas /\ amount \in 0 .. MaxReservation
    BY DEF TypeOK
<1>2. others \in SUBSET ((Replicas \ {p}) \X (1 .. MaxReservation))
    BY DEF PendingUnits
<1>3. /\ IsFiniteSet(others) /\ Cardinality(others) \in Nat
      /\ Cardinality(others) <= (Cardinality(Replicas) - 1) * MaxReservation
    BY <1>1, <1>2, PendingElsewhere, FS_CardinalityType
<1>4. others \cap Slice(p, 0, amount) = {}
    BY DEF Slice
<1>5. Cardinality(others \cup Slice(p, 0, amount)) = Cardinality(others) + amount
    <2> HIDE DEF others, p, amount
    <2> QED BY <1>1, <1>3, <1>4, AddUnits
<1>6. PendingUnits' \in SUBSET (others \cup Slice(p, 0, amount))
    <2> SUFFICES ASSUME NEW x \in PendingUnits', x \notin others PROVE x \in Slice(p, 0, amount)
        OBVIOUS
    <2>1. PICK s \in Requests :
              replica[s] = x[1] /\ pc'[s] = "approved" /\ x[2] <= Reservation[model[s]]
        BY DEF PendingUnits, Snapshot, request
    <2>2. x \in Replicas \X (1 .. MaxReservation)
        BY DEF PendingUnits
    <2>3. CASE s = r
        BY <2>1, <2>2, <2>3 DEF Slice
    <2>4. CASE s # r
        <3>1. pc[s] = "approved" /\ pc[r] = "priced"
            BY <2>1, <2>4 DEF Snapshot, To, TypeOK
        <3>2. x \in PendingUnits
            BY <2>1, <2>2, <3>1 DEF PendingUnits
        <3>3. replica[s] = replica[r]
            BY <2>1, <3>2
        <3> QED BY <2>4, <3>1, <3>3 DEF OneHolder, OnLoop
    <2> QED BY <2>3, <2>4
<1>7. IsFiniteSet(others \cup Slice(p, 0, amount))
    <2>1. IsFiniteSet(Slice(p, 0, amount))
        BY <1>1, SliceSize
    <2> HIDE DEF others, p, amount
    <2> QED BY <1>3, <2>1, FS_Union
<1>8. Cardinality(PendingUnits') <= Cardinality(others \cup Slice(p, 0, amount))
    <2> HIDE DEF others, p, amount
    <2> QED BY <1>6, <1>7, FS_Subset
<1>9. Cardinality(Replicas) \in Nat
    BY FS_CardinalityType
<1> HIDE DEF others, p
<1> QED BY <1>1, <1>3, <1>5, <1>8, <1>9, PendingPrimeFinite

(* A commit takes the units of its request off the pending ones. *)
LEMMA PendingCommitted ==
    ASSUME TypeOK, OneHolder, NEW r \in Requests, pc[r] = "approved", pc'[r] # "approved",
           UNCHANGED <<replica, model>>, \A s \in Requests \ {r} : pc'[s] = pc[s]
    PROVE  Cardinality(PendingUnits') + Reservation[model[r]] <= Cardinality(PendingUnits)
<1> DEFINE p == replica[r]
           amount == Reservation[model[r]]
<1>1. p \in Replicas /\ amount \in 0 .. MaxReservation
    BY DEF TypeOK
<1>2. PendingUnits' \cap Slice(p, 0, amount) = {}
    <2> SUFFICES ASSUME NEW x \in PendingUnits', x[1] = p PROVE FALSE
        BY DEF Slice
    <2>1. PICK s \in Requests : replica[s] = x[1] /\ pc'[s] = "approved"
        BY DEF PendingUnits
    <2>2. s # r /\ pc[s] = "approved"
        BY <2>1
    <2> QED BY <2>1, <2>2 DEF OneHolder, OnLoop
<1>3. Cardinality(PendingUnits' \cup Slice(p, 0, amount)) = Cardinality(PendingUnits') + amount
    <2> HIDE DEF p, amount
    <2> QED BY <1>1, <1>2, PendingPrimeFinite, AddUnits
<1>4. PendingUnits' \cup Slice(p, 0, amount) \in SUBSET PendingUnits
    BY <1>1 DEF PendingUnits, Slice
<1>5. Cardinality(PendingUnits' \cup Slice(p, 0, amount)) <= Cardinality(PendingUnits)
    BY <1>4, PendingFinite, FS_Subset
<1> QED BY <1>3, <1>5

LEMMA CeilingFacts ==
    ASSUME NEW k \in Keys
    PROVE  /\ Ceiling(k) \in Nat
           /\ Limit(k) + (Cardinality(Replicas) - 1) * MaxReservation <= Ceiling(k)
           /\ Cardinality(Replicas) * MaxReservation <= Ceiling(k)
           /\ Limit(k) \in Nat /\ (Cardinality(Replicas) - 1) * MaxReservation \in Nat
<1>1. Cardinality(Replicas) \in Nat /\ Cardinality(Replicas) # 0
    BY FS_CardinalityType, FS_EmptySet
<1>2. (Cardinality(Replicas) - 1) * MaxReservation \in Nat
    BY <1>1
<1>3. Cardinality(Replicas) * MaxReservation =
          (Cardinality(Replicas) - 1) * MaxReservation + MaxReservation
    BY <1>1
<1>4. Limit(k) \in Nat
    BY DEF Limit
<1> QED BY <1>2, <1>3, <1>4 DEF Ceiling

LEMMA OvershootInit == Init => OvershootInv
<1> SUFFICES ASSUME Init PROVE OvershootInv
    OBVIOUS
<1>1. OneHolder /\ Fresh
    BY DEF Init, OneHolder, OnLoop, Fresh
<1>2. PendingUnits = {}
    BY DEF Init, PendingUnits
<1>3. \A k \in Keys : actual[k] + reserved[k] <= Ceiling(k) + Cardinality(ExcessUnits(k))
    BY CeilingFacts, SumsInNat DEF Init
<1>4. PendingBound
    <2>1. KeysOf(today) \subseteq Keys
        BY KeysOfToday DEF Init, Days
    <2> QED BY <1>2, <1>3, <2>1, FS_EmptySet, CeilingFacts, SumsInNat DEF PendingBound, Init
<1> QED BY <1>1, <1>3, <1>4 DEF OvershootInv, OvershootBound

(* Once the current keys are within their bound, so are all others: their  *)
(* counters did not change.                                                *)
LEMMA OvershootFromPending ==
    ASSUME TypeOK, TypeOK', OvershootBound, PendingBound', UNCHANGED today,
           \A k \in Keys \ KeysOf(today) :
               actual'[k] = actual[k] /\ reserved'[k] = reserved[k]
                   /\ ExcessUnits(k)' = ExcessUnits(k)
    PROVE  OvershootBound'
<1> SUFFICES ASSUME NEW k \in Keys
             PROVE  actual'[k] + reserved'[k] <= Ceiling(k) + Cardinality(ExcessUnits(k)')
    BY DEF OvershootBound, Ceiling, Limit
<1>1. CASE k \in KeysOf(today)
    <2>1. actual'[k] + reserved'[k] + Cardinality(PendingUnits')
              <= Ceiling(k) + Cardinality(ExcessUnits(k)')
        BY <1>1 DEF PendingBound, Ceiling, Limit
    <2>2. actual'[k] \in Int /\ reserved'[k] \in Int
        BY DEF TypeOK
    <2>3. Cardinality(ExcessUnits(k)') \in Int
        <3>1. IsFiniteSet(ExcessUnits(k)')
            BY UnitsFinitePrime
        <3> QED BY <3>1, FS_CardinalityType
    <2> QED BY <2>1, <2>2, <2>3, PendingPrimeFinite, CeilingFacts
<1>2. CASE k \notin KeysOf(today)
    BY <1>2 DEF OvershootBound
<1> QED BY <1>1, <1>2

LEMMA BoundHold ==
    ASSUME TypeOK, TypeOK', OvershootInv, NEW r \in Requests, Hold(r),
           pc[r] = "approved", pc'[r] # "approved", \A s \in Requests \ {r} : pc'[s] = pc[s],
           reservedOn[r] = Never, settledOn[r] = Never,
           UNCHANGED <<today, actual, request, cost, settledOn>>
    PROVE  PendingBound' /\ OvershootBound'
<1> DEFINE amount == Reservation[model[r]]
<1>1. Cardinality(PendingUnits') + amount <= Cardinality(PendingUnits) /\ amount \in Nat
    BY PendingCommitted DEF OvershootInv, TypeOK, request
<1>2. \A k \in Keys : ExcessUnits(k)' = ExcessUnits(k)
    BY HoldUnits
<1>3. KeysOf(today) \subseteq Keys
    BY KeysOfToday DEF TypeOK
<1>4. ASSUME NEW k \in Keys
      PROVE  reserved'[k] = reserved[k] + IF k \in KeysOf(today) THEN amount ELSE 0
    BY DEF Hold, Add
<1>5. PendingBound'
    <2> SUFFICES ASSUME NEW k \in KeysOf(today)
                 PROVE  actual'[k] + reserved'[k] + Cardinality(PendingUnits')
                            <= Ceiling(k) + Cardinality(ExcessUnits(k)')
        BY DEF PendingBound, Ceiling, Limit
    <2>1. reserved'[k] = reserved[k] + amount /\ actual'[k] = actual[k]
        BY <1>3, <1>4
    <2>2. actual[k] + reserved[k] + Cardinality(PendingUnits)
              <= Ceiling(k) + Cardinality(ExcessUnits(k))
        BY DEF OvershootInv, PendingBound
    <2>3. actual[k] \in Int /\ reserved[k] \in Int
        BY <1>3 DEF TypeOK
    <2> HIDE DEF amount
    <2> QED BY <1>1, <1>2, <1>3, <2>1, <2>2, <2>3, PendingFinite, PendingPrimeFinite,
               SumsInNat, CeilingFacts
<1>6. \A k \in Keys \ KeysOf(today) : reserved'[k] = reserved[k]
    BY <1>4 DEF TypeOK
<1> QED BY <1>2, <1>5, <1>6, OvershootFromPending DEF OvershootInv

LEMMA BoundReconcile ==
    ASSUME TypeOK, TypeOK', OvershootInv, NEW r \in Requests, NEW c \in 0 .. MaxCost,
           Reconcile(r, c), settledOn[r] = Never,
           \A s \in Requests : pc'[s] = "approved" => pc[s] = "approved",
           UNCHANGED <<today, request, held, reservedOn>>
    PROVE  PendingBound' /\ OvershootBound'
<1> DEFINE h == held[r]
           excess == IF c >= h THEN c - h ELSE 0
<1>1. h \in Nat /\ c \in Nat
    BY DEF TypeOK
<1>2. Cardinality(PendingUnits') <= Cardinality(PendingUnits)
    BY PendingShrinks DEF request
<1>3. KeysOf(today) \subseteq Keys
    BY KeysOfToday DEF TypeOK
<1>4. ASSUME NEW k \in Keys
      PROVE  /\ reserved'[k] = reserved[k] + IF k \in KeysOf(today) THEN -h ELSE 0
             /\ actual'[k] = actual[k] + IF k \in KeysOf(today) THEN c ELSE 0
    BY DEF Reconcile, Add
<1>5. ASSUME NEW k \in KeysOf(today)
      PROVE  Cardinality(ExcessUnits(k)') = Cardinality(ExcessUnits(k)) + excess
    <2>1. /\ ExcessUnits(k)' = ExcessUnits(k) \cup Slice(r, h, c)
          /\ ExcessUnits(k) \cap Slice(r, h, c) = {}
        BY <1>3, <1>5, ReconcileUnits
    <2>2. Cardinality(ExcessUnits(k) \cup Slice(r, h, c)) = Cardinality(ExcessUnits(k)) + excess
        BY <1>1, <2>1, UnitsFinite, AddUnits
    <2> QED BY <2>1, <2>2
<1>6. PendingBound'
    <2> SUFFICES ASSUME NEW k \in KeysOf(today)
                 PROVE  actual'[k] + reserved'[k] + Cardinality(PendingUnits')
                            <= Ceiling(k) + Cardinality(ExcessUnits(k)')
        BY DEF PendingBound, Ceiling, Limit
    <2>1. reserved'[k] = reserved[k] - h /\ actual'[k] = actual[k] + c
        <3>1. reserved[k] \in Int
            BY <1>3 DEF TypeOK
        <3> HIDE DEF h
        <3> QED BY <1>1, <1>3, <1>4, <3>1
    <2>2. actual[k] + reserved[k] + Cardinality(PendingUnits)
              <= Ceiling(k) + Cardinality(ExcessUnits(k))
        BY DEF OvershootInv, PendingBound
    <2>3. actual[k] \in Int /\ reserved[k] \in Int
        BY <1>3 DEF TypeOK
    <2>4. Cardinality(ExcessUnits(k)') = Cardinality(ExcessUnits(k)) + excess
        BY <1>5
    <2>5. c - h <= excess /\ excess \in Nat
        <3> HIDE DEF h
        <3> QED BY <1>1
    <2> HIDE DEF h, excess
    <2> QED BY <1>1, <1>2, <1>3, <2>1, <2>2, <2>3, <2>4, <2>5, PendingFinite, PendingPrimeFinite,
               SumsInNat, CeilingFacts
<1>7. \A k \in Keys \ KeysOf(today) :
          /\ actual'[k] = actual[k] /\ reserved'[k] = reserved[k]
          /\ ExcessUnits(k)' = ExcessUnits(k)
    <2> SUFFICES ASSUME NEW k \in Keys, k \notin KeysOf(today)
                 PROVE  /\ actual'[k] = actual[k] /\ reserved'[k] = reserved[k]
                        /\ ExcessUnits(k)' = ExcessUnits(k)
        OBVIOUS
    <2>1. actual[k] \in Int /\ reserved[k] \in Int
        BY DEF TypeOK
    <2>2. ExcessUnits(k)' = ExcessUnits(k)
        BY ReconcileUnits
    <2> QED BY <1>4, <2>1, <2>2
<1> QED BY <1>6, <1>7, OvershootFromPending DEF OvershootInv

(* The verdict of reserve leaves room for the request it approves, and for *)
(* what the other replicas have approved.                                  *)
LEMMA BoundSnapshot ==
    ASSUME TypeOK, TypeOK', OvershootInv, NEW r \in Requests, Snapshot(r)
    PROVE  PendingBound' /\ OvershootBound'
<1>1. KeysOf(today) \subseteq Keys
    BY KeysOfToday DEF TypeOK
<1>2. /\ UNCHANGED <<today, actual, reserved, replica, model>>
      /\ \A k : ExcessUnits(k)' = ExcessUnits(k)
    BY SameUnits DEF Snapshot, counters, request
<1>3. PendingBound'
    <2> SUFFICES ASSUME NEW k \in KeysOf(today)
                 PROVE  actual[k] + reserved[k] + Cardinality(PendingUnits')
                            <= Ceiling(k) + Cardinality(ExcessUnits(k))
        BY <1>2 DEF PendingBound, Ceiling, Limit
    <2>1. actual[k] \in Int /\ reserved[k] \in Int
        BY <1>1 DEF TypeOK
    <2>2. CASE Affordable(Reservation[model[r]])
        <3> DEFINE amount == Reservation[model[r]]
        <3>1. actual[k] + reserved[k] + amount <= Limit(k) /\ amount \in Nat
            BY <2>2 DEF Affordable, TypeOK
        <3>2. Cardinality(PendingUnits') <= (Cardinality(Replicas) - 1) * MaxReservation + amount
            BY PendingApproved DEF OvershootInv
        <3> DEFINE others == (Cardinality(Replicas) - 1) * MaxReservation
        <3>3. others \in Nat /\ Limit(k) + others <= Ceiling(k) /\ Limit(k) \in Nat
              /\ Ceiling(k) \in Nat
            BY <1>1, CeilingFacts
        <3>4. Cardinality(PendingUnits') <= others + amount
            BY <3>2
        <3> HIDE DEF amount, others
        <3> QED BY <2>1, <3>1, <3>3, <3>4, PendingPrimeFinite, SumsInNat
    <2>3. CASE ~Affordable(Reservation[model[r]])
        <3>1. Cardinality(PendingUnits') <= Cardinality(PendingUnits)
            BY <1>2, <2>3, PendingShrinks DEF Snapshot, To, TypeOK
        <3>2. actual[k] + reserved[k] + Cardinality(PendingUnits)
                  <= Ceiling(k) + Cardinality(ExcessUnits(k))
            BY DEF OvershootInv, PendingBound
        <3>3. Ceiling(k) \in Nat
            BY <1>1, CeilingFacts
        <3> QED BY <2>1, <3>1, <3>2, <3>3, PendingPrimeFinite, PendingFinite, SumsInNat
    <2> QED BY <2>2, <2>3
<1> QED BY <1>2, <1>3, OvershootFromPending DEF OvershootInv

(* Steps that touch neither counters nor the model of an approved request. *)
LEMMA BoundSame ==
    ASSUME TypeOK, TypeOK', OvershootInv, UNCHANGED <<today, counters, replica, history>>,
           \A s \in Requests : pc'[s] = "approved" => pc[s] = "approved" /\ model'[s] = model[s]
    PROVE  PendingBound' /\ OvershootBound'
<1>1. KeysOf(today) \subseteq Keys
    BY KeysOfToday DEF TypeOK
<1>2. \A k : ExcessUnits(k)' = ExcessUnits(k)
    BY SameUnits
<1>3. PendingBound'
    <2> SUFFICES ASSUME NEW k \in KeysOf(today)
                 PROVE  actual[k] + reserved[k] + Cardinality(PendingUnits')
                            <= Ceiling(k) + Cardinality(ExcessUnits(k))
        BY <1>2 DEF PendingBound, Ceiling, Limit, counters
    <2>1. actual[k] \in Int /\ reserved[k] \in Int
        BY <1>1 DEF TypeOK
    <2>2. Cardinality(PendingUnits') <= Cardinality(PendingUnits)
        BY PendingShrinks
    <2>3. actual[k] + reserved[k] + Cardinality(PendingUnits)
              <= Ceiling(k) + Cardinality(ExcessUnits(k))
        BY DEF OvershootInv, PendingBound
    <2>4. Ceiling(k) \in Nat
        BY <1>1, CeilingFacts
    <2> QED BY <2>1, <2>2, <2>3, <2>4, PendingPrimeFinite, PendingFinite, SumsInNat
<1> QED BY <1>2, <1>3, OvershootFromPending DEF OvershootInv, counters

(* At midnight a key of the new day is untouched, or still current.        *)
LEMMA BoundTick ==
    ASSUME TypeOK, TypeOK', OvershootInv, Tick
    PROVE  PendingBound' /\ OvershootBound'
<1>1. today \in Days /\ today' \in Days /\ today' = today + 1
    BY DEF TypeOK, Tick
<1>2. KeysOf(today') \subseteq Keys
    BY <1>1 DEF Keys
<1>3. \A k : ExcessUnits(k)' = ExcessUnits(k)
    BY SameUnits DEF Tick
<1>4. UNCHANGED <<actual, reserved, pc, replica, model>>
    BY DEF Tick, counters, request
<1>5. PendingUnits' = PendingUnits
    BY <1>4 DEF PendingUnits
<1>6. OvershootBound'
    BY <1>3, <1>4 DEF OvershootInv, OvershootBound, Ceiling, Limit
<1>7. PendingBound'
    <2> SUFFICES ASSUME NEW k \in KeysOf(today')
                 PROVE  actual[k] + reserved[k] + Cardinality(PendingUnits)
                            <= Ceiling(k) + Cardinality(ExcessUnits(k))
        BY <1>3, <1>4, <1>5 DEF PendingBound, Ceiling, Limit
    <2>1. CASE k \in KeysOf(today)
        BY <2>1 DEF OvershootInv, PendingBound
    <2>2. CASE k \notin KeysOf(today)
        <3>1. ASSUME NEW d \in 0 .. today PROVE k \notin KeysOf(d)
            <4>1. d \in Days /\ d <= today
                BY <1>1 DEF Days
            <4>2. MonthOf[d] <= MonthOf[today] /\ MonthOf[today] <= MonthOf[today']
                BY <1>1, <4>1 DEF Days
            <4>3. MonthOf[d] \in Nat /\ MonthOf[today] \in Nat /\ MonthOf[today'] \in Nat
                BY <1>1, <4>1
            <4>4. d # today'
                BY <1>1, <4>1 DEF Days
            <4>5. k = <<"day", today'>> \/ k = <<"month", MonthOf[today']>>
                BY DEF KeysOf
            <4>6. "day" # "month"
                OBVIOUS
            <4> QED BY <2>2, <4>2, <4>3, <4>4, <4>5, <4>6 DEF KeysOf
        <3>2. actual[k] = 0 /\ reserved[k] = 0
            BY <1>2, <3>1 DEF OvershootInv, Fresh
        <3>3. Cardinality(PendingUnits) <= Ceiling(k)
            <4> DEFINE all == Cardinality(Replicas) * MaxReservation
            <4>1. Cardinality(PendingUnits) <= all /\ all <= Ceiling(k) /\ Ceiling(k) \in Nat
                BY <1>2, PendingFinite, CeilingFacts
            <4>2. all \in Nat
                BY FS_CardinalityType
            <4> HIDE DEF all
            <4> QED BY <4>1, <4>2, PendingFinite
        <3>4. Ceiling(k) \in Nat
            BY <1>2, CeilingFacts
        <3> QED BY <3>2, <3>3, <3>4, PendingFinite, SumsInNat
    <2> QED BY <2>1, <2>2
<1> QED BY <1>6, <1>7

LEMMA OvershootStep ==
    TypeOK /\ TypeOK' /\ HistoryInv /\ OvershootInv /\ [Next]_vars => OvershootInv'
<1> SUFFICES ASSUME TypeOK, TypeOK', HistoryInv, OvershootInv, [Next]_vars
             PROVE  PendingBound' /\ OvershootBound'
    BY OneHolderStep, FreshStep DEF OvershootInv
<1>1. ASSUME NEW r \in Requests, Arrive(r) PROVE PendingBound' /\ OvershootBound'
    BY <1>1, BoundSame DEF Arrive, Block, Admit, Dispatch, To, TypeOK, request
<1>2. ASSUME NEW r \in Requests, Project(r) PROVE PendingBound' /\ OvershootBound'
    <2>1. \A s \in Requests : pc'[s] = "approved" => s # r /\ pc[s] = "approved"
        BY <1>2 DEF Project, To, TypeOK
    <2>2. \A s \in Requests \ {r} : model'[s] = model[s]
        BY <1>2 DEF Project, TypeOK
    <2> QED BY <1>2, <2>1, <2>2, BoundSame DEF Project
<1>3. ASSUME NEW r \in Requests, Snapshot(r) PROVE PendingBound' /\ OvershootBound'
    BY <1>3, BoundSnapshot
<1>4. ASSUME NEW r \in Requests, Commit(r) \/ CommitFails(r)
      PROVE  PendingBound' /\ OvershootBound'
    <2>1. /\ pc[r] = "approved" /\ pc'[r] # "approved"
          /\ \A s \in Requests \ {r} : pc'[s] = pc[s]
        BY <1>4 DEF Commit, CommitFails, Dispatch, To, TypeOK
    <2>2. reservedOn[r] = Never /\ settledOn[r] = Never
        BY <2>1 DEF HistoryInv
    <2>3. UNCHANGED <<today, actual, request, cost, settledOn>>
        BY <1>4 DEF Commit, CommitFails
    <2>4. CASE Hold(r)
        BY <2>1, <2>2, <2>3, <2>4, BoundHold
    <2>5. CASE UNCHANGED <<reserved, held, reservedOn>>
        BY <2>1, <2>3, <2>5, BoundSame DEF counters, request, history
    <2> QED BY <1>4, <2>4, <2>5 DEF Commit, CommitFails
<1>5. ASSUME NEW r \in Requests, NEW c \in 0 .. MaxCost, Settle(r, c) \/ SettleFails(r, c)
      PROVE  PendingBound' /\ OvershootBound'
    <2>1. \A s \in Requests : pc'[s] = "approved" => pc[s] = "approved"
        BY <1>5 DEF Settle, SettleFails, To, TypeOK
    <2>2. settledOn[r] = Never
        BY <1>5 DEF HistoryInv, Settle, SettleFails, Outcome
    <2>3. UNCHANGED <<today, request, held, reservedOn>>
        BY <1>5 DEF Settle, SettleFails
    <2>4. CASE Reconcile(r, c)
        BY <2>1, <2>2, <2>3, <2>4, BoundReconcile
    <2>5. CASE UNCHANGED <<counters, cost, settledOn>>
        BY <2>1, <2>3, <2>5, BoundSame DEF request, history
    <2> QED BY <1>5, <2>4, <2>5 DEF Settle, SettleFails
<1>6. ASSUME NEW r \in Requests, Log(r) \/ Unparseable(r) \/ ReadFails(r)
      PROVE  PendingBound' /\ OvershootBound'
    BY <1>6, BoundSame DEF Log, Unparseable, ReadFails, To, TypeOK, request
<1>7. ASSUME NEW p \in Replicas, Crash(p) PROVE PendingBound' /\ OvershootBound'
    BY <1>7, BoundSame DEF Crash, TypeOK, request
<1>8. CASE Tick
    BY <1>8, BoundTick
<1>9. CASE UNCHANGED vars
    BY <1>9, BoundSame DEF vars, request, counters, history
<1> QED BY <1>1, <1>2, <1>3, <1>4, <1>5, <1>6, <1>7, <1>8, <1>9 DEF Next, Proceed

(* However many replicas check and add at once, no counter passes its      *)
(* budget by more than one reservation for every other replica, calls that *)
(* cost more than they reserved apart.                                     *)
THEOREM OvershootAlwaysBounded == Spec => []OvershootBound
<1> DEFINE IInv == TypeOK /\ HistoryInv /\ OvershootInv
<1>1. Init => IInv
    BY TypeInit, HistoryInit, OvershootInit
<1>2. IInv /\ [Next]_vars => IInv'
    BY TypeStep, HistoryStep, OvershootStep
<1>3. IInv => OvershootBound
    BY DEF OvershootInv
<1> QED BY <1>1, <1>2, <1>3, PTL DEF Spec

LEMMA SpendFromCounters == TypeOK /\ CountersExplained /\ OvershootBound => SpendBound
<1> SUFFICES ASSUME TypeOK, CountersExplained, OvershootBound, NEW k \in Keys
             PROVE  actual[k] <= Ceiling(k) + Cardinality(ExcessUnits(k))
                                            + Cardinality(MisfiledUnits(k))
    BY DEF SpendBound
<1>1. ReleasedUnits(k) \in SUBSET (HeldUnits(k) \cup MisfiledUnits(k))
    BY DEF MisfiledUnits
<1>2. HeldUnits(k) \cap MisfiledUnits(k) = {}
    BY DEF MisfiledUnits
<1>3. /\ IsFiniteSet(HeldUnits(k) \cup MisfiledUnits(k))
      /\ Cardinality(HeldUnits(k) \cup MisfiledUnits(k)) =
             Cardinality(HeldUnits(k)) + Cardinality(MisfiledUnits(k))
    <2>1. IsFiniteSet(HeldUnits(k)) /\ IsFiniteSet(MisfiledUnits(k))
        BY UnitsFinite
    <2>2. /\ IsFiniteSet(HeldUnits(k) \cup MisfiledUnits(k))
          /\ Cardinality(HeldUnits(k) \cup MisfiledUnits(k)) =
                 Cardinality(HeldUnits(k)) + Cardinality(MisfiledUnits(k))
                     - Cardinality(HeldUnits(k) \cap MisfiledUnits(k))
        BY <2>1, FS_Union
    <2>3. Cardinality(HeldUnits(k) \cap MisfiledUnits(k)) = 0
        BY <1>2, FS_EmptySet
    <2> QED BY <2>2, <2>3, SumsInNat
<1>4. Cardinality(ReleasedUnits(k)) <= Cardinality(HeldUnits(k)) + Cardinality(MisfiledUnits(k))
    BY <1>1, <1>3, FS_Subset
<1>5. /\ actual[k] + reserved[k] <= Ceiling(k) + Cardinality(ExcessUnits(k))
      /\ reserved[k] = Cardinality(HeldUnits(k)) - Cardinality(ReleasedUnits(k))
    BY DEF OvershootBound, CountersExplained
<1>6. actual[k] \in Int /\ Ceiling(k) \in Nat
    BY CeilingFacts DEF TypeOK
<1> QED BY <1>4, <1>5, <1>6, SumsInNat

(* What a user really spends in a period is bounded in the same way, apart *)
(* from reservations that reconcile released from a later period.          *)
THEOREM SpendAlwaysBounded == Spec => []SpendBound
<1>1. TypeOK /\ CountersExplained /\ OvershootBound => SpendBound
    BY SpendFromCounters
<1> QED BY <1>1, TypeCorrect, CountersAlwaysExplained, OvershootAlwaysBounded, PTL

-----------------------------------------------------------------------------
(* One replica within one day: nothing runs between the two steps of       *)
(* reserve, nor between Project and Commit.  Redis and the replica may     *)
(* still fail.                                                             *)

OneReplica == \A p, q \in Replicas : p = q
OneDay     == LastDay = 0

(* What the test of reserve found still holds when its reservation is      *)
(* added ...                                                               *)
Approved ==
    \A r \in Requests : pc[r] = "approved" => Affordable(Reservation[model[r]])

(* ... and so does what budget_downgrade_model was told.                   *)
Undecided ==
    \A r \in Requests : pc[r] \in {"idle", "deciding"} => model[r] = asked[r]

Dear ==
    \A r \in Requests :
        /\ pc[r] \in {"priced", "approved"}
        /\ route[r] = "chat" /\ model[r] = asked[r] /\ Substitute[asked[r]] # asked[r]
        => ~NearBudget(ProjectedMonth(r))

LEMMA SoleDay ==
    ASSUME OneDay, TypeOK
    PROVE  today = 0 /\ Days = {0} /\ Keys = KeysOf(0) /\ ~Tick
BY DEF OneDay, TypeOK, Days, Keys, Tick

(* No step but Snapshot approves a request, and whichever handler takes a  *)
(* step had the loop, so that no other was approved.                       *)
LEMMA NoneApproved ==
    ASSUME OneReplica, OneDay, TypeOK, OneHolder, Next, \A r \in Requests : ~Snapshot(r)
    PROVE  \A s \in Requests : pc'[s] # "approved"
<1> USE DEF TypeOK, OneReplica, OneHolder, OnLoop, LoopFree, To
<1>1. ASSUME NEW r \in Requests, Arrive(r) PROVE \A s \in Requests : pc'[s] # "approved"
    BY <1>1 DEF Arrive, Block, Admit, Dispatch
<1>2. ASSUME NEW r \in Requests, Project(r) PROVE \A s \in Requests : pc'[s] # "approved"
    BY <1>2 DEF Project
<1>3. ASSUME NEW r \in Requests, Commit(r) \/ CommitFails(r)
      PROVE  \A s \in Requests : pc'[s] # "approved"
    BY <1>3 DEF Commit, CommitFails, Dispatch
<1>4. ASSUME NEW r \in Requests, NEW c \in 0 .. MaxCost, Settle(r, c) \/ SettleFails(r, c)
      PROVE  \A s \in Requests : pc'[s] # "approved"
    BY <1>4 DEF Settle, SettleFails, Outcome
<1>5. ASSUME NEW r \in Requests, Log(r) \/ Unparseable(r) \/ ReadFails(r)
      PROVE  \A s \in Requests : pc'[s] # "approved"
    BY <1>5 DEF Log, Unparseable, ReadFails
<1>6. ASSUME NEW p \in Replicas, Crash(p) PROVE \A s \in Requests : pc'[s] # "approved"
    BY <1>6 DEF Crash, InFlight
<1> QED BY <1>1, <1>2, <1>3, <1>4, <1>5, <1>6, SoleDay DEF Next, Proceed

LEMMA ApprovedStep ==
    ASSUME OneReplica, OneDay, TypeOK, OneHolder, Approved, [Next]_vars
    PROVE  Approved'
<1>1. ASSUME NEW r \in Requests, Snapshot(r) PROVE Approved'
    <2> SUFFICES ASSUME NEW s \in Requests, pc'[s] = "approved"
                 PROVE  Affordable(Reservation[model[s]])'
        BY DEF Approved
    <2>1. s = r
        <3>1. s # r => pc[s] = "approved"
            BY <1>1 DEF Snapshot, To, TypeOK
        <3> QED BY <1>1, <3>1 DEF Snapshot, TypeOK, OneReplica, OneHolder, OnLoop
    <2>2. Affordable(Reservation[model[r]])
        BY <1>1, <2>1 DEF Snapshot, To, TypeOK
    <2>3. UNCHANGED <<today, actual, reserved, model>>
        BY <1>1 DEF Snapshot, counters, request
    <2> QED BY <2>1, <2>2, <2>3 DEF Affordable
<1>2. CASE Next /\ \A r \in Requests : ~Snapshot(r)
    BY <1>2, NoneApproved DEF Approved
<1>3. CASE UNCHANGED vars
    BY <1>3 DEF vars, counters, request, Approved, Affordable
<1> QED BY <1>1, <1>2, <1>3

LEMMA UndecidedStep == TypeOK /\ Undecided /\ [Next]_vars => Undecided'
<1> SUFFICES ASSUME TypeOK, Undecided, [Next]_vars PROVE Undecided'
    OBVIOUS
<1> USE DEF TypeOK, Undecided, To, request
<1>1. ASSUME NEW r \in Requests, Arrive(r) PROVE Undecided'
    BY <1>1 DEF Arrive, Block, Admit, Dispatch
<1>2. ASSUME NEW r \in Requests, Project(r) \/ Snapshot(r) PROVE Undecided'
    BY <1>2 DEF Project, Snapshot
<1>3. ASSUME NEW r \in Requests, Commit(r) \/ CommitFails(r) PROVE Undecided'
    BY <1>3 DEF Commit, CommitFails, Dispatch
<1>4. ASSUME NEW r \in Requests, NEW c \in 0 .. MaxCost, Settle(r, c) \/ SettleFails(r, c)
      PROVE  Undecided'
    BY <1>4 DEF Settle, SettleFails
<1>5. ASSUME NEW r \in Requests, Log(r) \/ Unparseable(r) \/ ReadFails(r) PROVE Undecided'
    BY <1>5 DEF Log, Unparseable, ReadFails
<1>6. ASSUME NEW p \in Replicas, Crash(p) PROVE Undecided'
    BY <1>6 DEF Crash
<1>7. CASE Tick \/ UNCHANGED vars
    BY <1>7 DEF Tick, vars
<1> QED BY <1>1, <1>2, <1>3, <1>4, <1>5, <1>6, <1>7 DEF Next, Proceed

LEMMA DearStep ==
    ASSUME OneReplica, OneDay, TypeOK, OneHolder, Undecided, Dear, [Next]_vars
    PROVE  Dear'
<1> SUFFICES ASSUME NEW s \in Requests, pc'[s] \in {"priced", "approved"}, route'[s] = "chat",
                    model'[s] = asked'[s], Substitute[asked'[s]] # asked'[s]
             PROVE  ~NearBudget(ProjectedMonth(s))'
    BY DEF Dear
<1> USE DEF TypeOK, OneReplica, OneHolder, OnLoop, LoopFree, To
<1>1. ASSUME NEW r \in Requests, Arrive(r) PROVE FALSE
    BY <1>1 DEF Arrive, Block, Admit, Dispatch, request
<1>2. ASSUME NEW r \in Requests, Project(r) PROVE ~NearBudget(ProjectedMonth(s))'
    <2>1. s = r
        BY <1>2 DEF Project
    <2>2. ~NearBudget(ProjectedMonth(r)) /\ model' = model
        BY <1>2, <2>1 DEF Project, Undecided, ProjectedMonth
    <2>3. UNCHANGED <<today, actual, reserved>>
        BY <1>2 DEF Project, counters
    <2> QED BY <2>1, <2>2, <2>3 DEF NearBudget, ProjectedMonth
<1>3. ASSUME NEW r \in Requests, Snapshot(r) PROVE ~NearBudget(ProjectedMonth(s))'
    <2>1. s = r /\ UNCHANGED <<today, actual, reserved, model, asked, route>>
        BY <1>3 DEF Snapshot, counters, request
    <2>2. pc[r] = "priced"
        BY <1>3 DEF Snapshot
    <2> QED BY <2>1, <2>2 DEF Dear, NearBudget, ProjectedMonth
<1>4. ASSUME NEW r \in Requests, Commit(r) \/ CommitFails(r) PROVE FALSE
    BY <1>4 DEF Commit, CommitFails, Dispatch
<1>5. ASSUME NEW r \in Requests, NEW c \in 0 .. MaxCost, Settle(r, c) \/ SettleFails(r, c)
      PROVE  FALSE
    BY <1>5 DEF Settle, SettleFails, Outcome
<1>6. ASSUME NEW r \in Requests, Log(r) \/ Unparseable(r) \/ ReadFails(r) PROVE FALSE
    BY <1>6 DEF Log, Unparseable, ReadFails
<1>7. ASSUME NEW p \in Replicas, Crash(p) PROVE FALSE
    BY <1>7 DEF Crash, InFlight
<1>8. CASE UNCHANGED vars
    BY <1>8 DEF vars, counters, request, Dear, NearBudget, ProjectedMonth
<1> QED BY <1>1, <1>2, <1>3, <1>4, <1>5, <1>6, <1>7, <1>8, SoleDay DEF Next, Proceed

LEMMA RespectedHold ==
    ASSUME OneDay, TypeOK, BudgetRespected, NEW r \in Requests, Hold(r),
           Affordable(Reservation[model[r]]), reservedOn[r] = Never, settledOn[r] = Never,
           UNCHANGED <<actual, cost, settledOn>>
    PROVE  BudgetRespected'
<1> SUFFICES ASSUME NEW k \in Keys
             PROVE  actual'[k] + reserved'[k] <= Limit(k) + Cardinality(ExcessUnits(k)')
    BY DEF BudgetRespected, Limit
<1> DEFINE amount == Reservation[model[r]]
<1>1. k \in KeysOf(today)
    BY SoleDay
<1>2. reserved'[k] = reserved[k] + amount /\ actual'[k] = actual[k]
    BY <1>1 DEF Hold, Add
<1>3. actual[k] + reserved[k] + amount <= Limit(k)
    BY <1>1 DEF Affordable
<1>4. ExcessUnits(k)' = ExcessUnits(k)
    BY HoldUnits
<1>5. actual[k] \in Int /\ reserved[k] \in Int /\ amount \in Int /\ Limit(k) \in Int
    BY DEF TypeOK, Limit
<1> HIDE DEF amount
<1> QED BY <1>2, <1>3, <1>4, <1>5, SumsInNat

LEMMA RespectedReconcile ==
    ASSUME OneDay, TypeOK, BudgetRespected, NEW r \in Requests, NEW c \in 0 .. MaxCost,
           Reconcile(r, c), settledOn[r] = Never, UNCHANGED <<held, reservedOn>>
    PROVE  BudgetRespected'
<1> SUFFICES ASSUME NEW k \in Keys
             PROVE  actual'[k] + reserved'[k] <= Limit(k) + Cardinality(ExcessUnits(k)')
    BY DEF BudgetRespected, Limit
<1> DEFINE h == held[r]
           excess == IF c >= h THEN c - h ELSE 0
<1>1. h \in Nat /\ c \in Nat
    BY DEF TypeOK
<1>2. k \in KeysOf(today)
    BY SoleDay
<1>3. reserved'[k] = reserved[k] + (-h) /\ actual'[k] = actual[k] + c
    BY <1>2 DEF Reconcile, Add
<1>4. Cardinality(ExcessUnits(k)') = Cardinality(ExcessUnits(k)) + excess
    <2>1. /\ ExcessUnits(k)' = ExcessUnits(k) \cup Slice(r, h, c)
          /\ ExcessUnits(k) \cap Slice(r, h, c) = {}
        BY <1>2, ReconcileUnits
    <2>2. Cardinality(ExcessUnits(k) \cup Slice(r, h, c)) = Cardinality(ExcessUnits(k)) + excess
        BY <1>1, <2>1, UnitsFinite, AddUnits
    <2> QED BY <2>1, <2>2
<1>5. actual[k] + reserved[k] <= Limit(k) + Cardinality(ExcessUnits(k))
    BY DEF BudgetRespected
<1>6. actual[k] \in Int /\ reserved[k] \in Int /\ Limit(k) \in Int
    BY DEF TypeOK, Limit
<1>7. c - h <= excess /\ excess \in Nat
    <2> HIDE DEF h
    <2> QED BY <1>1
<1> HIDE DEF h, excess
<1> QED BY <1>1, <1>3, <1>4, <1>5, <1>6, <1>7, SumsInNat

LEMMA RespectedSame ==
    ASSUME BudgetRespected, UNCHANGED <<counters, history>>
    PROVE  BudgetRespected'
BY SameUnits DEF BudgetRespected, counters, Limit

LEMMA RespectedStep ==
    ASSUME OneDay, TypeOK, HistoryInv, Approved, BudgetRespected, [Next]_vars
    PROVE  BudgetRespected'
<1>1. ASSUME NEW r \in Requests, Commit(r) \/ CommitFails(r) PROVE BudgetRespected'
    <2>1. /\ reservedOn[r] = Never /\ settledOn[r] = Never
          /\ Affordable(Reservation[model[r]])
        BY <1>1 DEF Commit, CommitFails, HistoryInv, Approved
    <2>2. CASE Hold(r)
        BY <1>1, <2>1, <2>2, RespectedHold DEF Commit, CommitFails
    <2>3. CASE UNCHANGED <<reserved, held, reservedOn>>
        BY <1>1, <2>3, RespectedSame DEF Commit, CommitFails, counters, history
    <2> QED BY <1>1, <2>2, <2>3 DEF Commit, CommitFails
<1>2. ASSUME NEW r \in Requests, NEW c \in 0 .. MaxCost, Settle(r, c) \/ SettleFails(r, c)
      PROVE  BudgetRespected'
    <2>1. settledOn[r] = Never
        BY <1>2 DEF Settle, SettleFails, Outcome, HistoryInv
    <2>2. CASE Reconcile(r, c)
        BY <1>2, <2>1, <2>2, RespectedReconcile DEF Settle, SettleFails
    <2>3. CASE UNCHANGED <<counters, cost, settledOn>>
        BY <1>2, <2>3, RespectedSame DEF Settle, SettleFails, counters, history
    <2> QED BY <1>2, <2>2, <2>3 DEF Settle, SettleFails
<1>3. ASSUME NEW r \in Requests,
             \/ Arrive(r) \/ Project(r) \/ Snapshot(r)
             \/ Log(r) \/ Unparseable(r) \/ ReadFails(r)
      PROVE  BudgetRespected'
    BY <1>3, RespectedSame
       DEF Arrive, Block, Admit, Project, Snapshot, Log, Unparseable, ReadFails
<1>4. ASSUME NEW p \in Replicas, Crash(p) PROVE BudgetRespected'
    BY <1>4, RespectedSame DEF Crash
<1>5. CASE Tick \/ UNCHANGED vars
    BY <1>5, RespectedSame DEF Tick, vars
<1> QED BY <1>1, <1>2, <1>3, <1>4, <1>5 DEF Next, Proceed

OneInv == TypeOK /\ HistoryInv /\ OneHolder /\ Approved /\ Undecided /\ Dear /\ BudgetRespected

LEMMA OneInit == Init => OneInv
<1> SUFFICES ASSUME Init PROVE OneInv
    OBVIOUS
<1>1. TypeOK /\ HistoryInv
    BY TypeInit, HistoryInit
<1>2. OneHolder /\ Approved /\ Undecided /\ Dear
    BY DEF Init, OneHolder, OnLoop, Approved, Undecided, Dear
<1>3. BudgetRespected
    <2> SUFFICES ASSUME NEW k \in Keys
                 PROVE  actual[k] + reserved[k] <= Limit(k) + Cardinality(ExcessUnits(k))
        BY DEF BudgetRespected
    <2>1. actual[k] = 0 /\ reserved[k] = 0 /\ Limit(k) \in Nat
        BY DEF Init, Limit
    <2> QED BY <2>1, SumsInNat
<1> QED BY <1>1, <1>2, <1>3 DEF OneInv

LEMMA OneStep ==
    ASSUME OneReplica, OneDay
    PROVE  OneInv /\ [Next]_vars => OneInv'
<1> SUFFICES ASSUME OneInv, [Next]_vars PROVE OneInv'
    OBVIOUS
<1>1. TypeOK' /\ HistoryInv' /\ OneHolder'
    BY TypeStep, HistoryStep, OneHolderStep DEF OneInv
<1>2. Approved' /\ Undecided' /\ Dear'
    BY ApprovedStep, UndecidedStep, DearStep DEF OneInv
<1>3. BudgetRespected'
    BY RespectedStep DEF OneInv
<1> QED BY <1>1, <1>2, <1>3 DEF OneInv

(* One gateway process keeps the budget of policy.yaml at its word within  *)
(* a day, calls dearer than their reservation apart: even if it crashes    *)
(* and Redis fails, and for any number of requests at once.                *)
THEOREM OneReplicaRespectsBudget ==
    ASSUME OneReplica, OneDay
    PROVE  Spec => []BudgetRespected
<1>1. OneInv => BudgetRespected
    BY DEF OneInv
<1>2. OneInv /\ [Next]_vars => OneInv'
    BY OneStep
<1> QED BY <1>1, <1>2, OneInit, PTL DEF Spec

(* There, no chat request reserves for a dear model once the month is past *)
(* the threshold: what the downgrade was decided on still holds when the   *)
(* reservation is made.                                                    *)
THEOREM OneReplicaDowngrades ==
    ASSUME OneReplica, OneDay
    PROVE  Spec => PremiumOnlyBelowThreshold
<1> DEFINE Below == \A r \in Requests : PremiumReserved(r) => ~NearBudget(ProjectedMonth(r))
<1>1. OneInv /\ [Next]_vars => [Below]_vars
    <2> SUFFICES ASSUME OneInv, Next, NEW r \in Requests, PremiumReserved(r)
                 PROVE  ~NearBudget(ProjectedMonth(r))
        OBVIOUS
    <2>1. pc[r] = "approved"
        <3> USE DEF PremiumReserved, OneInv, TypeOK, history
        <3>1. ASSUME NEW s \in Requests, Commit(s) \/ CommitFails(s) PROVE pc[r] = "approved"
            BY <3>1 DEF Commit, CommitFails, Hold
        <3>2. ASSUME NEW s \in Requests, NEW c \in 0 .. MaxCost, Settle(s, c) \/ SettleFails(s, c)
              PROVE  FALSE
            BY <3>2 DEF Settle, SettleFails
        <3>3. ASSUME NEW s \in Requests,
                     \/ Arrive(s) \/ Project(s) \/ Snapshot(s)
                     \/ Log(s) \/ Unparseable(s) \/ ReadFails(s)
              PROVE  FALSE
            BY <3>3 DEF Arrive, Block, Admit, Project, Snapshot, Log, Unparseable, ReadFails
        <3>4. ASSUME NEW p \in Replicas, Crash(p) PROVE FALSE
            BY <3>4 DEF Crash
        <3>5. CASE Tick
            BY <3>5 DEF Tick
        <3> QED BY <3>1, <3>2, <3>3, <3>4, <3>5 DEF Next, Proceed
    <2> QED BY <2>1 DEF OneInv, Dear, PremiumReserved
<1>2. OneInv /\ [Next]_vars => OneInv'
    BY OneStep
<1> QED BY <1>1, <1>2, OneInit, PTL DEF Spec, PremiumOnlyBelowThreshold

-----------------------------------------------------------------------------
(* There, the handlers implement BudgetLedger: the commit of reserve is    *)
(* Reserve, a reconciliation Charge, and every other step a stutter.       *)

DayKey   == <<"day", 0>>
MonthKey == <<"month", MonthOf[0]>>

(* A call is settled only after its reservation. *)
ReservedFirst ==
    \A r \in Requests : pc[r] \in {"calling", "unrouted"} => reservedOn[r] # Never

LEMMA ReservedFirstStep ==
    ASSUME ReservationEnabled
    PROVE  TypeOK /\ ReservedFirst /\ [Next]_vars => ReservedFirst'
<1> SUFFICES ASSUME TypeOK, ReservedFirst, [Next]_vars PROVE ReservedFirst'
    OBVIOUS
<1> USE DEF TypeOK, ReservedFirst, To, history
<1>1. Never \notin Days
    BY DEF Never, Days
<1>2. ASSUME NEW r \in Requests, Arrive(r) PROVE ReservedFirst'
    BY <1>2 DEF Arrive, Block, Admit
<1>3. ASSUME NEW r \in Requests, Project(r) \/ Snapshot(r) PROVE ReservedFirst'
    BY <1>3 DEF Project, Snapshot
<1>4. ASSUME NEW r \in Requests, Commit(r) \/ CommitFails(r) PROVE ReservedFirst'
    BY <1>1, <1>4 DEF Commit, CommitFails, Dispatch, Hold
<1>5. ASSUME NEW r \in Requests, NEW c \in 0 .. MaxCost, Settle(r, c) \/ SettleFails(r, c)
      PROVE  ReservedFirst'
    BY <1>5 DEF Settle, SettleFails
<1>6. ASSUME NEW r \in Requests, Log(r) \/ Unparseable(r) \/ ReadFails(r) PROVE ReservedFirst'
    BY <1>6 DEF Log, Unparseable, ReadFails
<1>7. ASSUME NEW p \in Replicas, Crash(p) PROVE ReservedFirst'
    BY <1>7 DEF Crash
<1>8. CASE Tick \/ UNCHANGED vars
    BY <1>8 DEF Tick, vars
<1> QED BY <1>2, <1>3, <1>4, <1>5, <1>6, <1>7, <1>8 DEF Next, Proceed

(* What is outstanding in the ledger is what the reserved counters hold.   *)
LEMMA LedgerOutstanding ==
    ASSUME OneDay, TypeOK, HistoryInv, CountersExplained, NEW k \in {DayKey, MonthKey}
    PROVE  /\ Ledger!Outstanding = reserved[k]
           /\ actual[k] = actual[DayKey]
<1> DEFINE O == {x \in Requests \X (1 .. MaxReservation) :
                    /\ [r \in Requests |->
                           IF settledOn[r] # Never THEN "charged"
                           ELSE IF reservedOn[r] # Never THEN "reserved" ELSE "new"][x[1]]
                       = "reserved"
                    /\ x[2] <= held[x[1]]}
<1>1. Never \notin Days /\ k \in Keys /\ DayKey \in Keys
      /\ \A d \in Days : k \in KeysOf(d) /\ DayKey \in KeysOf(d)
    <2>1. Days = {0} /\ Keys = KeysOf(0)
        BY SoleDay
    <2>2. KeysOf(0) = {DayKey, MonthKey}
        BY DEF KeysOf, DayKey, MonthKey
    <2> QED BY <2>1, <2>2 DEF Never
<1>2. ReleasedUnits(k) \subseteq HeldUnits(k)
    <2> SUFFICES ASSUME NEW x \in ReleasedUnits(k) PROVE x \in HeldUnits(k)
        OBVIOUS
    <2>1. x[1] \in Requests /\ x[2] \in 1 .. MaxReservation /\ x[2] <= held[x[1]]
        BY DEF ReleasedUnits
    <2>2. reservedOn[x[1]] # Never
        BY <2>1 DEF HistoryInv
    <2>3. reservedOn[x[1]] \in Days
        BY <2>1, <2>2 DEF TypeOK
    <2> QED BY <1>1, <2>1, <2>3 DEF HeldUnits, ReleasedUnits
<1>3. O = HeldUnits(k) \ ReleasedUnits(k)
    <2>1. \A r \in Requests : /\ reservedOn[r] # Never <=> reservedOn[r] \in Days
                              /\ settledOn[r] # Never <=> settledOn[r] \in Days
        BY <1>1 DEF TypeOK
    <2> QED BY <1>1, <2>1 DEF HeldUnits, ReleasedUnits, SettledIn
<1>4. Cardinality(O) = Cardinality(HeldUnits(k)) - Cardinality(ReleasedUnits(k))
    <2>1. HeldUnits(k) \cap ReleasedUnits(k) = ReleasedUnits(k)
        BY <1>2
    <2>2. IsFiniteSet(HeldUnits(k))
        BY UnitsFinite
    <2> HIDE DEF O
    <2> QED BY <1>3, <2>1, <2>2, FS_Difference
<1>5. Ledger!Outstanding = Cardinality(O)
    BY DEF Ledger!Outstanding, Ledger!Cardinality, Cardinality
<1>6. SpentUnits(k) = SpentUnits(DayKey)
    BY <1>1 DEF SpentUnits, SettledIn
<1> HIDE DEF O
<1> QED BY <1>1, <1>4, <1>5, <1>6 DEF CountersExplained

LedgerInv == OneInv /\ CountersExplained /\ ReservedFirst

LEMMA LedgerReserve ==
    ASSUME OneDay, LedgerInv, NEW r \in Requests, Hold(r), pc[r] = "approved",
           NEW amount \in 0 .. MaxReservation, amount = Reservation[model[r]],
           UNCHANGED <<actual, cost, settledOn>>
    PROVE  Ledger!Reserve(r, amount)
<1> DEFINE state == [s \in Requests |->
                        IF settledOn[s] # Never THEN "charged"
                        ELSE IF reservedOn[s] # Never THEN "reserved" ELSE "new"]
<1> USE DEF LedgerInv, OneInv
<1>1. Never \notin Days
    BY DEF Never, Days
<1>2. settledOn[r] = Never /\ reservedOn[r] = Never
    BY DEF HistoryInv
<1>3. Affordable(amount) /\ today = 0
    BY SoleDay DEF Approved
<1>4. /\ actual[DayKey] + reserved[DayKey] + amount <= DailyBudget
      /\ actual[MonthKey] + reserved[MonthKey] + amount <= MonthlyBudget
    BY <1>3 DEF Affordable, KeysOf, Limit, DayKey, MonthKey
<1>5. /\ Ledger!Outstanding = reserved[DayKey] /\ Ledger!Outstanding = reserved[MonthKey]
      /\ actual[MonthKey] = actual[DayKey]
    BY LedgerOutstanding
<1>6. actual[DayKey] + Ledger!Outstanding + amount
          <= IF DailyBudget <= MonthlyBudget THEN DailyBudget ELSE MonthlyBudget
    BY <1>4, <1>5
<1>7. state' = [state EXCEPT ![r] = "reserved"]
    <2>1. reservedOn' = [reservedOn EXCEPT ![r] = today] /\ today # Never
        BY <1>1 DEF Hold, TypeOK
    <2>2. \A s \in Requests : state'[s] = IF s = r THEN "reserved" ELSE state[s]
        BY <1>2, <2>1 DEF TypeOK
    <2> QED BY <2>2
<1>8. held' = [held EXCEPT ![r] = amount] /\ UNCHANGED actual
    BY DEF Hold
<1>9. state[r] = "new"
    BY <1>2
<1> QED BY <1>6, <1>7, <1>8, <1>9 DEF Ledger!Reserve, DayKey

LEMMA LedgerCharge ==
    ASSUME OneDay, LedgerInv, NEW r \in Requests, NEW c \in 0 .. MaxCost, Reconcile(r, c),
           pc[r] \in {"calling", "unrouted"}, UNCHANGED <<held, reservedOn>>
    PROVE  Ledger!Charge(r, c)
<1> DEFINE state == [s \in Requests |->
                        IF settledOn[s] # Never THEN "charged"
                        ELSE IF reservedOn[s] # Never THEN "reserved" ELSE "new"]
<1> USE DEF LedgerInv, OneInv
<1>1. Never \notin Days
    BY DEF Never, Days
<1>2. settledOn[r] = Never /\ reservedOn[r] # Never
    BY DEF HistoryInv, ReservedFirst
<1>3. DayKey \in KeysOf(today) /\ DayKey \in Keys
    BY SoleDay DEF KeysOf, DayKey
<1>4. actual'[DayKey] = actual[DayKey] + c
    BY <1>3 DEF Reconcile, Add
<1>5. state' = [state EXCEPT ![r] = "charged"]
    <2>1. settledOn' = [settledOn EXCEPT ![r] = today] /\ today # Never
        BY <1>1 DEF Reconcile, TypeOK
    <2>2. \A s \in Requests : state'[s] = IF s = r THEN "charged" ELSE state[s]
        BY <1>2, <2>1 DEF TypeOK
    <2> QED BY <2>2
<1>6. state[r] = "reserved"
    BY <1>2
<1> QED BY <1>4, <1>5, <1>6 DEF Ledger!Charge, DayKey

LEMMA LedgerStep ==
    ASSUME OneDay, LedgerInv, [Next]_vars
    PROVE  [Ledger!Next]_(Ledger!vars)
<1>1. ASSUME NEW r \in Requests, Commit(r) \/ CommitFails(r) PROVE [Ledger!Next]_(Ledger!vars)
    <2>1. CASE Hold(r)
        <3>1. PICK amount \in 0 .. MaxReservation : amount = Reservation[model[r]]
            BY DEF LedgerInv, OneInv, TypeOK
        <3>2. Ledger!Reserve(r, amount)
            BY <1>1, <2>1, <3>1, LedgerReserve DEF Commit, CommitFails
        <3> QED BY <3>2 DEF Ledger!Next
    <2>2. CASE UNCHANGED <<reserved, held, reservedOn>>
        BY <1>1, <2>2 DEF Commit, CommitFails, Ledger!vars
    <2> QED BY <1>1, <2>1, <2>2 DEF Commit, CommitFails
<1>2. ASSUME NEW r \in Requests, NEW c \in 0 .. MaxCost, Settle(r, c) \/ SettleFails(r, c)
      PROVE  [Ledger!Next]_(Ledger!vars)
    <2>1. CASE Reconcile(r, c)
        <3>1. Ledger!Charge(r, c)
            BY <1>2, <2>1, LedgerCharge DEF Settle, SettleFails, Outcome
        <3> QED BY <3>1 DEF Ledger!Next
    <2>2. CASE UNCHANGED <<counters, cost, settledOn>>
        BY <1>2, <2>2 DEF Settle, SettleFails, Ledger!vars, counters
    <2> QED BY <1>2, <2>1, <2>2 DEF Settle, SettleFails
<1>3. ASSUME NEW r \in Requests,
             \/ Arrive(r) \/ Project(r) \/ Snapshot(r)
             \/ Log(r) \/ Unparseable(r) \/ ReadFails(r)
      PROVE  UNCHANGED Ledger!vars
    BY <1>3 DEF Arrive, Block, Admit, Project, Snapshot, Log, Unparseable, ReadFails,
                counters, history, Ledger!vars
<1>4. ASSUME NEW p \in Replicas, Crash(p) PROVE UNCHANGED Ledger!vars
    BY <1>4 DEF Crash, counters, history, Ledger!vars
<1>5. CASE Tick \/ UNCHANGED vars
    BY <1>5 DEF Tick, vars, counters, history, Ledger!vars
<1> QED BY <1>1, <1>2, <1>3, <1>4, <1>5 DEF Next, Proceed

LEMMA LedgerInit == Init => Ledger!Init
BY DEF Init, Ledger!Init, Keys, KeysOf, Days

(* One gateway process implements the ledger within a day: its two-step    *)
(* reservation is as good as one indivisible step, and its counters are    *)
(* the true sums, whatever else the handlers, Redis and the process do.    *)
THEOREM OneReplicaImplementsLedger ==
    ASSUME OneReplica, OneDay, ReservationEnabled
    PROVE  Spec => ImplementsLedger
<1>1. Init => LedgerInv
    BY OneInit, ExplainedInit DEF LedgerInv, ReservedFirst, Init
<1>2. LedgerInv /\ [Next]_vars => LedgerInv'
    BY OneStep, ExplainedStep, ReservedFirstStep DEF LedgerInv, OneInv
<1>3. LedgerInv /\ [Next]_vars => [Ledger!Next]_(Ledger!vars)
    BY LedgerStep
<1> QED BY <1>1, <1>2, <1>3, LedgerInit, PTL DEF Spec, ImplementsLedger, Ledger!Spec
=============================================================================
