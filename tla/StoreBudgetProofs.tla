------------------------- MODULE StoreBudgetProofs -------------------------
(***************************************************************************)
(* Theorems about StoreBudget: any number of calls, of days and of lives   *)
(* of the process, and any budget.                                         *)
(*                                                                         *)
(* Every behaviour of StoreBudget is one of AuditPipeline, whose theorems  *)
(* hold of it too.  FallbackOvershoot needs an inductive invariant of its  *)
(* own, and facts about the sum it is stated with.                         *)
(***************************************************************************)
EXTENDS StoreBudget, AuditPipelineProofs, SetInduction

-----------------------------------------------------------------------------
(* The sum of c over a set, which the fold of the library computes with a  *)
(* recursive function over its subsets.                                    *)

First(A) == CHOOSE x \in A : TRUE

SumsUpTo(c, A, g) ==
    g = [s \in SUBSET A |-> IF s = {} THEN 0 ELSE c[First(s)] + g[s \ {First(s)}]]

Total(c, A) == (CHOOSE g : SumsUpTo(c, A, g))[A]

LEMMA SumIsTotal ==
    ASSUME NEW c, NEW A
    PROVE  MapThenSumSet(LAMBDA e : c[e], A) = Total(c, A)
BY DEF MapThenSumSet, MapThenFoldSet, Total, SumsUpTo, First

LEMMA FirstIn == \A A : A # {} => First(A) \in A
BY DEF First

LEMMA SumsAt ==
    ASSUME NEW c, NEW A, NEW g, SumsUpTo(c, A, g)
    PROVE  /\ g[{}] = 0
           /\ \A s \in SUBSET A : s # {} => g[s] = c[First(s)] + g[s \ {First(s)}]
BY DEF SumsUpTo

LEMMA SumsAgree ==
    ASSUME NEW A, NEW B \in SUBSET A, IsFiniteSet(A),
           NEW c, NEW g, NEW h, SumsUpTo(c, A, g), SumsUpTo(c, B, h)
    PROVE  g[B] = h[B]
<1> DEFINE T == {s \in SUBSET B : g[s] = h[s]}
<1>1. IsFiniteSet(B)
  BY FS_Subset
<1>2. {} \in T
  BY SumsAt
<1>3. ASSUME NEW s \in SUBSET B, s # {}, \A x \in s : s \ {x} \in T PROVE s \in T
  <2>1. First(s) \in s
    BY <1>3, FirstIn
  <2>2. g[s \ {First(s)}] = h[s \ {First(s)}]
    BY <1>3, <2>1
  <2>3. g[s] = c[First(s)] + g[s \ {First(s)}]
    <3>1. s \in SUBSET A
      OBVIOUS
    <3>2. \A u \in SUBSET A : u # {} => g[u] = c[First(u)] + g[u \ {First(u)}]
      BY SumsAt
    <3> QED BY <1>3, <3>1, <3>2
  <2>4. h[s] = c[First(s)] + h[s \ {First(s)}]
    <3>1. \A u \in SUBSET B : u # {} => h[u] = c[First(u)] + h[u \ {First(u)}]
      BY SumsAt
    <3> QED BY <1>3, <3>1
  <2> QED BY <2>2, <2>3, <2>4
<1>4. \A s \in SUBSET B : s \in T
  <2> HIDE DEF T
  <2> QED BY <1>1, <1>2, <1>3, SubsetInduction
<1> QED BY <1>4

LEMMA TotalOnce ==
    ASSUME NEW A, A # {}, IsFiniteSet(A), NEW c,
           \E g : SumsUpTo(c, A, g), \E g : SumsUpTo(c, A \ {First(A)}, g)
    PROVE  Total(c, A) = c[First(A)] + Total(c, A \ {First(A)})
<1> DEFINE B == A \ {First(A)}
           g == CHOOSE f : SumsUpTo(c, A, f)
           h == CHOOSE f : SumsUpTo(c, B, f)
<1>1. SumsUpTo(c, A, g) /\ SumsUpTo(c, B, h)
  OBVIOUS
<1>2. Total(c, A) = g[A] /\ Total(c, B) = h[B]
  BY DEF Total
<1> HIDE DEF g, h
<1>3. g[A] = c[First(A)] + g[B]
  BY <1>1, SumsAt
<1>4. g[B] = h[B]
  <2>1. B \in SUBSET A
    OBVIOUS
  <2> HIDE DEF B
  <2> QED BY <1>1, <2>1, SumsAgree
<1> QED BY <1>2, <1>3, <1>4

LEMMA SumsExist ==
    ASSUME NEW S, IsFiniteSet(S), NEW c
    PROVE  \A A \in SUBSET S : \E g : SumsUpTo(c, A, g)
<1> DEFINE T == {A \in SUBSET S : \A B \in SUBSET A : \E g : SumsUpTo(c, B, g)}
<1>1. ASSUME NEW A \in SUBSET S, \A x \in A : A \ {x} \in T PROVE A \in T
  <2>1. ASSUME NEW B \in SUBSET A, B # A PROVE \E g : SumsUpTo(c, B, g)
    <3>1. PICK x \in A : B \in SUBSET (A \ {x})
      BY <2>1
    <3> QED BY <1>1, <3>1
  <2> DEFINE g == [s \in SUBSET A |->
                      IF s = {} THEN 0 ELSE c[First(s)] + Total(c, s \ {First(s)})]
  <2>2. ASSUME NEW s \in SUBSET A, s # {} PROVE g[s \ {First(s)}] = Total(c, s \ {First(s)})
    <3> DEFINE r == s \ {First(s)}
    <3>1. r \in SUBSET A /\ r # A
      BY <2>2, FirstIn
    <3>2. CASE r = {}
      <4>1. \E f : SumsUpTo(c, {}, f)
        BY <2>1, <3>1, <3>2
      <4>2. SumsUpTo(c, {}, CHOOSE f : SumsUpTo(c, {}, f))
        BY <4>1
      <4>3. Total(c, {}) = 0
        BY <4>2, SumsAt DEF Total
      <4>4. g[{}] = 0
        OBVIOUS
      <4> QED BY <3>2, <4>3, <4>4
    <3>3. CASE r # {}
      <4>1. r \ {First(r)} \in SUBSET A /\ r \ {First(r)} # A
        BY <3>1
      <4>2. (\E f : SumsUpTo(c, r, f)) /\ (\E f : SumsUpTo(c, r \ {First(r)}, f))
        BY <2>1, <3>1, <4>1
      <4>3. IsFiniteSet(r)
        BY <3>1, FS_Subset
      <4>4. g[r] = c[First(r)] + Total(c, r \ {First(r)})
        BY <3>1, <3>3
      <4> HIDE DEF r, g
      <4>5. g[r] = Total(c, r)
        BY <3>3, <4>2, <4>3, <4>4, TotalOnce
      <4> QED BY <4>5 DEF r
    <3> QED BY <3>2, <3>3
  <2>3. g = [s \in SUBSET A |-> IF s = {} THEN 0 ELSE c[First(s)] + g[s \ {First(s)}]]
    <3>1. \A s \in SUBSET A :
             g[s] = IF s = {} THEN 0 ELSE c[First(s)] + g[s \ {First(s)}]
      BY <2>2
    <3>2. DOMAIN g = SUBSET A /\ g = [s \in SUBSET A |-> g[s]]
      OBVIOUS
    <3> HIDE DEF g
    <3> QED BY <3>1, <3>2
  <2>4. SumsUpTo(c, A, g)
    <3> HIDE DEF g
    <3> QED BY <2>3 DEF SumsUpTo
  <2> QED BY <2>1, <2>4
<1>2. {} \in T
  BY <1>1
<1>3. \A A \in SUBSET S : A \in T
  <2> HIDE DEF T
  <2> QED BY <1>1, <1>2, SubsetInduction
<1> QED BY <1>3

LEMMA TotalUnfolds ==
    ASSUME NEW S, IsFiniteSet(S), NEW c
    PROVE  /\ Total(c, {}) = 0
           /\ \A A \in SUBSET S : A # {} => Total(c, A) = c[First(A)] + Total(c, A \ {First(A)})
<1>1. \A A \in SUBSET S : IsFiniteSet(A) /\ \E g : SumsUpTo(c, A, g)
  BY SumsExist, FS_Subset
<1>2. Total(c, {}) = 0
  <2>1. SumsUpTo(c, {}, CHOOSE g : SumsUpTo(c, {}, g))
    BY <1>1
  <2> QED BY <2>1, SumsAt DEF Total
<1> QED BY <1>1, <1>2, TotalOnce

LEMMA TotalType ==
    ASSUME NEW S, IsFiniteSet(S), NEW c \in [S -> Nat]
    PROVE  \A A \in SUBSET S : Total(c, A) \in Nat
<1> DEFINE T == {A \in SUBSET S : Total(c, A) \in Nat}
<1>1. {} \in T
  BY TotalUnfolds
<1>2. ASSUME NEW A \in SUBSET S, A # {}, \A x \in A : A \ {x} \in T PROVE A \in T
  <2>1. First(A) \in A /\ Total(c, A) = c[First(A)] + Total(c, A \ {First(A)})
    BY <1>2, FirstIn, TotalUnfolds
  <2>2. Total(c, A \ {First(A)}) \in Nat /\ c[First(A)] \in Nat
    BY <1>2, <2>1
  <2> QED BY <2>1, <2>2
<1>3. \A A \in SUBSET S : A \in T
  <2> HIDE DEF T
  <2> QED BY <1>1, <1>2, SubsetInduction
<1> QED BY <1>3

(* It is the sum in whatever order it is taken. *)
LEMMA TotalRemove ==
    ASSUME NEW S, IsFiniteSet(S), NEW c \in [S -> Nat]
    PROVE  \A A \in SUBSET S : \A x \in A : Total(c, A) = c[x] + Total(c, A \ {x})
<1> DEFINE T == {A \in SUBSET S : \A x \in A : Total(c, A) = c[x] + Total(c, A \ {x})}
<1>1. {} \in T
  OBVIOUS
<1>2. ASSUME NEW A \in SUBSET S, A # {}, \A x \in A : A \ {x} \in T PROVE A \in T
  <2> SUFFICES ASSUME NEW x \in A PROVE Total(c, A) = c[x] + Total(c, A \ {x})
    OBVIOUS
  <2> DEFINE y == First(A)
  <2>1. y \in A /\ Total(c, A) = c[y] + Total(c, A \ {y})
    BY <1>2, FirstIn, TotalUnfolds
  <2> HIDE DEF y
  <2>2. CASE x = y
    BY <2>1, <2>2
  <2>3. CASE x # y
    <3>1. Total(c, A \ {y}) = c[x] + Total(c, (A \ {y}) \ {x})
      BY <1>2, <2>1, <2>3
    <3>2. Total(c, A \ {x}) = c[y] + Total(c, (A \ {x}) \ {y})
      BY <1>2, <2>1, <2>3
    <3>3. (A \ {y}) \ {x} = (A \ {x}) \ {y}
      OBVIOUS
    <3>4. c[x] \in Nat /\ c[y] \in Nat /\ Total(c, (A \ {x}) \ {y}) \in Nat
      BY <2>1, TotalType
    <3> QED BY <2>1, <3>1, <3>2, <3>3, <3>4
  <2> QED BY <2>2, <2>3
<1>3. \A A \in SUBSET S : A \in T
  <2> HIDE DEF T
  <2> QED BY <1>1, <1>2, SubsetInduction
<1> QED BY <1>3

LEMMA TotalSame ==
    ASSUME NEW S, IsFiniteSet(S), NEW c, NEW d, \A x \in S : c[x] = d[x]
    PROVE  Total(c, S) = Total(d, S)
<1> DEFINE T == {A \in SUBSET S : Total(c, A) = Total(d, A)}
<1>1. {} \in T
  BY TotalUnfolds
<1>2. ASSUME NEW A \in SUBSET S, A # {}, \A x \in A : A \ {x} \in T PROVE A \in T
  <2>1. First(A) \in A /\ Total(c, A) = c[First(A)] + Total(c, A \ {First(A)})
    BY <1>2, FirstIn, TotalUnfolds
  <2>2. Total(d, A) = d[First(A)] + Total(d, A \ {First(A)})
    BY <1>2, TotalUnfolds
  <2>3. Total(c, A \ {First(A)}) = Total(d, A \ {First(A)})
    BY <1>2, <2>1
  <2> QED BY <2>1, <2>2, <2>3
<1>3. \A A \in SUBSET S : A \in T
  <2> HIDE DEF T
  <2> QED BY <1>1, <1>2, SubsetInduction
<1> QED BY <1>3

(* The sum over a larger set is no less, and no more than so many times    *)
(* the most there is.                                                      *)
LEMMA TotalBetween ==
    ASSUME NEW S, IsFiniteSet(S), NEW m \in Nat, NEW c \in [S -> 0 .. m]
    PROVE  \A B \in SUBSET S : \A A \in SUBSET B :
              /\ Total(c, A) <= Total(c, B)
              /\ Total(c, B) <= Total(c, A) + m * Cardinality(B \ A)
<1> DEFINE Ok(A, B) == /\ Total(c, A) <= Total(c, B)
                       /\ Total(c, B) <= Total(c, A) + m * Cardinality(B \ A)
           T == {B \in SUBSET S : \A A \in SUBSET B : Ok(A, B)}
<1>0. c \in [S -> Nat]
  OBVIOUS
<1>a. \A A \in SUBSET S : Total(c, A) \in Nat
  BY <1>0, TotalType
<1>b. \A A \in SUBSET S : IsFiniteSet(A) /\ Cardinality(A) \in Nat
  BY FS_Subset, FS_CardinalityType
<1>1. ASSUME NEW A \in SUBSET S PROVE Ok(A, A)
  <2>1. Cardinality(A \ A) = 0
    BY FS_EmptySet
  <2> QED BY <1>a, <2>1
<1>2. {} \in T
  <2>1. \A A \in SUBSET {} : A = {} /\ Ok(A, {})
    BY <1>1
  <2> HIDE DEF Ok
  <2> QED BY <2>1
<1>3. ASSUME NEW B \in SUBSET S, \A x \in B : B \ {x} \in T PROVE B \in T
  <2> SUFFICES ASSUME NEW A \in SUBSET B PROVE Ok(A, B)
    OBVIOUS
  <2>1. CASE A = B
    BY <1>1, <2>1
  <2>2. CASE A # B
    <3>1. PICK x \in B : x \notin A
      BY <2>2
    <3>2. Ok(A, B \ {x})
      <4>1. A \in SUBSET (B \ {x})
        BY <3>1
      <4> HIDE DEF Ok
      <4> QED BY <1>3, <4>1
    <3>3. Total(c, B) = c[x] + Total(c, B \ {x}) /\ c[x] \in 0 .. m
      BY <1>0, <3>1, TotalRemove
    <3>4. Cardinality(B \ A) = Cardinality((B \ {x}) \ A) + 1
      <4> DEFINE D == B \ A
      <4>1. (B \ {x}) \ A = D \ {x} /\ x \in D /\ D \in SUBSET S /\ D \ {x} \in SUBSET S
        BY <3>1
      <4>2. IsFiniteSet(D) /\ Cardinality(D) \in Nat /\ Cardinality(D \ {x}) \in Nat
        BY <1>b, <4>1
      <4> HIDE DEF D
      <4>3. Cardinality(D \ {x}) = Cardinality(D) - 1
        BY <4>1, <4>2, FS_RemoveElement
      <4>4. Cardinality(D) = Cardinality(D \ {x}) + 1
        BY <4>2, <4>3
      <4> QED BY <4>1, <4>4 DEF D
    <3> DEFINE k == Cardinality((B \ {x}) \ A)
    <3>5. k \in Nat
      BY <1>b
    <3>6. /\ Total(c, A) \in Nat /\ Total(c, B) \in Nat /\ Total(c, B \ {x}) \in Nat
      BY <1>a
    <3>7. /\ Total(c, A) <= Total(c, B \ {x})
          /\ Total(c, B \ {x}) <= Total(c, A) + m * k
      BY <3>2
    <3> HIDE DEF k
    <3>8. m * (k + 1) = m * k + m /\ m * k \in Nat
      BY <3>5
    <3>9. Cardinality(B \ A) = k + 1
      BY <3>4 DEF k
    <3> QED BY <3>3, <3>6, <3>7, <3>8, <3>9
  <2> QED BY <2>1, <2>2
<1>4. \A B \in SUBSET S : B \in T
  <2> HIDE DEF T
  <2> QED BY <1>2, <1>3, SubsetInduction, Zenon
<1> QED BY <1>4

LEMMA ProductGrows ==
    ASSUME NEW m \in Nat, NEW a \in Nat, NEW b \in Nat, a <= b
    PROVE  m * a <= m * b
<1>1. PICK k \in Nat : b = a + k
  <2>1. b - a \in Nat /\ b = a + (b - a)
    OBVIOUS
  <2> QED BY <2>1
<1>2. m * (a + k) = m * a + m * k /\ m * a \in Nat /\ m * k \in Nat
  OBVIOUS
<1> QED BY <1>1, <1>2

-----------------------------------------------------------------------------
(* What a step does to the pipeline, as far as the budget is concerned.    *)

LEMMA LogEffect ==
    ASSUME TypeOK, NEW e \in Events, LogCall(e)
    PROVE  /\ Next
           /\ e \notin Range(logged) \cup raised
           /\ Range(logged') \cup raised' = Range(logged) \cup raised \cup {e}
           /\ Range(store') \cup Range(queue') \cup spool'
                  \in SUBSET (Range(store) \cup Range(queue) \cup spool \cup {e})
<1> USE DEF TypeOK
<1>1. \A s \in Seq(Events) : Range(Append(s, e)) = Range(s) \cup {e}
  BY RangeAppend
<1>2. CASE Enqueue(e)
  BY <1>1, <1>2 DEF Next, Enqueue, Unlogged, Returns
<1>3. CASE Overflow(e)
  <2>1. /\ e \notin Range(logged) \cup raised
        /\ store' = store /\ queue' = queue /\ spool' \in {spool, spool \cup {e}}
        /\ \/ logged' = Append(logged, e) /\ raised' = raised
           \/ logged' = logged /\ raised' = raised \cup {e}
    BY <1>3 DEF Overflow, Unlogged, Returns, Raises, Spill, SpillRaises
  <2>2. Next
    BY <1>3 DEF Next
  <2> QED BY <1>1, <2>1, <2>2
<1>4. CASE WriteThrough(e)
  <2>1. /\ e \notin Range(logged) \cup raised
        /\ store' \in {store, Append(store, e)} /\ queue' = queue /\ spool' = spool
        /\ \/ logged' = Append(logged, e) /\ raised' = raised
           \/ logged' = logged /\ raised' = raised \cup {e}
    BY <1>4 DEF WriteThrough, Unlogged, Returns, Raises, Insert, InsertRaises
  <2>2. Next
    BY <1>4 DEF Next
  <2> QED BY <1>1, <2>1, <2>2
<1> QED BY <1>2, <1>3, <1>4 DEF LogCall

LEMMA DrainEffect ==
    ASSUME TypeOK, Drain
    PROVE  /\ Next
           /\ UNCHANGED <<logged, raised>>
           /\ Range(store') \cup Range(queue') \cup spool'
                  \in SUBSET (Range(store) \cup Range(queue) \cup spool)
<1> USE DEF TypeOK
<1>1. CASE Wake \/ Rest
  BY <1>1 DEF Next, Drain, Wake, Rest
<1>2. CASE Persist \/ PersistFails
  <2>1. /\ queue # <<>> /\ queue' = Tail(queue) /\ UNCHANGED <<logged, raised>>
        /\ store' \in {store, Append(store, Head(queue))}
        /\ spool' \in {spool, spool \cup {Head(queue)}}
    <3>1. CASE Persist
      BY <3>1 DEF Persist, Insert
    <3>2. CASE PersistFails
      BY <3>2 DEF PersistFails, InsertRaises, Spill, SpillRaises
    <3> QED BY <1>2, <3>1, <3>2
  <2>2. /\ Head(queue) \in Events /\ Head(queue) \in Range(queue)
        /\ Range(Tail(queue)) \in SUBSET Range(queue)
    BY <2>1, RangeTail
  <2>3. Range(Append(store, Head(queue))) = Range(store) \cup {Head(queue)}
    BY <2>2, RangeAppend
  <2> QED BY <1>2, <2>1, <2>2, <2>3 DEF Next, Drain
<1> QED BY <1>1, <1>2 DEF Drain

-----------------------------------------------------------------------------
(* The pipeline within.                                                    *)

LEMMA BudgetStepIsPipelineStep == TypeOK /\ [NextBudget]_budgetVars => [Next]_vars
<1> SUFFICES ASSUME TypeOK, [NextBudget]_budgetVars PROVE [Next]_vars
  OBVIOUS
<1>1. ASSUME NEW e \in Events, Approve(e) \/ CheckFails(e) PROVE [Next]_vars
  BY <1>1 DEF Approve, CheckFails
<1>2. ASSUME NEW e \in Events, Refuse(e) \/ Finish(e) PROVE [Next]_vars
  BY <1>2, LogEffect DEF Refuse, Finish
<1>3. ASSUME Worker PROVE [Next]_vars
  BY <1>3, DrainEffect DEF Worker
<1>4. ASSUME Shutdown \/ RestartAll PROVE [Next]_vars
  BY <1>4 DEF Shutdown, RestartAll, Next
<1>5. ASSUME Midnight PROVE [Next]_vars
  BY <1>5 DEF Midnight
<1>6. ASSUME UNCHANGED budgetVars PROVE [Next]_vars
  BY <1>6 DEF budgetVars
<1> QED BY <1>1, <1>2, <1>3, <1>4, <1>5, <1>6 DEF NextBudget

(* StoreBudget's calls drive the pipeline only as AuditPipeline says that  *)
(* handlers do: every behaviour of it is a behaviour of AuditPipeline,     *)
(* whose theorems hold of it.                                              *)
THEOREM BudgetDrivesThePipeline == SpecBudget => Spec
<1>1. InitBudget => Init
  BY DEF InitBudget
<1> QED BY <1>1, TypeInit, TypeStep, BudgetStepIsPipelineStep, PTL DEF SpecBudget, Spec

-----------------------------------------------------------------------------
(* The inductive invariant.                                                *)

TypedBudget ==
    /\ today \in Days
    /\ call \in [Events -> {"new", "calling", "lost", "failed", "refused", "done"}]
    /\ cost \in [Events -> 0 .. MaxCost]
    /\ approvedOn \in [Events -> Days \cup {NoDay}]
    /\ storedOn \in [Events -> Days \cup {NoDay}]
    /\ unseen \in [Days -> Nat]

(* A handler that passed the check has called, one that is through has     *)
(* logged.                                                                 *)
Handled ==
    \A e \in Events :
        /\ approvedOn[e] # NoDay <=> call[e] \in {"calling", "lost", "done"}
        /\ call[e] \in {"refused", "done"} <=> e \in Range(logged) \cup raised

(* The pipeline holds nothing that no handler logged. *)
Known == Range(store) \cup Range(queue) \cup spool \in SUBSET (Range(logged) \cup raised)

(* A row is no older than the approval of its call, and neither is of a    *)
(* day to come.                                                            *)
Stamped ==
    /\ \A e \in Events : approvedOn[e] <= today /\ storedOn[e] <= today
    /\ \A e \in Range(store) : approvedOn[e] <= storedOn[e]

ApprovedOn(d) == {e \in Events : approvedOn[e] = d}

(* S: the approved calls of the day that the day's last check counted.     *)
(* They fitted in the budget then, they are done and cost what they cost.  *)
Seen(d, S) ==
    /\ S \in SUBSET ApprovedOn(d)
    /\ \A e \in S : call[e] = "done"
    /\ Total(cost, S) <= DailyBudget - Reservation
    /\ Cardinality(ApprovedOn(d) \ S) <= unseen[d] + 1

Checked == \A d \in Days : ApprovedOn(d) # {} => \E S \in SUBSET Events : Seen(d, S)

BInv == TypeOK /\ TypedBudget /\ Handled /\ Known /\ Stamped /\ Checked

LEMMA DayNumbers == Days \in SUBSET Nat /\ NoDay \in Int /\ \A d \in Days : d # NoDay
BY StoreBudgetAssumption DEF Days, NoDay

LEMMA EventSets ==
    \A A \in SUBSET Events : IsFiniteSet(A) /\ Cardinality(A) \in Nat
BY AuditAssumption, FS_Subset, FS_CardinalityType

(* Rows are stamped as they come. *)
LEMMA StampEffect ==
    ASSUME TypedBudget, Stamped, StampRows, UNCHANGED <<today, approvedOn>>,
           Range(store') \in SUBSET Events
    PROVE  storedOn' \in [Events -> Days \cup {NoDay}] /\ Stamped'
<1>1. storedOn' \in [Events -> Days \cup {NoDay}]
  BY DEF TypedBudget, StampRows
<1>2. \A e \in Events : storedOn'[e] = today \/ storedOn'[e] = storedOn[e]
  BY DEF StampRows
<1>3. today \in Nat
  BY DayNumbers DEF TypedBudget
<1> QED
  <2>1. \A e \in Events : approvedOn'[e] <= today' /\ storedOn'[e] <= today'
    BY <1>2, <1>3 DEF Stamped
  <2>2. ASSUME NEW e \in Range(store') PROVE approvedOn'[e] <= storedOn'[e]
    <3>1. CASE e \in Range(store)
      BY <3>1 DEF Stamped, StampRows
    <3>2. CASE e \notin Range(store)
      <4>1. storedOn'[e] = today
        BY <3>2 DEF StampRows
      <4> QED BY <4>1 DEF Stamped
    <3> QED BY <3>1, <3>2
  <2> QED BY <1>1, <2>1, <2>2 DEF Stamped

(* A step that approves nothing, and changes nothing about the calls that  *)
(* are done, leaves Checked as it is.                                      *)
LEMMA CheckedStays ==
    ASSUME TypedBudget, Checked, UNCHANGED <<approvedOn, unseen>>,
           \A e \in Events : call[e] = "done" => call'[e] = "done" /\ cost'[e] = cost[e]
    PROVE  Checked'
<1> SUFFICES ASSUME NEW d \in Days, ApprovedOn(d)' # {}
             PROVE  \E S \in SUBSET Events : Seen(d, S)'
  BY DEF Checked
<1>1. ApprovedOn(d)' = ApprovedOn(d)
  BY DEF ApprovedOn
<1>2. PICK S \in SUBSET Events : Seen(d, S)
  BY <1>1 DEF Checked
<1>3. \A e \in S : call'[e] = "done" /\ cost'[e] = cost[e]
  BY <1>2 DEF Seen
<1>4. Total(cost', S) = Total(cost, S)
  BY <1>3, EventSets, TotalSame
<1>5. Seen(d, S)'
  BY <1>1, <1>2, <1>3, <1>4 DEF Seen
<1> QED BY <1>5

-----------------------------------------------------------------------------
(* The check itself: the approved calls it cannot count are Pending.       *)

LEMMA NotPending ==
    ASSUME TypeOK, TypedBudget, Handled, Stamped,
           NEW e \in ApprovedOn(today), e \notin Pending
    PROVE  call[e] = "done" /\ e \in Range(store) /\ storedOn[e] = today
<1>1. e \in Events /\ approvedOn[e] = today
  BY DEF ApprovedOn
<1>2. call[e] = "done"
  BY <1>1, DayNumbers DEF TypedBudget, Handled, Pending
<1>3. e \in Range(logged) \cup raised
  BY <1>1, <1>2 DEF Handled
<1>4. e \in Range(store)
  BY <1>1, <1>3 DEF Pending, Lost, Durable
<1>5. today <= storedOn[e] /\ storedOn[e] <= today
  BY <1>1, <1>4 DEF Stamped
<1>6. today \in Int /\ storedOn[e] \in Int
  <2>1. today \in Days /\ storedOn[e] \in Days \cup {NoDay}
    BY <1>1 DEF TypedBudget
  <2>2. \A d \in Days \cup {NoDay} : d \in Int
    BY DayNumbers
  <2> QED BY <2>1, <2>2
<1> QED BY <1>2, <1>4, <1>5, <1>6

LEMMA ApproveChecks ==
    ASSUME BInv, NEW e \in Events, Approve(e)
    PROVE  Checked'
<1>a. PICK S : S = ApprovedOn(today) \ Pending
  OBVIOUS
<1>b. PICK n \in Days : n = today
  BY DEF BInv, TypedBudget
<1>1. /\ call[e] = "new" /\ Affordable
      /\ approvedOn' = [approvedOn EXCEPT ![e] = today]
      /\ unseen' = [unseen EXCEPT ![today] = Cardinality(Pending)]
      /\ call' = [call EXCEPT ![e] = "calling"] /\ cost' = cost /\ today' = today
  BY DEF Approve
<1>2. \A x \in Events : call[x] = "done" => x # e /\ call'[x] = "done"
  BY <1>1 DEF BInv, TypedBudget
<1>3. approvedOn[e] = NoDay
  BY <1>1 DEF BInv, Handled
<1>4. ASSUME NEW d \in Days, d # today
      PROVE  ApprovedOn(d)' = ApprovedOn(d) /\ unseen'[d] = unseen[d]
  BY <1>1, <1>3, <1>4, DayNumbers DEF BInv, TypedBudget, ApprovedOn
<1>5. ApprovedOn(n)' = ApprovedOn(n) \cup {e}
  BY <1>1, <1>b DEF BInv, TypedBudget, ApprovedOn
<1>6. Seen(n, S)'
  <2>1. \A x \in S : call[x] = "done" /\ x \in Range(store) /\ storedOn[x] = today
    BY <1>a, NotPending DEF BInv
  <2>2. S \in SUBSET Events
    BY <1>a DEF ApprovedOn
  <2>3. Total(cost, S) <= DailyBudget - Reservation
    <3> DEFINE R == {x \in Range(store) : storedOn[x] = today}
    <3>1. Spent = Total(cost, R)
      BY SumIsTotal DEF Spent
    <3>2. R \in SUBSET Events /\ S \in SUBSET R
      BY <2>1 DEF BInv, TypeOK, Range
    <3> HIDE DEF R
    <3>3. Total(cost, S) <= Total(cost, R)
      BY <3>2, AuditAssumption, StoreBudgetAssumption, TotalBetween DEF BInv, TypedBudget
    <3>4. Total(cost, R) + Reservation <= DailyBudget
      BY <1>1, <3>1 DEF Affordable
    <3>5. Total(cost, S) \in Nat /\ Total(cost, R) \in Nat
      <4>1. cost \in [Events -> Nat]
        BY DEF BInv, TypedBudget
      <4> QED BY <2>2, <3>2, <4>1, AuditAssumption, TotalType
    <3> QED BY <3>3, <3>4, <3>5, StoreBudgetAssumption
  <2>4. Cardinality(ApprovedOn(n)' \ S) <= unseen'[n] + 1
    <3> DEFINE P == Pending
               Q == ApprovedOn(n)' \ S
    <3>1. P \in SUBSET Events /\ Q \in SUBSET (P \cup {e})
      BY <1>5, <1>a, <1>b DEF Pending
    <3>2. unseen'[n] = Cardinality(P)
      BY <1>1, <1>b DEF BInv, TypedBudget
    <3> HIDE DEF P, Q
    <3>3. \A A \in SUBSET Events : IsFiniteSet(A) /\ Cardinality(A) \in Nat
      BY EventSets
    <3>4. P \cup {e} \in SUBSET Events /\ Q \in SUBSET Events
      BY <3>1
    <3>5. Cardinality(P \cup {e}) <= Cardinality(P) + 1
      <4>1. Cardinality(P \cup {e}) = Cardinality(P) \/ Cardinality(P \cup {e}) = Cardinality(P) + 1
        BY <3>1, <3>3, FS_AddElement
      <4> QED BY <3>1, <3>3, <4>1
    <3>6. Cardinality(Q) <= Cardinality(P \cup {e})
      BY <3>1, <3>3, <3>4, FS_Subset
    <3>7. /\ Cardinality(Q) \in Nat /\ Cardinality(P) \in Nat
          /\ Cardinality(P \cup {e}) \in Nat
      BY <3>1, <3>3, <3>4
    <3>8. Cardinality(Q) <= unseen'[n] + 1
      BY <3>2, <3>5, <3>6, <3>7
    <3> QED BY <3>8 DEF Q
  <2>5. \A x \in S : call'[x] = "done"
    BY <1>2, <2>1, <2>2
  <2>6. S \in SUBSET (ApprovedOn(n)')
    BY <1>5, <1>a, <1>b
  <2> QED BY <1>1, <2>3, <2>4, <2>5, <2>6 DEF Seen
<1>7. ASSUME NEW d \in Days, ApprovedOn(d)' # {}
      PROVE  \E T \in SUBSET Events : Seen(d, T)'
  <2>1. CASE d = today
    <3>1. Seen(d, S)' /\ S \in SUBSET Events
      BY <1>6, <1>a, <1>b, <2>1 DEF ApprovedOn
    <3> QED BY <3>1
  <2>2. CASE d # today
    <3>1. PICK T \in SUBSET Events : Seen(d, T)
      BY <1>4, <1>7, <2>2 DEF BInv, Checked
    <3>2. Seen(d, T)'
      BY <1>1, <1>2, <1>4, <2>2, <3>1 DEF Seen
    <3> QED BY <3>2
  <2> QED BY <2>1, <2>2
<1> QED BY <1>7 DEF Checked

-----------------------------------------------------------------------------
(* Every step preserves it.                                                *)

LEMMA BInit == InitBudget => BInv
<1> SUFFICES ASSUME InitBudget PROVE BInv
  OBVIOUS
<1> USE DEF InitBudget
<1>1. TypeOK
  BY TypeInit
<1>2. TypedBudget
  BY StoreBudgetAssumption DEF TypedBudget, Days
<1>3. store = <<>> /\ queue = <<>> /\ logged = <<>> /\ spool = {} /\ raised = {}
  BY DEF Init
<1>4. Handled /\ Known
  BY <1>3, RangeEmpty DEF Handled, Known
<1>5. Stamped
  BY <1>3, RangeEmpty DEF Stamped, NoDay
<1>6. Checked
  BY DayNumbers DEF Checked, ApprovedOn
<1> QED BY <1>1, <1>2, <1>4, <1>5, <1>6 DEF BInv

(* The two steps of a handler that log. *)
LEMMA LoggingStep ==
    ASSUME BInv, TypeOK', NEW e \in Events, Refuse(e) \/ Finish(e)
    PROVE  BInv'
<1> USE DEF BInv
<1>1. /\ e \notin Range(logged) \cup raised
      /\ Range(logged') \cup raised' = Range(logged) \cup raised \cup {e}
      /\ Range(store') \cup Range(queue') \cup spool'
             \in SUBSET (Range(store) \cup Range(queue) \cup spool \cup {e})
  BY LogEffect DEF Refuse, Finish
<1>2. UNCHANGED <<today, approvedOn, unseen>> /\ StampRows
  BY DEF Refuse, Finish, LogCall
<1>3. /\ call[e] \in {"new", "calling"}
      /\ \/ call[e] = "new" /\ call' = [call EXCEPT ![e] = "refused"]
         \/ call[e] = "calling" /\ call' = [call EXCEPT ![e] = "done"]
      /\ \A x \in Events : x # e => cost'[x] = cost[x]
  BY DEF Refuse, Finish, TypedBudget
<1>4. Range(store') \in SUBSET Events
  BY DEF TypeOK, Range
<1>5. storedOn' \in [Events -> Days \cup {NoDay}] /\ Stamped'
  BY <1>2, <1>4, StampEffect
<1>6. TypedBudget'
  <2>1. call' \in [Events -> {"new", "calling", "lost", "failed", "refused", "done"}]
    BY <1>3 DEF TypedBudget
  <2>2. cost' \in [Events -> 0 .. MaxCost]
    BY StoreBudgetAssumption DEF Refuse, Finish, TypedBudget
  <2> QED BY <1>2, <1>5, <2>1, <2>2 DEF TypedBudget
<1>7. Handled'
  <2> SUFFICES ASSUME NEW x \in Events
               PROVE  /\ approvedOn'[x] # NoDay <=> call'[x] \in {"calling", "lost", "done"}
                      /\ call'[x] \in {"refused", "done"} <=> x \in Range(logged') \cup raised'
    BY DEF Handled
  <2>1. CASE x = e
    BY <1>1, <1>2, <1>3, <2>1 DEF Handled, TypedBudget
  <2>2. CASE x # e
    <3>1. call'[x] = call[x]
      BY <1>3, <2>2 DEF TypedBudget
    <3> QED BY <1>1, <1>2, <2>2, <3>1 DEF Handled
  <2> QED BY <2>1, <2>2
<1>8. Known'
  BY <1>1 DEF Known
<1>9. Checked'
  <2>1. \A x \in Events : call[x] = "done" => call'[x] = "done" /\ cost'[x] = cost[x]
    BY <1>3 DEF TypedBudget
  <2> QED BY <1>2, <2>1, CheckedStays
<1> QED BY <1>5, <1>6, <1>7, <1>8, <1>9

LEMMA BStep == BInv /\ [NextBudget]_budgetVars => BInv'
<1> SUFFICES ASSUME BInv, [NextBudget]_budgetVars PROVE BInv'
  OBVIOUS
<1> USE DEF BInv
<1>0. TypeOK'
  BY BudgetStepIsPipelineStep, TypeStep
<1>1. ASSUME NEW e \in Events, Approve(e) PROVE BInv'
  <2>1. /\ UNCHANGED <<store, queue, spool, logged, raised, today, cost, storedOn>>
        /\ call[e] = "new"
        /\ call' = [call EXCEPT ![e] = "calling"]
        /\ approvedOn' = [approvedOn EXCEPT ![e] = today]
        /\ unseen' = [unseen EXCEPT ![today] = Cardinality(Pending)]
    BY <1>1 DEF Approve, vars
  <2>2. Cardinality(Pending) \in Nat
    BY EventSets DEF Pending
  <2>3. TypedBudget'
    BY <2>1, <2>2 DEF TypedBudget
  <2>4. e \notin Range(logged) \cup raised
    BY <2>1 DEF Handled
  <2>5. Handled' /\ Known'
    <3>1. Known'
      BY <2>1 DEF Known
    <3>2. ASSUME NEW x \in Events
          PROVE  /\ approvedOn'[x] # NoDay <=> call'[x] \in {"calling", "lost", "done"}
                 /\ call'[x] \in {"refused", "done"} <=> x \in Range(logged') \cup raised'
      <4>1. CASE x = e
        BY <2>1, <2>4, <4>1, DayNumbers DEF TypedBudget
      <4>2. CASE x # e
        BY <2>1, <4>2 DEF TypedBudget, Handled
      <4> QED BY <4>1, <4>2
    <3> QED BY <3>1, <3>2 DEF Handled
  <2>6. Stamped'
    <3>1. e \notin Range(store)
      BY <2>4 DEF Known
    <3>2. today \in Nat
      BY DayNumbers DEF TypedBudget
    <3>3. /\ approvedOn'[e] = today
          /\ \A x \in Events \ {e} : approvedOn'[x] = approvedOn[x]
      BY <2>1 DEF TypedBudget
    <3>4. Range(store) \in SUBSET Events
      BY DEF TypeOK, Range
    <3>5. \A x \in Events : approvedOn'[x] <= today' /\ storedOn'[x] <= today'
      BY <2>1, <3>2, <3>3 DEF Stamped
    <3>6. \A x \in Range(store') : approvedOn'[x] <= storedOn'[x]
      BY <2>1, <3>1, <3>3, <3>4 DEF Stamped
    <3> QED BY <3>5, <3>6 DEF Stamped
  <2> QED BY <1>0, <1>1, <2>3, <2>5, <2>6, ApproveChecks
<1>2. ASSUME NEW e \in Events, CheckFails(e) PROVE BInv'
  <2>1. /\ UNCHANGED <<store, queue, spool, logged, raised, today, cost, approvedOn, storedOn, unseen>>
        /\ call[e] = "new"
        /\ call' = [call EXCEPT ![e] = "failed"]
    BY <1>2 DEF CheckFails, vars
  <2>2. TypedBudget' /\ Handled' /\ Known' /\ Stamped'
    BY <2>1 DEF TypedBudget, Handled, Known, Stamped
  <2>3. Checked'
    <3>1. \A x \in Events : call[x] = "done" => call'[x] = "done" /\ cost'[x] = cost[x]
      BY <2>1 DEF TypedBudget
    <3> QED BY <2>1, <3>1, CheckedStays
  <2> QED BY <1>0, <2>2, <2>3
<1>3. ASSUME NEW e \in Events, Refuse(e) \/ Finish(e) PROVE BInv'
  BY <1>0, <1>3, LoggingStep
<1>4. ASSUME Worker PROVE BInv'
  <2>1. /\ UNCHANGED <<logged, raised>>
        /\ Range(store') \cup Range(queue') \cup spool'
               \in SUBSET (Range(store) \cup Range(queue) \cup spool)
    BY <1>4, DrainEffect DEF Worker
  <2>2. StampRows /\ UNCHANGED <<today, call, cost, approvedOn, unseen>>
    BY <1>4 DEF Worker, handlers
  <2>3. Range(store') \in SUBSET Events
    BY <1>0 DEF TypeOK, Range
  <2>4. storedOn' \in [Events -> Days \cup {NoDay}] /\ Stamped'
    BY <2>2, <2>3, StampEffect
  <2>5. TypedBudget' /\ Handled' /\ Known'
    BY <2>1, <2>2, <2>4 DEF TypedBudget, Handled, Known
  <2>6. Checked'
    BY <2>2, CheckedStays
  <2> QED BY <1>0, <2>4, <2>5, <2>6
<1>5. ASSUME Shutdown PROVE BInv'
  <2>1. UNCHANGED <<store, queue, spool, logged, raised, today, call, cost, approvedOn, storedOn, unseen>>
    BY <1>5 DEF Shutdown, Stop, handlers
  <2>2. TypedBudget' /\ Handled' /\ Known' /\ Stamped'
    BY <2>1 DEF TypedBudget, Handled, Known, Stamped
  <2>3. Checked'
    BY <2>1, CheckedStays
  <2> QED BY <1>0, <2>2, <2>3
<1>6. ASSUME RestartAll PROVE BInv'
  <2>1. /\ UNCHANGED <<store, spool, logged, raised, today, approvedOn, storedOn, unseen>>
        /\ queue' = <<>>
        /\ call' = [e \in Events |-> IF call[e] = "calling" THEN "lost" ELSE call[e]]
        /\ cost' = [e \in Events |-> IF call[e] = "calling" THEN MaxCost ELSE cost[e]]
    BY <1>6 DEF RestartAll, Restart, Boot
  <2>2. MaxCost \in 0 .. MaxCost
    BY StoreBudgetAssumption
  <2>3. TypedBudget'
    BY <2>1, <2>2 DEF TypedBudget
  <2>4. Handled'
    BY <2>1 DEF Handled, TypedBudget
  <2>5. Known' /\ Stamped'
    BY <2>1, RangeEmpty DEF Known, Stamped
  <2>6. Checked'
    <3>1. \A x \in Events : call[x] = "done" => call'[x] = "done" /\ cost'[x] = cost[x]
      BY <2>1
    <3> QED BY <2>1, <3>1, CheckedStays
  <2> QED BY <1>0, <2>3, <2>4, <2>5, <2>6
<1>7. ASSUME Midnight PROVE BInv'
  <2>1. /\ UNCHANGED <<store, queue, spool, logged, raised, call, cost, approvedOn, storedOn, unseen>>
        /\ today < LastDay /\ today' = today + 1
    BY <1>7 DEF Midnight, vars, handlers
  <2>2. TypedBudget' /\ Handled' /\ Known'
    <3>1. today' \in Days
      BY <2>1, StoreBudgetAssumption DEF TypedBudget, Days
    <3> QED BY <2>1, <3>1 DEF TypedBudget, Handled, Known
  <2>3. Stamped'
    <3>1. ASSUME NEW x \in Events PROVE approvedOn'[x] <= today' /\ storedOn'[x] <= today'
      <4>1. \A d \in Days \cup {NoDay} : d \in Int
        BY DayNumbers
      <4>2. approvedOn[x] \in Int /\ storedOn[x] \in Int /\ today \in Int
        BY <4>1 DEF TypedBudget
      <4> QED BY <2>1, <4>2 DEF Stamped
    <3>2. \A x \in Range(store') : approvedOn'[x] <= storedOn'[x]
      BY <2>1 DEF Stamped
    <3> QED BY <3>1, <3>2 DEF Stamped
  <2>4. Checked'
    BY <2>1, CheckedStays
  <2> QED BY <1>0, <2>2, <2>3, <2>4
<1>8. ASSUME UNCHANGED budgetVars PROVE BInv'
  <2>1. UNCHANGED <<store, queue, spool, logged, raised, today, call, cost, approvedOn, storedOn, unseen>>
    BY <1>8 DEF budgetVars, vars, handlers
  <2>2. TypedBudget' /\ Handled' /\ Known' /\ Stamped'
    BY <2>1 DEF TypedBudget, Handled, Known, Stamped
  <2>3. Checked'
    BY <2>1, CheckedStays
  <2> QED BY <1>0, <2>2, <2>3
<1> HIDE DEF BInv
<1> QED BY <1>1, <1>2, <1>3, <1>4, <1>5, <1>6, <1>7, <1>8 DEF NextBudget

-----------------------------------------------------------------------------
LEMMA CheckedBoundsOvershoot == TypedBudget /\ Checked => FallbackOvershoot
<1> SUFFICES ASSUME TypedBudget, Checked, NEW d \in Days, ApprovedOn(d) # {}
             PROVE  Total(cost, ApprovedOn(d)) <= DailyBudget - Reservation + MaxCost * (unseen[d] + 1)
  BY SumIsTotal DEF FallbackOvershoot, ApprovedOn
<1>1. PICK S \in SUBSET Events : Seen(d, S)
  BY DEF Checked
<1>2. PICK A : A = ApprovedOn(d)
  OBVIOUS
<1>3. A \in SUBSET Events /\ S \in SUBSET A /\ A \ S \in SUBSET Events
  BY <1>1, <1>2 DEF Seen, ApprovedOn
<1>4. Total(cost, A) <= Total(cost, S) + MaxCost * Cardinality(A \ S)
  BY <1>3, AuditAssumption, StoreBudgetAssumption, TotalBetween DEF TypedBudget
<1>5. MaxCost * Cardinality(A \ S) <= MaxCost * (unseen[d] + 1)
  <2>1. /\ Cardinality(A \ S) \in Nat /\ unseen[d] + 1 \in Nat /\ MaxCost \in Nat
        /\ Cardinality(A \ S) <= unseen[d] + 1
    BY <1>1, <1>2, <1>3, EventSets, StoreBudgetAssumption DEF Seen, TypedBudget
  <2> QED BY <2>1, ProductGrows
<1>6. Total(cost, S) <= DailyBudget - Reservation
  BY <1>1 DEF Seen
<1>7. /\ Total(cost, A) \in Nat /\ Total(cost, S) \in Nat
      /\ DailyBudget \in Nat /\ Reservation \in Nat
      /\ MaxCost * Cardinality(A \ S) \in Nat /\ MaxCost * (unseen[d] + 1) \in Nat
  <2>1. cost \in [Events -> Nat]
    BY DEF TypedBudget
  <2>2. Total(cost, A) \in Nat /\ Total(cost, S) \in Nat
    BY <1>3, <2>1, AuditAssumption, TotalType
  <2>3. Cardinality(A \ S) \in Nat /\ unseen[d] + 1 \in Nat /\ MaxCost \in Nat
    BY <1>3, EventSets, StoreBudgetAssumption DEF TypedBudget
  <2> QED BY <2>2, <2>3, StoreBudgetAssumption
<1> QED BY <1>2, <1>4, <1>5, <1>6, <1>7

(* FallbackOvershoot, for any number of calls, days and lives, and any     *)
(* costs: without Redis the calls of a day exceed its budget by no more    *)
(* than those the day's last check (reserve over spend_since) could not    *)
(* see, and its own, at the most each can cost.                            *)
THEOREM OvershootAlwaysBounded == SpecBudget => []FallbackOvershoot
<1>1. BInv => FallbackOvershoot
  BY CheckedBoundsOvershoot DEF BInv
<1> QED BY <1>1, BInit, BStep, PTL DEF SpecBudget
=============================================================================
