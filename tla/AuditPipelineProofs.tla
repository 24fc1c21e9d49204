------------------------ MODULE AuditPipelineProofs ------------------------
(***************************************************************************)
(* AuditPipeline's invariants, proved for any number of events and lives   *)
(* of the process and any size of the queue.                               *)
(***************************************************************************)
EXTENDS AuditPipeline, FiniteSetTheorems, SequenceTheorems, TLAPS

USE AuditAssumption DEF Insert, InsertRaises, Spill, SpillRaises

-----------------------------------------------------------------------------
(* Sequences. *)

LEMMA RangeAppend ==
    ASSUME NEW S, NEW s \in Seq(S), NEW x \in S
    PROVE  /\ Append(s, x) \in Seq(S)
           /\ Len(Append(s, x)) = Len(s) + 1
           /\ Range(Append(s, x)) = Range(s) \cup {x}
<1>1. /\ Append(s, x) \in Seq(S) /\ Len(Append(s, x)) = Len(s) + 1
      /\ Append(s, x)[Len(s) + 1] = x
      /\ \A i \in 1 .. Len(s) : Append(s, x)[i] = s[i]
    BY AppendProperties
<1>2. DOMAIN Append(s, x) = 1 .. Len(s) + 1 /\ DOMAIN s = 1 .. Len(s) /\ Len(s) \in Nat
    BY <1>1, LenProperties
<1> QED BY <1>1, <1>2 DEF Range

LEMMA RangeTail ==
    ASSUME NEW S, NEW s \in Seq(S), s # <<>>
    PROVE  /\ Head(s) \in S /\ Tail(s) \in Seq(S) /\ Len(Tail(s)) = Len(s) - 1
           /\ Head(s) \in Range(s)
           /\ Range(s) = {Head(s)} \cup Range(Tail(s))
<1>1. /\ Head(s) = s[1] /\ Head(s) \in S
      /\ Tail(s) \in Seq(S) /\ Len(Tail(s)) = Len(s) - 1
      /\ \A i \in 1 .. Len(s) - 1 : Tail(s)[i] = s[i + 1]
    BY HeadTailProperties
<1>2. /\ DOMAIN s = 1 .. Len(s) /\ Len(s) \in Nat /\ Len(s) # 0
      /\ DOMAIN Tail(s) = 1 .. Len(s) - 1
    BY <1>1, LenProperties, EmptySeq
<1>3. \A i \in DOMAIN s : i = 1 \/ (i - 1 \in DOMAIN Tail(s) /\ Tail(s)[i - 1] = s[i])
    BY <1>1, <1>2
<1>4. \A i \in DOMAIN Tail(s) : i + 1 \in DOMAIN s /\ Tail(s)[i] = s[i + 1]
    BY <1>1, <1>2
<1>5. 1 \in DOMAIN s
    BY <1>2
<1>6. Range(s) = {Head(s)} \cup Range(Tail(s))
    <2>1. Range(s) \subseteq {Head(s)} \cup Range(Tail(s))
        <3> SUFFICES ASSUME NEW i \in DOMAIN s PROVE s[i] \in {Head(s)} \cup Range(Tail(s))
            BY DEF Range
        <3>1. CASE i = 1
            BY <1>1, <3>1
        <3>2. CASE i - 1 \in DOMAIN Tail(s) /\ Tail(s)[i - 1] = s[i]
            BY <3>2 DEF Range
        <3> QED BY <1>3, <3>1, <3>2
    <2>2. Range(Tail(s)) \subseteq Range(s)
        BY <1>4 DEF Range
    <2>3. Head(s) \in Range(s)
        BY <1>1, <1>5 DEF Range
    <2> QED BY <2>1, <2>2, <2>3
<1> QED BY <1>1, <1>6

LEMMA RangeSize ==
    ASSUME NEW S, NEW s \in Seq(S)
    PROVE  IsFiniteSet(Range(s)) /\ Cardinality(Range(s)) <= Len(s)
<1>1. s \in Surjection(1 .. Len(s), Range(s)) /\ Len(s) \in Nat
    <2>1. s \in [1 .. Len(s) -> S] /\ Len(s) \in Nat
        BY LenProperties
    <2>2. s \in [1 .. Len(s) -> Range(s)]
        <3>1. s \in Seq(Range(s))
            BY SeqOfRange
        <3> QED BY <3>1, LenProperties
    <2>3. \A x \in Range(s) : \E i \in 1 .. Len(s) : s[i] = x
        BY <2>1 DEF Range
    <2> QED BY <2>1, <2>2, <2>3 DEF Surjection
<1>2. IsFiniteSet(1 .. Len(s)) /\ Cardinality(1 .. Len(s)) = Len(s)
    <2> DEFINE n == Len(s)
    <2>1. n \in Nat
        BY <1>1
    <2> HIDE DEF n
    <2>2. IsFiniteSet(1 .. n) /\ Cardinality(1 .. n) = IF 1 > n THEN 0 ELSE n - 1 + 1
        BY <2>1, FS_Interval
    <2>3. Cardinality(1 .. n) = n
        BY <2>1, <2>2
    <2> QED BY <2>2, <2>3 DEF n
<1> DEFINE R == Range(s)
<1>3. IsFiniteSet(R) /\ Cardinality(R) <= Cardinality(1 .. Len(s))
    <2> HIDE DEF R
    <2> QED BY <1>1, <1>2, FS_Surjection DEF R
<1> QED BY <1>2, <1>3

LEMMA RangeEmpty == Range(<<>>) = {}
<1>1. <<>> \in Seq({}) /\ Len(<<>>) = 0
    BY EmptySeq
<1>2. Range(<<>>) = {<<>>[i] : i \in 1 .. Len(<<>>)}
    BY <1>1, RangeEquality
<1>3. 1 .. Len(<<>>) = {}
    BY <1>1
<1> QED BY <1>2, <1>3

-----------------------------------------------------------------------------
(* Type correctness. *)

LEMMA BootType ==
    ASSUME NEW on \in BOOLEAN, Boot(on)
    PROVE  /\ enabled' \in BOOLEAN /\ running' \in BOOLEAN /\ worker' \in WorkerStates
           /\ queue' \in Seq(Events) /\ Len(queue') <= MaxSize
           /\ accepted' \in Nat /\ spilled' \in Nat /\ persisted' \in Nat /\ failed' \in Nat
BY EmptySeq DEF Boot, WorkerStates

LEMMA TypeInit == Init => TypeOK
BY EmptySeq DEF Init, TypeOK, WorkerStates

LEMMA TypeStep == TypeOK /\ [Next]_vars => TypeOK'
<1> SUFFICES ASSUME TypeOK, [Next]_vars PROVE TypeOK'
    OBVIOUS
<1> USE DEF TypeOK, WorkerStates, metrics
<1>1. ASSUME NEW e \in Events, Enqueue(e) PROVE TypeOK'
    <2>1. /\ Append(queue, e) \in Seq(Events) /\ Len(Append(queue, e)) = Len(queue) + 1
          /\ Append(logged, e) \in Seq(Events) /\ Len(queue) \in Nat
        BY RangeAppend, LenProperties
    <2> QED BY <1>1, <2>1 DEF Enqueue, Returns
<1>2. ASSUME NEW e \in Events, Overflow(e) PROVE TypeOK'
    <2>1. Append(logged, e) \in Seq(Events)
        BY RangeAppend
    <2>2. logged' \in Seq(Events) /\ raised' \in SUBSET Events
        BY <1>2, <2>1 DEF Overflow, Returns, Raises
    <2> QED BY <1>2, <2>2 DEF Overflow
<1>3. ASSUME NEW e \in Events, WriteThrough(e) PROVE TypeOK'
    <2>1. Append(logged, e) \in Seq(Events) /\ Append(store, e) \in Seq(Events)
        BY RangeAppend
    <2>2. logged' \in Seq(Events) /\ raised' \in SUBSET Events /\ store' \in Seq(Events)
        BY <1>3, <2>1 DEF WriteThrough, Returns, Raises
    <2> QED BY <1>3, <2>2 DEF WriteThrough
<1>4. CASE Persist \/ PersistFails
    <2>1. queue # <<>>
        BY <1>4 DEF Persist, PersistFails
    <2>2. /\ Head(queue) \in Events /\ Tail(queue) \in Seq(Events)
          /\ Len(Tail(queue)) = Len(queue) - 1 /\ Len(queue) \in Nat
          /\ Append(store, Head(queue)) \in Seq(Events)
        BY <2>1, RangeTail, RangeAppend, LenProperties
    <2>3. CASE Persist
        BY <2>2, <2>3 DEF Persist
    <2>4. CASE PersistFails
        <3>1. store' = store \/ store' = Append(store, Head(queue))
            BY <2>4 DEF PersistFails
        <3>2. queue' = Tail(queue) /\ failed' \in Nat
            BY <2>4 DEF PersistFails
        <3>3. store' \in Seq(Events)
            BY <2>2, <3>1
        <3>4. spool' \in SUBSET Events /\ worker' \in WorkerStates
            BY <2>2, <2>4 DEF PersistFails
        <3> QED BY <2>2, <2>4, <3>2, <3>3, <3>4 DEF PersistFails
    <2> QED BY <1>4, <2>3, <2>4
<1>5. CASE Wake \/ Rest \/ Stop
    BY <1>5 DEF Wake, Rest, Stop
<1>6. CASE Restart
    <2>1. PICK on \in BOOLEAN : Boot(on)
        BY <1>6 DEF Restart
    <2> QED BY <1>6, <2>1, BootType DEF Restart
<1>7. CASE UNCHANGED vars
    BY <1>7 DEF vars
<1> QED BY <1>1, <1>2, <1>3, <1>4, <1>5, <1>6, <1>7 DEF Next, Drain

(* Every reachable state is well typed; in particular the queue never      *)
(* grows beyond its size.                                                  *)
THEOREM TypeCorrect == Spec => []TypeOK
BY TypeInit, TypeStep, PTL DEF Spec

-----------------------------------------------------------------------------
(* The metrics. *)

LEMMA BalanceStep == TypeOK /\ MetricsBalance /\ [Next]_vars => MetricsBalance'
<1> SUFFICES ASSUME TypeOK, MetricsBalance, [Next]_vars PROVE MetricsBalance'
    OBVIOUS
<1> USE DEF TypeOK, MetricsBalance, metrics
<1>1. Len(queue) \in Nat
    BY LenProperties
<1>2. ASSUME NEW e \in Events, Enqueue(e) PROVE MetricsBalance'
    BY <1>1, <1>2, RangeAppend DEF Enqueue
<1>3. ASSUME NEW e \in Events, Overflow(e) \/ WriteThrough(e) PROVE MetricsBalance'
    BY <1>3 DEF Overflow, WriteThrough
<1>4. CASE Persist
    BY <1>1, <1>4, RangeTail DEF Persist
<1>5. CASE PersistFails
    BY <1>1, <1>5, RangeTail DEF PersistFails
<1>6. CASE Wake \/ Rest \/ Stop
    BY <1>6 DEF Wake, Rest, Stop
<1>7. CASE Restart
    BY <1>7, EmptySeq DEF Restart, Boot
<1>8. CASE UNCHANGED vars
    BY <1>8 DEF vars
<1> QED BY <1>2, <1>3, <1>4, <1>5, <1>6, <1>7, <1>8 DEF Next, Drain

(* However the worker, the store and the spool fail, what was accepted was *)
(* persisted, failed or is in the queue.                                   *)
THEOREM MetricsAlwaysBalance == Spec => []MetricsBalance
<1>1. Init => MetricsBalance
    BY EmptySeq DEF Init, MetricsBalance
<1> QED BY <1>1, TypeInit, TypeStep, BalanceStep, PTL DEF Spec

-----------------------------------------------------------------------------
(* The loss of events. *)

LEMMA LostFinite == TypeOK => IsFiniteSet(Lost) /\ Cardinality(Lost) \in Nat
<1>1. TypeOK => IsFiniteSet(Lost)
    BY RangeSize, FS_Subset DEF TypeOK, Lost
<1> QED BY <1>1, FS_CardinalityType

(* Whatever else a step does, it loses only what it takes off the queue    *)
(* without writing it down.                                                *)
LEMMA LostShrinks ==
    ASSUME TypeOK, Lost' \in SUBSET Lost, life' = life, worker = "dead" => worker' = "dead",
           LossBound
    PROVE  LossBound'
<1>1. Cardinality(Lost') <= Cardinality(Lost) /\ Cardinality(Lost') \in Nat
    BY LostFinite, FS_Subset, FS_CardinalityType
<1>2. (life - 1) * (MaxSize + 1) \in Nat
    BY DEF TypeOK
<1> QED BY <1>1, <1>2, LostFinite DEF LossBound

LEMMA LossStep == TypeOK /\ LossBound /\ [Next]_vars => LossBound'
<1> SUFFICES ASSUME TypeOK, LossBound, [Next]_vars PROVE LossBound'
    OBVIOUS
<1> USE DEF TypeOK
<1>1. ASSUME NEW e \in Events, Enqueue(e) PROVE LossBound'
    <2>1. /\ Range(queue') = Range(queue) \cup {e} /\ Range(logged') = Range(logged) \cup {e}
          /\ UNCHANGED <<store, spool, life, worker>>
        BY <1>1, RangeAppend DEF Enqueue, Returns
    <2> QED BY <2>1, LostShrinks DEF Lost, Durable
<1>2. ASSUME NEW e \in Events, Overflow(e) PROVE LossBound'
    <2>1. /\ UNCHANGED <<store, queue, life, worker>>
          /\ \/ spool' = spool \cup {e} /\ Range(logged') = Range(logged) \cup {e}
             \/ UNCHANGED <<spool, logged>>
        BY <1>2, RangeAppend DEF Overflow, Returns, Raises
    <2> QED BY <2>1, LostShrinks DEF Lost, Durable
<1>3. ASSUME NEW e \in Events, WriteThrough(e) PROVE LossBound'
    <2>1. /\ UNCHANGED <<spool, queue, life, worker>>
          /\ \/ Range(store') = Range(store) \cup {e} /\ Range(logged') = Range(logged) \cup {e}
             \/ Range(store) \subseteq Range(store') /\ UNCHANGED logged
        <3>1. /\ Range(Append(store, e)) = Range(store) \cup {e}
              /\ Range(Append(logged, e)) = Range(logged) \cup {e}
            BY RangeAppend
        <3>2. UNCHANGED <<spool, queue, life, worker>>
            BY <1>3 DEF WriteThrough
        <3>3. CASE store' = Append(store, e) /\ Returns(e)
            BY <3>1, <3>2, <3>3 DEF Returns
        <3>4. CASE Raises(e) /\ store' \in {store, Append(store, e)}
            BY <3>1, <3>2, <3>4 DEF Raises
        <3> QED BY <1>3, <3>3, <3>4 DEF WriteThrough
    <2> QED BY <2>1, LostShrinks DEF Lost, Durable
<1>4. CASE Persist
    <2>1. /\ UNCHANGED <<spool, life, worker, logged>>
          /\ Range(store') = Range(store) \cup {Head(queue)}
          /\ Range(queue) = {Head(queue)} \cup Range(queue')
        BY <1>4, RangeTail, RangeAppend DEF Persist
    <2> QED BY <2>1, LostShrinks DEF Lost, Durable
<1>5. CASE PersistFails
    <2>1. /\ UNCHANGED <<life, logged>> /\ worker = "draining"
          /\ Range(store) \subseteq Range(store')
          /\ Range(queue) = {Head(queue)} \cup Range(queue')
        <3>1. Range(queue) = {Head(queue)} \cup Range(Tail(queue)) /\ Head(queue) \in Events
            BY <1>5, RangeTail DEF PersistFails
        <3>2. Range(Append(store, Head(queue))) = Range(store) \cup {Head(queue)}
            BY <3>1, RangeAppend
        <3> QED BY <1>5, <3>1, <3>2 DEF PersistFails
    <2>2. CASE spool' = spool \cup {Head(queue)}
        BY <2>1, <2>2, LostShrinks DEF Lost, Durable
    <2>3. CASE worker' = "dead" /\ spool' = spool
        <3>1. Lost' \in SUBSET (Lost \cup {Head(queue)})
            BY <2>1, <2>3 DEF Lost, Durable
        <3>2. /\ IsFiniteSet(Lost \cup {Head(queue)})
              /\ Cardinality(Lost \cup {Head(queue)}) <= Cardinality(Lost) + 1
            <4>1. IsFiniteSet(Lost)
                BY LostFinite
            <4>2. /\ IsFiniteSet(Lost \cup {Head(queue)})
                  /\ \/ Cardinality(Lost \cup {Head(queue)}) = Cardinality(Lost)
                     \/ Cardinality(Lost \cup {Head(queue)}) = Cardinality(Lost) + 1
                BY <4>1, FS_AddElement
            <4> QED BY <4>2, LostFinite
        <3>3. Cardinality(Lost') <= Cardinality(Lost) + 1 /\ Cardinality(Lost') \in Nat
            BY <3>1, <3>2, LostFinite, FS_Subset, FS_CardinalityType
        <3>4. (life - 1) * (MaxSize + 1) \in Nat
            OBVIOUS
        <3> QED BY <2>1, <2>3, <3>3, <3>4, LostFinite DEF LossBound
    <2> QED BY <1>5, <2>2, <2>3 DEF PersistFails
<1>6. CASE Wake \/ Rest \/ Stop
    <2>1. /\ UNCHANGED <<queue, store, spool, life, logged>>
          /\ worker = "dead" => worker' = "dead"
        BY <1>6 DEF Wake, Rest, Stop
    <2> QED BY <2>1, LostShrinks DEF Lost, Durable
<1>7. CASE Restart
    <2>1. /\ UNCHANGED <<store, spool, logged>> /\ life' = life + 1 /\ worker' # "dead"
          /\ queue' = <<>>
        BY <1>7 DEF Restart, Boot
    <2>2. Lost' \in SUBSET (Lost \cup Range(queue))
        BY <2>1 DEF Lost, Durable
    <2>3. /\ IsFiniteSet(Range(queue)) /\ Cardinality(Range(queue)) \in Nat
          /\ Cardinality(Range(queue)) <= Len(queue) /\ Len(queue) \in Nat
        BY RangeSize, FS_CardinalityType, LenProperties
    <2>4. /\ IsFiniteSet(Lost \cup Range(queue))
          /\ Cardinality(Lost \cup Range(queue)) <= Cardinality(Lost) + Cardinality(Range(queue))
        <3>1. IsFiniteSet(Lost) /\ IsFiniteSet(Range(queue))
            BY <2>3, LostFinite
        <3>2. /\ IsFiniteSet(Lost \cup Range(queue))
              /\ Cardinality(Lost \cup Range(queue)) =
                     Cardinality(Lost) + Cardinality(Range(queue))
                         - Cardinality(Lost \cap Range(queue))
            BY <3>1, FS_Union
        <3>3. Cardinality(Lost \cap Range(queue)) \in Nat
            BY <3>1, FS_Intersection, FS_CardinalityType
        <3> QED BY <2>3, <3>2, <3>3, LostFinite
    <2>5. Cardinality(Lost') <= Cardinality(Lost) + MaxSize /\ Cardinality(Lost') \in Nat
        <3>1. Cardinality(Lost') <= Cardinality(Lost \cup Range(queue)) /\ IsFiniteSet(Lost')
            BY <2>2, <2>4, FS_Subset
        <3>2. Cardinality(Lost \cup Range(queue)) \in Nat
            BY <2>4, FS_CardinalityType
        <3> QED BY <2>3, <2>4, <3>1, <3>2, LostFinite, FS_CardinalityType
    <2>6. /\ (life - 1) * (MaxSize + 1) \in Nat
          /\ (life' - 1) * (MaxSize + 1) = (life - 1) * (MaxSize + 1) + MaxSize + 1
        BY <2>1
    <2> QED BY <2>1, <2>5, <2>6, LostFinite DEF LossBound
<1>8. CASE UNCHANGED vars
    <2>1. UNCHANGED <<queue, store, spool, life, logged, worker>>
        BY <1>8 DEF vars
    <2> QED BY <2>1, LostShrinks DEF Lost, Durable
<1> QED BY <1>1, <1>2, <1>3, <1>4, <1>5, <1>6, <1>7, <1>8 DEF Next, Drain

(* Over any number of shutdowns and crashes, the events log_event took and *)
(* nobody will ever see are at most a full queue, and the one a worker     *)
(* died of, for each process that has ended.                               *)
THEOREM LossAlwaysBounded == Spec => []LossBound
<1>1. Init => LossBound
    <2>1. Init => Lost = {} /\ life = 1
        BY RangeEmpty DEF Init, Lost
    <2>2. Cardinality({}) = 0
        BY FS_EmptySet
    <2>3. Init => (life - 1) * (MaxSize + 1) = 0
        BY DEF Init
    <2>4. Init => worker # "dead"
        BY DEF Init
    <2> QED BY <2>1, <2>2, <2>3, <2>4 DEF LossBound
<1> QED BY <1>1, TypeInit, TypeStep, LossStep, PTL DEF Spec

-----------------------------------------------------------------------------
(* The order of the store. *)

(* x comes before y in log. *)
Before(log, x, y) == \E k, l \in DOMAIN log : k < l /\ log[k] = x /\ log[l] = y

(* Where an event can be. *)
Places ==
    /\ Range(logged) \cap raised = {}
    /\ Range(queue) \subseteq Range(logged)
    /\ Range(store) \subseteq Range(logged) \cup raised
    /\ ~enabled => queue = <<>>

(* The queue is in order ... *)
QueueOrder ==
    \A i, j \in DOMAIN queue : i < j => Before(logged, queue[i], queue[j])

(* ... and comes after the store ... *)
StoreBeforeQueue ==
    \A i \in DOMAIN store, j \in DOMAIN queue :
        store[i] \in raised \/ Before(logged, store[i], queue[j])

(* ... which is in order: StoreInLogOrder. *)
StoreOrder ==
    \A i, j \in DOMAIN store : i < j =>
        \/ Before(logged, store[i], store[j])
        \/ {store[i], store[j]} \cap raised # {} /\ store[i] # store[j]

OrderInv == Places /\ QueueOrder /\ StoreBeforeQueue /\ StoreOrder

LEMMA AppendAt ==
    ASSUME NEW S, NEW s \in Seq(S), NEW x \in S
    PROVE  /\ DOMAIN s = 1 .. Len(s) /\ Len(s) \in Nat
           /\ DOMAIN Append(s, x) = DOMAIN s \cup {Len(s) + 1}
           /\ Append(s, x)[Len(s) + 1] = x
           /\ \A i \in DOMAIN s : i < Len(s) + 1 /\ Append(s, x)[i] = s[i]
<1>1. /\ Append(s, x) \in Seq(S) /\ Len(Append(s, x)) = Len(s) + 1
      /\ Append(s, x)[Len(s) + 1] = x
      /\ \A i \in 1 .. Len(s) : Append(s, x)[i] = s[i]
    BY AppendProperties
<1>2. /\ DOMAIN Append(s, x) = 1 .. Len(s) + 1
      /\ DOMAIN s = 1 .. Len(s) /\ Len(s) \in Nat
    BY <1>1, LenProperties
<1> QED BY <1>1, <1>2

LEMMA TailAt ==
    ASSUME NEW S, NEW s \in Seq(S), s # <<>>
    PROVE  /\ 1 \in DOMAIN s /\ Head(s) = s[1]
           /\ \A i \in DOMAIN Tail(s) :
                  i \in Nat /\ 1 < i + 1 /\ i + 1 \in DOMAIN s /\ Tail(s)[i] = s[i + 1]
<1>1. /\ Head(s) = s[1]
      /\ Tail(s) \in Seq(S) /\ Len(Tail(s)) = Len(s) - 1
      /\ \A i \in 1 .. Len(s) - 1 : Tail(s)[i] = s[i + 1]
    BY HeadTailProperties
<1>2. /\ DOMAIN s = 1 .. Len(s) /\ Len(s) \in Nat /\ Len(s) # 0
      /\ DOMAIN Tail(s) = 1 .. Len(s) - 1
    BY <1>1, LenProperties, EmptySeq
<1> QED BY <1>1, <1>2

(* A new entry of the log comes after all others, whose order stays.       *)
LEMMA BeforeAppend ==
    ASSUME TypeOK, NEW e \in Events, logged' = Append(logged, e)
    PROVE  /\ \A x, y : Before(logged, x, y) => Before(logged', x, y)
           /\ \A x \in Range(logged) : Before(logged', x, e)
<1>1. /\ DOMAIN logged' = DOMAIN logged \cup {Len(logged) + 1}
      /\ logged'[Len(logged) + 1] = e
      /\ \A i \in DOMAIN logged : i < Len(logged) + 1 /\ logged'[i] = logged[i]
    BY AppendAt DEF TypeOK
<1>2. ASSUME NEW x, NEW y, Before(logged, x, y) PROVE Before(logged', x, y)
    BY <1>1, <1>2 DEF Before
<1>3. ASSUME NEW x \in Range(logged) PROVE Before(logged', x, e)
    <2>1. PICK i \in DOMAIN logged : logged[i] = x
        BY DEF Range
    <2> QED BY <1>1, <2>1 DEF Before
<1> QED BY <1>2, <1>3

(* The store grows by an event that is newer than all it holds, or raised. *)
LEMMA StoreGrows ==
    ASSUME TypeOK, NEW e \in Events, store' = Append(store, e),
           \A i, j \in DOMAIN store : i < j =>
               \/ Before(logged', store[i], store[j])
               \/ {store[i], store[j]} \cap raised' # {} /\ store[i] # store[j],
           \A i \in DOMAIN store :
               \/ Before(logged', store[i], e)
               \/ {store[i], e} \cap raised' # {} /\ store[i] # e
    PROVE  \A i, j \in DOMAIN store' : i < j =>
               \/ Before(logged', store'[i], store'[j])
               \/ {store'[i], store'[j]} \cap raised' # {} /\ store'[i] # store'[j]
<1>1. /\ DOMAIN store = 1 .. Len(store) /\ Len(store) \in Nat
      /\ DOMAIN store' = DOMAIN store \cup {Len(store) + 1}
      /\ store'[Len(store) + 1] = e
      /\ \A i \in DOMAIN store : i < Len(store) + 1 /\ store'[i] = store[i]
    BY AppendAt DEF TypeOK
<1> SUFFICES ASSUME NEW i \in DOMAIN store', NEW j \in DOMAIN store', i < j
             PROVE  \/ Before(logged', store'[i], store'[j])
                    \/ {store'[i], store'[j]} \cap raised' # {} /\ store'[i] # store'[j]
    OBVIOUS
<1>2. i \in DOMAIN store /\ store'[i] = store[i]
    BY <1>1
<1>3. CASE j \in DOMAIN store
    <2>1. store'[j] = store[j]
        BY <1>1, <1>3
    <2>2. \/ Before(logged', store[i], store[j])
          \/ {store[i], store[j]} \cap raised' # {} /\ store[i] # store[j]
        BY <1>2, <1>3
    <2> QED BY <1>2, <2>1, <2>2 DEF Before
<1>4. CASE j = Len(store) + 1
    <2>1. store'[j] = e
        BY <1>1, <1>4
    <2>2. \/ Before(logged', store[i], e)
          \/ {store[i], e} \cap raised' # {} /\ store[i] # e
        BY <1>2
    <2> QED BY <1>2, <2>1, <2>2 DEF Before
<1> QED BY <1>1, <1>3, <1>4

LEMMA OrderInit == Init => OrderInv
<1> SUFFICES ASSUME Init PROVE OrderInv
    OBVIOUS
<1>1. queue = <<>> /\ store = <<>> /\ logged = <<>> /\ raised = {}
    BY DEF Init
<1>2. DOMAIN queue = {} /\ DOMAIN store = {}
    <2>1. <<>> \in Seq({}) /\ Len(<<>>) = 0
        BY EmptySeq
    <2>2. DOMAIN <<>> = 1 .. 0
        BY <2>1, LenProperties
    <2> QED BY <1>1, <2>2
<1> QED BY <1>1, <1>2, RangeEmpty
        DEF OrderInv, Places, QueueOrder, StoreBeforeQueue, StoreOrder

LEMMA OrderEnqueue ==
    ASSUME TypeOK, OrderInv, NEW e \in Events, Enqueue(e)
    PROVE  OrderInv'
<1>1. /\ queue' = Append(queue, e) /\ logged' = Append(logged, e)
      /\ UNCHANGED <<store, raised, enabled>> /\ enabled
      /\ e \notin Range(logged) \cup raised
    BY DEF Enqueue, Returns, Unlogged
<1>2. /\ DOMAIN queue' = DOMAIN queue \cup {Len(queue) + 1}
      /\ queue'[Len(queue) + 1] = e /\ Len(queue) \in Nat
      /\ \A i \in DOMAIN queue : i \in Nat /\ i < Len(queue) + 1 /\ queue'[i] = queue[i]
    BY <1>1, AppendAt DEF TypeOK
<1>3. /\ \A x, y : Before(logged, x, y) => Before(logged', x, y)
      /\ \A x \in Range(logged) : Before(logged', x, e)
    BY <1>1, BeforeAppend
<1>4. Range(queue') = Range(queue) \cup {e} /\ Range(logged') = Range(logged) \cup {e}
    BY <1>1, RangeAppend DEF TypeOK
<1>5. Places'
    BY <1>1, <1>4 DEF OrderInv, Places
<1>6. QueueOrder'
    <2> SUFFICES ASSUME NEW i \in DOMAIN queue', NEW j \in DOMAIN queue', i < j
                 PROVE  Before(logged', queue'[i], queue'[j])
        BY DEF QueueOrder
    <2>1. i \in DOMAIN queue
        BY <1>2
    <2>2. CASE j \in DOMAIN queue
        BY <1>2, <1>3, <2>1, <2>2 DEF OrderInv, QueueOrder
    <2>3. CASE j = Len(queue) + 1
        <3>1. queue[i] \in Range(logged)
            BY <2>1 DEF OrderInv, Places, Range
        <3> QED BY <1>2, <1>3, <2>1, <2>3, <3>1
    <2> QED BY <1>2, <2>2, <2>3
<1>7. StoreBeforeQueue'
    <2> SUFFICES ASSUME NEW i \in DOMAIN store, NEW j \in DOMAIN queue', store[i] \notin raised
                 PROVE  Before(logged', store[i], queue'[j])
        BY <1>1 DEF StoreBeforeQueue
    <2>1. CASE j \in DOMAIN queue
        BY <1>2, <1>3, <2>1 DEF OrderInv, StoreBeforeQueue
    <2>2. CASE j = Len(queue) + 1
        <3>1. store[i] \in Range(logged)
            BY DEF OrderInv, Places, Range
        <3> QED BY <1>2, <1>3, <2>2, <3>1
    <2> QED BY <1>2, <2>1, <2>2
<1>8. StoreOrder'
    BY <1>1, <1>3 DEF OrderInv, StoreOrder
<1> QED BY <1>5, <1>6, <1>7, <1>8 DEF OrderInv

(* The log, or the set of raised events, grows by a new event. *)
LEMMA OrderLogged ==
    ASSUME TypeOK, OrderInv, NEW e \in Events, e \notin Range(logged) \cup raised,
           UNCHANGED <<queue, store, enabled>>, Returns(e) \/ Raises(e) \/ UNCHANGED <<logged, raised>>
    PROVE  OrderInv'
<1>1. CASE Returns(e)
    <2>1. logged' = Append(logged, e) /\ UNCHANGED raised
        BY <1>1 DEF Returns
    <2>2. \A x, y : Before(logged, x, y) => Before(logged', x, y)
        BY <2>1, BeforeAppend
    <2>3. Range(logged') = Range(logged) \cup {e}
        BY <2>1, RangeAppend DEF TypeOK
    <2>4. Places'
        BY <2>1, <2>3 DEF OrderInv, Places
    <2>5. QueueOrder' /\ StoreBeforeQueue'
        BY <2>1, <2>2 DEF OrderInv, QueueOrder, StoreBeforeQueue
    <2>6. StoreOrder'
        BY <2>1, <2>2 DEF OrderInv, StoreOrder
    <2> QED BY <2>4, <2>5, <2>6 DEF OrderInv
<1>2. CASE Raises(e)
    <2>1. raised' = raised \cup {e} /\ UNCHANGED logged
        BY <1>2 DEF Raises
    <2>2. Places'
        BY <2>1 DEF OrderInv, Places
    <2>3. QueueOrder' /\ StoreBeforeQueue'
        BY <2>1 DEF OrderInv, QueueOrder, StoreBeforeQueue
    <2>4. StoreOrder'
        BY <2>1 DEF OrderInv, StoreOrder
    <2> QED BY <2>2, <2>3, <2>4 DEF OrderInv
<1>3. CASE UNCHANGED <<logged, raised>>
    BY <1>3 DEF OrderInv, Places, QueueOrder, StoreBeforeQueue, StoreOrder
<1> QED BY <1>1, <1>2, <1>3

LEMMA OrderWriteThrough ==
    ASSUME TypeOK, OrderInv, NEW e \in Events, WriteThrough(e)
    PROVE  OrderInv'
<1>1. /\ UNCHANGED <<queue, enabled>> /\ ~enabled
      /\ e \notin Range(logged) \cup raised
      /\ Returns(e) \/ Raises(e)
      /\ store' = store => Raises(e)
      /\ store' \in {store, Append(store, e)}
    BY DEF WriteThrough, Unlogged, Returns
<1>2. CASE store' = store
    BY <1>1, <1>2, OrderLogged
<1>3. CASE store' = Append(store, e)
    <2>1. DOMAIN queue = {} /\ queue = <<>>
        <3>1. <<>> \in Seq({}) /\ Len(<<>>) = 0
            BY EmptySeq
        <3>2. DOMAIN <<>> = 1 .. 0
            BY <3>1, LenProperties
        <3> QED BY <1>1, <3>2 DEF OrderInv, Places
    <2>2. Range(store') = Range(store) \cup {e}
        BY <1>3, RangeAppend DEF TypeOK
    <2>3. \A i \in DOMAIN store : store[i] \in Range(store)
        BY DEF Range
    <2>4. StoreOrder' /\ Places'
        <3>1. CASE Returns(e)
            <4>1. logged' = Append(logged, e) /\ UNCHANGED raised
                BY <3>1 DEF Returns
            <4>2. /\ \A x, y : Before(logged, x, y) => Before(logged', x, y)
                  /\ \A x \in Range(logged) : Before(logged', x, e)
                BY <4>1, BeforeAppend
            <4>3. Range(logged') = Range(logged) \cup {e}
                BY <4>1, RangeAppend DEF TypeOK
            <4>4. Places'
                BY <1>1, <2>1, <2>2, <4>1, <4>3, RangeEmpty DEF OrderInv, Places
            <4>5. \A i, j \in DOMAIN store : i < j =>
                      \/ Before(logged', store[i], store[j])
                      \/ {store[i], store[j]} \cap raised' # {} /\ store[i] # store[j]
                BY <4>1, <4>2 DEF OrderInv, StoreOrder
            <4>6. \A i \in DOMAIN store :
                      \/ Before(logged', store[i], e)
                      \/ {store[i], e} \cap raised' # {} /\ store[i] # e
                BY <1>1, <2>3, <4>1, <4>2 DEF OrderInv, Places
            <4>7. StoreOrder'
                BY <1>3, <4>5, <4>6, StoreGrows DEF StoreOrder
            <4> QED BY <4>4, <4>7
        <3>2. CASE Raises(e)
            <4>1. raised' = raised \cup {e} /\ UNCHANGED logged
                BY <3>2 DEF Raises
            <4>2. Places'
                BY <1>1, <2>1, <2>2, <4>1, RangeEmpty DEF OrderInv, Places
            <4>3. \A i, j \in DOMAIN store : i < j =>
                      \/ Before(logged', store[i], store[j])
                      \/ {store[i], store[j]} \cap raised' # {} /\ store[i] # store[j]
                BY <4>1 DEF OrderInv, StoreOrder
            <4>4. \A i \in DOMAIN store :
                      {store[i], e} \cap raised' # {} /\ store[i] # e
                BY <1>1, <2>3, <4>1 DEF OrderInv, Places
            <4>5. StoreOrder'
                BY <1>3, <4>3, <4>4, StoreGrows DEF StoreOrder
            <4> QED BY <4>2, <4>5
        <3> QED BY <1>1, <3>1, <3>2
    <2>5. QueueOrder' /\ StoreBeforeQueue'
        BY <1>1, <2>1 DEF QueueOrder, StoreBeforeQueue
    <2> QED BY <2>4, <2>5 DEF OrderInv
<1> QED BY <1>1, <1>2, <1>3

(* The worker takes the oldest event off the queue; it reaches the store   *)
(* or not.                                                                 *)
LEMMA OrderDequeue ==
    ASSUME TypeOK, OrderInv, queue # <<>>, queue' = Tail(queue),
           store' \in {store, Append(store, Head(queue))},
           UNCHANGED <<logged, raised, enabled>>
    PROVE  OrderInv'
<1> DEFINE e == Head(queue)
<1>1. /\ 1 \in DOMAIN queue /\ e = queue[1]
      /\ \A i \in DOMAIN queue' :
             i \in Nat /\ 1 < i + 1 /\ i + 1 \in DOMAIN queue /\ queue'[i] = queue[i + 1]
    BY TailAt DEF TypeOK
<1>2. e \in Events /\ e \in Range(queue) /\ Range(queue) = {e} \cup Range(queue')
    BY RangeTail DEF TypeOK
<1>3. e \in Range(logged) /\ e \notin raised /\ enabled
    BY <1>2 DEF OrderInv, Places
<1>4. QueueOrder'
    <2> SUFFICES ASSUME NEW i \in DOMAIN queue', NEW j \in DOMAIN queue', i < j
                 PROVE  Before(logged, queue'[i], queue'[j])
        BY DEF QueueOrder
    <2>1. /\ i + 1 \in DOMAIN queue /\ j + 1 \in DOMAIN queue /\ i + 1 < j + 1
          /\ queue'[i] = queue[i + 1] /\ queue'[j] = queue[j + 1]
        BY <1>1
    <2> QED BY <2>1 DEF OrderInv, QueueOrder
<1>5. \A i \in DOMAIN store, j \in DOMAIN queue' :
          store[i] \in raised \/ Before(logged, store[i], queue'[j])
    BY <1>1 DEF OrderInv, StoreBeforeQueue
<1>6. \A j \in DOMAIN queue' : Before(logged, e, queue'[j])
    BY <1>1 DEF OrderInv, QueueOrder
<1>7. CASE store' = store
    <2>1. StoreBeforeQueue' /\ StoreOrder'
        BY <1>5, <1>7 DEF OrderInv, StoreBeforeQueue, StoreOrder
    <2>2. Places'
        BY <1>2, <1>3, <1>7 DEF OrderInv, Places
    <2> QED BY <1>4, <2>1, <2>2 DEF OrderInv
<1>8. CASE store' = Append(store, e)
    <2>1. /\ DOMAIN store' = DOMAIN store \cup {Len(store) + 1}
          /\ store'[Len(store) + 1] = e
          /\ \A i \in DOMAIN store : store'[i] = store[i]
        BY <1>2, <1>8, AppendAt DEF TypeOK
    <2>2. Range(store') = Range(store) \cup {e}
        BY <1>2, <1>8, RangeAppend DEF TypeOK
    <2>3. Places'
        BY <1>2, <1>3, <2>2 DEF OrderInv, Places
    <2>4. StoreBeforeQueue'
        <3> SUFFICES ASSUME NEW i \in DOMAIN store', NEW j \in DOMAIN queue'
                     PROVE  store'[i] \in raised \/ Before(logged, store'[i], queue'[j])
            BY DEF StoreBeforeQueue
        <3>1. CASE i \in DOMAIN store
            BY <1>5, <2>1, <3>1
        <3>2. CASE i = Len(store) + 1
            BY <1>6, <2>1, <3>2
        <3> QED BY <2>1, <3>1, <3>2
    <2>5. \A i, j \in DOMAIN store : i < j =>
              \/ Before(logged', store[i], store[j])
              \/ {store[i], store[j]} \cap raised' # {} /\ store[i] # store[j]
        BY DEF OrderInv, StoreOrder
    <2>6. \A i \in DOMAIN store :
              \/ Before(logged', store[i], e)
              \/ {store[i], e} \cap raised' # {} /\ store[i] # e
        BY <1>1, <1>3 DEF OrderInv, StoreBeforeQueue
    <2>7. StoreOrder'
        BY <1>2, <1>8, <2>5, <2>6, StoreGrows DEF StoreOrder
    <2> QED BY <1>4, <2>3, <2>4, <2>7 DEF OrderInv
<1> QED BY <1>7, <1>8

LEMMA OrderStep == TypeOK /\ OrderInv /\ [Next]_vars => OrderInv'
<1> SUFFICES ASSUME TypeOK, OrderInv, [Next]_vars PROVE OrderInv'
    OBVIOUS
<1>1. ASSUME NEW e \in Events, Enqueue(e) PROVE OrderInv'
    BY <1>1, OrderEnqueue
<1>2. ASSUME NEW e \in Events, Overflow(e) PROVE OrderInv'
    BY <1>2, OrderLogged DEF Overflow, Unlogged
<1>3. ASSUME NEW e \in Events, WriteThrough(e) PROVE OrderInv'
    BY <1>3, OrderWriteThrough
<1>4. CASE Persist \/ PersistFails
    BY <1>4, OrderDequeue DEF Persist, PersistFails
<1>5. CASE Wake \/ Rest \/ Stop \/ UNCHANGED vars
    <2>1. UNCHANGED <<queue, store, logged, raised, enabled>>
        BY <1>5 DEF Wake, Rest, Stop, vars
    <2> QED BY <2>1 DEF OrderInv, Places, QueueOrder, StoreBeforeQueue, StoreOrder
<1>6. CASE Restart
    <2>1. UNCHANGED <<store, logged, raised>> /\ queue' = <<>>
        BY <1>6 DEF Restart, Boot
    <2>2. DOMAIN queue' = {}
        <3>1. <<>> \in Seq({}) /\ Len(<<>>) = 0
            BY EmptySeq
        <3>2. DOMAIN <<>> = 1 .. 0
            BY <3>1, LenProperties
        <3> QED BY <2>1, <3>2
    <2>3. Places'
        BY <2>1, RangeEmpty DEF OrderInv, Places
    <2>4. QueueOrder' /\ StoreBeforeQueue' /\ StoreOrder'
        BY <2>1, <2>2 DEF OrderInv, QueueOrder, StoreBeforeQueue, StoreOrder
    <2> QED BY <2>3, <2>4 DEF OrderInv
<1> QED BY <1>1, <1>2, <1>3, <1>4, <1>5, <1>6 DEF Next, Drain

(* The rows of the store are in the order log_event took the events, none  *)
(* twice, whatever overflows, fails or restarts in between.                *)
THEOREM StoreAlwaysInLogOrder == Spec => []StoreInLogOrder
<1>1. OrderInv => StoreInLogOrder
    BY DEF OrderInv, StoreOrder, Before, StoreInLogOrder
<1> QED BY <1>1, TypeInit, TypeStep, OrderInit, OrderStep, PTL DEF Spec

=============================================================================
