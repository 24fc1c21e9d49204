---------------------------- MODULE AuditPipeline ----------------------------
(***************************************************************************)
(* app/audit_pipeline.py: the in-process queue between the request path    *)
(* and the audit store, its worker task and the spool directory it falls   *)
(* back to, over several lives of one gateway process.                     *)
(*                                                                         *)
(* Everything runs on the process's event loop.  The worker gives it up    *)
(* only where queue.get finds the queue empty: _persist and _spill are     *)
(* synchronous, so a woken worker drains the whole queue before any        *)
(* handler logs again.  The store and the spool survive the process, the   *)
(* queue and the counters do not.                                          *)
(***************************************************************************)
EXTENDS Naturals, Sequences, FiniteSets, Functions

CONSTANTS Events,         \* each logged at most once
          MaxSize,        \* settings.audit_queue_max_size
          MaxLives,       \* bound: how often the process is started
          StoreMayFail,   \* may a write to the store raise?
          SpoolMayFail,   \* may an append to the spool file raise?
          MayCrash        \* may the process die without its shutdown?

ASSUME AuditAssumption ==
    /\ IsFiniteSet(Events)
    /\ MaxSize \in Nat \ {0}   \* asyncio.Queue(0) would be unbounded
    /\ MaxLives \in Nat \ {0}
    /\ {StoreMayFail, SpoolMayFail, MayCrash} \subseteq BOOLEAN

VARIABLES
    enabled,                               \* settings.audit_async_enabled of this life
    worker,                                \* _worker_task
    queue,                                 \* asyncio.Queue
    accepted, spilled, persisted, failed,  \* the metrics of this life
    store,                                 \* rows of audit_events, in insertion order
    spool,                                 \* events on lines of the spool files
    life,                                  \* number of this life, and whether it
    running,                               \* has not been shut down
    logged,                                \* history: log_event calls that returned, in order
    raised                                 \* history: events whose log_event raised

metrics == <<accepted, spilled, persisted, failed>>
vars == <<enabled, worker, queue, metrics, store, spool, life, running, logged, raised>>

(* The worker awaits queue.get; it holds the loop and drains; its task has *)
(* ended with an exception; there is none.                                 *)
WorkerStates == {"waiting", "draining", "dead", "none"}

(* A process starts: __init__, then start in the lifespan. *)
Boot(on) ==
    /\ enabled' = on
    /\ worker' = IF on THEN "waiting" ELSE "none"
    /\ queue' = <<>>
    /\ accepted' = 0 /\ spilled' = 0 /\ persisted' = 0 /\ failed' = 0
    /\ running' = TRUE

Init ==
    /\ enabled \in BOOLEAN
    /\ worker = IF enabled THEN "waiting" ELSE "none"
    /\ queue = <<>>
    /\ accepted = 0 /\ spilled = 0 /\ persisted = 0 /\ failed = 0
    /\ running = TRUE
    /\ store = <<>> /\ spool = {}
    /\ life = 1
    /\ logged = <<>> /\ raised = {}

(* AuditStore.log_event adds a row; it may raise although it committed it. *)
Insert(e)       == store' = Append(store, e)
InsertRaises(e) == StoreMayFail /\ store' \in {store, Append(store, e)}

(* _spill adds a line to the spool file, or raises. *)
Spill(e)    == spool' = spool \cup {e}
SpillRaises == SpoolMayFail /\ UNCHANGED spool

(* A handler runs: the loop is not the worker's. *)
Unlogged(e) ==
    /\ running /\ worker # "draining"
    /\ e \notin Range(logged) \cup raised

Returns(e) == logged' = Append(logged, e) /\ UNCHANGED raised
Raises(e)  == raised' = raised \cup {e} /\ UNCHANGED logged

(* Mutant of Enqueue: off by one. *)
EnqueueOneMore(e) ==
    /\ Unlogged(e) /\ enabled /\ Len(queue) <= MaxSize
    /\ queue' = Append(queue, e)
    /\ accepted' = accepted + 1
    /\ Returns(e)
    /\ UNCHANGED <<enabled, worker, spilled, persisted, failed, store, spool, life, running>>

(* put_nowait finds room. *)
Enqueue(e) ==
    /\ Unlogged(e) /\ enabled /\ Len(queue) < MaxSize
    /\ queue' = Append(queue, e)
    /\ accepted' = accepted + 1
    /\ Returns(e)
    /\ UNCHANGED <<enabled, worker, spilled, persisted, failed, store, spool, life, running>>

(* QueueFull: the event goes to the spool, and where that fails the        *)
(* exception reaches the handler.                                          *)
Overflow(e) ==
    /\ Unlogged(e) /\ enabled /\ Len(queue) >= MaxSize
    /\ \/ Spill(e) /\ spilled' = spilled + 1 /\ Returns(e)
       \/ SpillRaises /\ UNCHANGED spilled /\ Raises(e)
    /\ UNCHANGED <<enabled, worker, queue, accepted, persisted, failed, store, life, running>>

(* Without the queue the handler writes to the store itself. *)
WriteThrough(e) ==
    /\ Unlogged(e) /\ ~enabled
    /\ \/ Insert(e) /\ Returns(e)
       \/ InsertRaises(e) /\ Raises(e)
    /\ UNCHANGED <<enabled, worker, queue, metrics, spool, life, running>>

Wake ==
    /\ running /\ worker = "waiting" /\ queue # <<>>
    /\ worker' = "draining"
    /\ UNCHANGED <<enabled, queue, metrics, store, spool, life, running, logged, raised>>

(* Mutant of Persist: the newest event first. *)
PersistNewest ==
    /\ worker = "draining" /\ queue # <<>>
    /\ Insert(queue[Len(queue)])
    /\ queue' = SubSeq(queue, 1, Len(queue) - 1)
    /\ persisted' = persisted + 1
    /\ UNCHANGED <<enabled, worker, accepted, spilled, failed, spool, life, running, logged, raised>>

(* One turn of the worker's loop that goes well ... *)
Persist ==
    /\ worker = "draining" /\ queue # <<>>
    /\ Insert(Head(queue))
    /\ queue' = Tail(queue)
    /\ persisted' = persisted + 1
    /\ UNCHANGED <<enabled, worker, accepted, spilled, failed, spool, life, running, logged, raised>>

(* Mutants of PersistFails: the event is counted as persisted before the   *)
(* insert; it is not spilled.                                              *)
PersistFailsCounted ==
    /\ StoreMayFail /\ worker = "draining" /\ queue # <<>>
    /\ queue' = Tail(queue)
    /\ persisted' = persisted + 1 /\ failed' = failed + 1
    /\ Spill(Head(queue))
    /\ UNCHANGED <<enabled, worker, store, accepted, spilled, life, running, logged, raised>>

PersistFailsSilently ==
    /\ StoreMayFail /\ worker = "draining" /\ queue # <<>>
    /\ queue' = Tail(queue)
    /\ failed' = failed + 1
    /\ UNCHANGED <<enabled, worker, store, spool, accepted, spilled, persisted,
                   life, running, logged, raised>>

(* ... or whose insert raises, perhaps after the row was committed.  The   *)
(* event is spilled; a spill that raises in turn ends the task, with the   *)
(* event counted and gone.                                                 *)
PersistFails ==
    /\ worker = "draining" /\ queue # <<>>
    /\ InsertRaises(Head(queue))
    /\ queue' = Tail(queue)
    /\ failed' = failed + 1
    /\ \/ Spill(Head(queue)) /\ UNCHANGED worker
       \/ SpillRaises /\ worker' = "dead"
    /\ UNCHANGED <<enabled, accepted, spilled, persisted, life, running, logged, raised>>

(* Mutant of Rest: the worker ends once the queue is empty. *)
RestForGood ==
    /\ worker = "draining" /\ queue = <<>>
    /\ worker' = "none"
    /\ UNCHANGED <<enabled, queue, metrics, store, spool, life, running, logged, raised>>

(* queue.get finds nothing and suspends the worker. *)
Rest ==
    /\ worker = "draining" /\ queue = <<>>
    /\ worker' = "waiting"
    /\ UNCHANGED <<enabled, queue, metrics, store, spool, life, running, logged, raised>>

(* stop cancels the task where it waits (and re-raises what a dead task    *)
(* ended with); what is queued stays queued, and the process ends.         *)
Stop ==
    /\ running /\ worker # "draining"
    /\ worker' = IF worker = "dead" THEN "dead" ELSE "none"
    /\ running' = FALSE
    /\ UNCHANGED <<enabled, queue, metrics, store, spool, life, logged, raised>>

(* The next process starts after an orderly shutdown or a crash. *)
Restart ==
    /\ life < MaxLives
    /\ ~running \/ MayCrash
    /\ \E on \in BOOLEAN : Boot(on)
    /\ life' = life + 1
    /\ UNCHANGED <<store, spool, logged, raised>>

Drain == Wake \/ Persist \/ PersistFails \/ Rest

Next ==
    \/ \E e \in Events : Enqueue(e) \/ Overflow(e) \/ WriteThrough(e)
    \/ Drain
    \/ Stop \/ Restart

Spec == Init /\ [][Next]_vars

(* The event loop runs a ready worker.  Nothing obliges a process to       *)
(* serve, stop or crash.                                                   *)
FairSpec == Spec /\ WF_vars(Drain)

-----------------------------------------------------------------------------
(* Type correctness. *)
TypeOK ==
    /\ enabled \in BOOLEAN /\ running \in BOOLEAN
    /\ worker \in WorkerStates
    /\ queue \in Seq(Events) /\ Len(queue) <= MaxSize
    /\ accepted \in Nat /\ spilled \in Nat /\ persisted \in Nat /\ failed \in Nat
    /\ store \in Seq(Events) /\ spool \in SUBSET Events
    /\ life \in 1 .. MaxLives
    /\ logged \in Seq(Events) /\ raised \in SUBSET Events

(* The metrics the control plane reports account for every accepted event, *)
(* also while the worker is dead or the process shut down.                 *)
MetricsBalance == accepted = persisted + failed + Len(queue)

Durable == Range(store) \cup spool
Lost    == Range(logged) \ (Durable \cup Range(queue))

(* An event that log_event took is queued, stored or spooled, except for   *)
(* at most a full queue per ended process and the one event whose spill    *)
(* killed a worker.                                                        *)
LossBound ==
    Cardinality(Lost) <= (life - 1) * (MaxSize + 1) + (IF worker = "dead" THEN 1 ELSE 0)

(* The store receives events in the order log_event took them, and no      *)
(* event twice: spills, failures and restarts only leave gaps.  (An insert *)
(* whose failure reached the handler may have left a row.)                 *)
StoreInLogOrder ==
    \A i, j \in DOMAIN store :
        i < j => \/ \E k, l \in DOMAIN logged :
                        k < l /\ logged[k] = store[i] /\ logged[l] = store[j]
                 \/ {store[i], store[j]} \cap raised # {} /\ store[i] # store[j]

(* "A worker persists them": a queued event reaches the store or the spool *)
(* unless its process is shut down or restarted first, or a worker that    *)
(* could not spill has died.                                               *)
QueuedIsPersisted ==
    \A e \in Events :
        \A n \in 1 .. MaxLives :
            (e \in Range(queue) /\ life = n) ~> (e \in Durable \/ ~running \/ life # n \/ worker = "dead")

(* The class comment's "request path enqueues events quickly; a worker     *)
(* persists them", over an orderly shutdown: none of the events it had     *)
(* accepted is left behind.                                                *)
ShutdownKeepsEvents == ~running => Range(logged) \subseteq Durable

=============================================================================
