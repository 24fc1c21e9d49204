----------------------------- MODULE StoreBudget -----------------------------
(***************************************************************************)
(* The budget without Redis (BudgetService in store-fallback mode,         *)
(* app/budget.py): what a user has spent is the sum of the costs on the    *)
(* audit rows of the day (spend_since, app/store.py), nothing is reserved, *)
(* and a row is written by the audit pipeline some time after its call.    *)
(*                                                                         *)
(* Composed with AuditPipeline: its events are those of one user's chat    *)
(* requests on one gateway process, and a handler's steps log them.  The   *)
(* check of the month is the check of the day over a longer period, and is *)
(* not repeated.                                                           *)
(***************************************************************************)
EXTENDS AuditPipeline, FiniteSetsExt

CONSTANTS Reservation,   \* estimate_reservation
          DailyBudget,   \* defaults.daily_budget_usd_per_user
          CostOf,        \* what the call of each event will have cost
          MaxCost,       \* the most of them
          LastDay        \* bound: the last day of the model

Days == 0 .. LastDay
NoDay == -1

ASSUME StoreBudgetAssumption ==
    /\ {Reservation, DailyBudget, MaxCost, LastDay} \subseteq Nat
    /\ CostOf \in [Events -> 0 .. MaxCost]

VARIABLES
    today,
    call,        \* where the handler of each event is
    cost,        \* what its call cost
    approvedOn,  \* the day it passed the check, NoDay before
    storedOn,    \* ts of its row, as a day
    unseen       \* history: how many calls of the day its last check could not see

handlers   == <<call, cost, approvedOn, unseen>>
budgetVars == <<vars, today, handlers, storedOn>>

InitBudget ==
    /\ Init
    /\ today = 0
    /\ call = [e \in Events |-> "new"]
    /\ cost = [e \in Events |-> 0]
    /\ approvedOn = [e \in Events |-> NoDay]
    /\ storedOn = [e \in Events |-> NoDay]
    /\ unseen = [d \in Days |-> 0]

(* A row gets the time of its insertion, not that of its request. *)
StampRows ==
    storedOn' = [e \in Events |->
        IF e \in Range(store') \ Range(store) THEN today ELSE storedOn[e]]

(* spend_since of the start of the day.                                    *)
Spent == MapThenSumSet(LAMBDA e : cost[e], {e \in Range(store) : storedOn[e] = today})

(* Mutant of Affordable: the amount is not counted in. *)
AffordableBySpend == Spent <= DailyBudget

(* reserve: there is no reservation in the projection, and none is made.   *)
Affordable == Spent + Reservation <= DailyBudget

(* Approved calls of the day that are on no row yet: under way, lost with  *)
(* their process, or on their way through the pipeline or off it.          *)
Pending ==
    {e \in Events : approvedOn[e] = today /\
        \/ call[e] \in {"calling", "lost"}
        \/ e \in Range(queue)
        \/ e \in (spool \cup Lost \cup raised) \ Range(store)}

LogCall(e) == (Enqueue(e) \/ Overflow(e) \/ WriteThrough(e)) /\ StampRows

Approve(e) ==
    /\ call[e] = "new" /\ running /\ worker # "draining"
    /\ Affordable
    /\ call' = [call EXCEPT ![e] = "calling"]
    /\ approvedOn' = [approvedOn EXCEPT ![e] = today]
    /\ unseen' = [unseen EXCEPT ![today] = Cardinality(Pending)]
    /\ UNCHANGED <<vars, today, cost, storedOn>>

(* spend_since raises: the handler answers 500 and logs nothing. *)
CheckFails(e) ==
    /\ StoreMayFail
    /\ call[e] = "new" /\ running /\ worker # "draining"
    /\ call' = [call EXCEPT ![e] = "failed"]
    /\ UNCHANGED <<vars, today, cost, approvedOn, storedOn, unseen>>

(* 402: "User budget would be exceeded". *)
Refuse(e) ==
    /\ call[e] = "new"
    /\ ~Affordable
    /\ LogCall(e)
    /\ call' = [call EXCEPT ![e] = "refused"]
    /\ UNCHANGED <<today, cost, approvedOn, unseen>>

(* The provider has answered, or failed: reconcile does nothing in this    *)
(* mode, the cost goes into the audit event.                               *)
Finish(e) ==
    /\ call[e] = "calling"
    /\ LogCall(e)
    /\ call' = [call EXCEPT ![e] = "done"]
    /\ cost' = [cost EXCEPT ![e] = CostOf[e]]
    /\ UNCHANGED <<today, approvedOn, unseen>>

(* The other steps of the pipeline. *)
Worker   == Drain /\ StampRows /\ UNCHANGED <<today, handlers>>
Shutdown == Stop /\ UNCHANGED <<today, handlers, storedOn>>

(* What a call costs that is lost with its process nobody knows: the most. *)
RestartAll ==
    /\ Restart
    /\ call' = [e \in Events |-> IF call[e] = "calling" THEN "lost" ELSE call[e]]
    /\ cost' = [e \in Events |-> IF call[e] = "calling" THEN MaxCost ELSE cost[e]]
    /\ UNCHANGED <<today, approvedOn, storedOn, unseen>>

Midnight ==
    /\ today < LastDay /\ today' = today + 1
    /\ UNCHANGED <<vars, handlers, storedOn>>

NextBudget ==
    \/ \E e \in Events : Approve(e) \/ CheckFails(e) \/ Refuse(e) \/ Finish(e)
    \/ Worker \/ Shutdown \/ RestartAll \/ Midnight

SpecBudget == InitBudget /\ [][NextBudget]_budgetVars /\ WF_budgetVars(Worker)

-----------------------------------------------------------------------------
(* Without Redis a day's budget is exceeded by no more than the calls the  *)
(* day's last check could not see, and its own: what is in flight, queued, *)
(* spooled or lost with a process, at the most each can cost.  There is no *)
(* bound but that: a store that fails for good spools every row, and then  *)
(* every check passes.                                                     *)
FallbackOvershoot ==
    \A d \in Days :
        LET approved == {e \in Events : approvedOn[e] = d}
        IN  approved # {} =>
                MapThenSumSet(LAMBDA e : cost[e], approved)
                    <= DailyBudget - Reservation + MaxCost * (unseen[d] + 1)
=============================================================================
