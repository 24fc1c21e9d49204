---------------------------- MODULE BudgetLedger ----------------------------
(***************************************************************************)
(* What budget.py promises one user over one budget period: an account on  *)
(* which a request first reserves an amount, in one indivisible step and   *)
(* only if everything spent and reserved stays within the limit, and is    *)
(* then charged once, which gives its reservation back.                    *)
(***************************************************************************)
EXTENDS Integers, FiniteSets

CONSTANTS Requests, MaxReservation, MaxCost,
          Allowance      \* the budget of the period

VARIABLES spent,         \* charged so far
          state,         \* of each request: "new", "reserved" or "charged"
          amount         \* reserved by each request, kept once charged

vars == <<spent, state, amount>>

Init ==
    /\ spent = 0
    /\ state = [r \in Requests |-> "new"]
    /\ amount = [r \in Requests |-> 0]

(* The sum of the amounts reserved and not yet charged. *)
Outstanding ==
    Cardinality({x \in Requests \X (1 .. MaxReservation) :
                    state[x[1]] = "reserved" /\ x[2] <= amount[x[1]]})

Reserve(r, a) ==
    /\ state[r] = "new"
    /\ spent + Outstanding + a <= Allowance
    /\ state' = [state EXCEPT ![r] = "reserved"]
    /\ amount' = [amount EXCEPT ![r] = a]
    /\ UNCHANGED spent

Charge(r, c) ==
    /\ state[r] = "reserved"
    /\ state' = [state EXCEPT ![r] = "charged"]
    /\ spent' = spent + c
    /\ UNCHANGED amount

Next ==
    \E r \in Requests :
        \/ \E a \in 0 .. MaxReservation : Reserve(r, a)
        \/ \E c \in 0 .. MaxCost : Charge(r, c)

Spec == Init /\ [][Next]_vars
=============================================================================
