---------------------------- MODULE MCStoreBudget ----------------------------
(***************************************************************************)
(* The audit pipeline with a queue of two, under chat requests that spend  *)
(* a budget: enough events for a queue that has an order, to overflow it   *)
(* before the worker wakes or after it died, and to find the budget used   *)
(* up.                                                                     *)
(***************************************************************************)
EXTENDS StoreBudget, TLC

CONSTANTS e1, e2, e3

MCEvents == {e1, e2, e3}

(* A call that costs its reservation, and two that cost more. *)
MCCostOf == e1 :> 1 @@ e2 :> 2 @@ e3 :> 2
=============================================================================
