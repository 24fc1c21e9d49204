-------------------------- MODULE MCEventDelivery --------------------------
(***************************************************************************)
(* EventDelivery with batches of two lines and files that are rotated      *)
(* after the second.                                                       *)
(***************************************************************************)
EXTENDS EventDelivery, TLC

CONSTANTS e1, e2, e3, f1, f2

MCEvents    == {e1, e2, e3}
MCTwoEvents == {e1, e2}
MCFlushers  == {f1, f2}
MCSymmetry  == Permutations(MCEvents) \cup Permutations(MCFlushers)
=============================================================================
