------------------------------ MODULE MCBudget ------------------------------
(***************************************************************************)
(* Budget on small instances.  The dear model has a cheaper substitute;    *)
(* prices and budgets are chosen so that one or two reservations exhaust   *)
(* the budget and a further request must be downgraded or refused.         *)
(***************************************************************************)
EXTENDS Budget, TLC

CONSTANTS r1, r2, r3, g1, g2, dear, cheap

MCRequests    == {r1, r2, r3}
MCTwoRequests == {r1, r2}
MCReplicas    == {g1, g2}
MCOneReplica  == {g1}
MCOneModel    == {dear}
MCModels      == {dear, cheap}
MCReservation == dear :> 2 @@ cheap :> 1
MCSubstitute  == dear :> cheap @@ cheap :> cheap
MCDearPrice   == dear :> 2
MCItself      == dear :> dear
MCTwoDays     == 0 :> 0 @@ 1 :> 0
MCOneDay      == 0 :> 0

MCSymmetry    == Permutations(MCRequests) \cup Permutations(MCReplicas)
=============================================================================
