------------------------ MODULE MCRequestSettlement ------------------------
(* Instances of RequestSettlement for TLC.                                 *)
EXTENDS RequestSettlement, TLC

CONSTANTS r1, r2, api1, plan1, plan2

TwoRequests == {r1, r2}
OneRequest  == {r1}
PlanAndApi  == {plan1, api1}
TwoPlans    == {plan1, plan2}
OnePlan     == {plan1}
Consumed    == {1, 3}

Overrun     == {3}

Symmetry == Permutations({r1, r2})
=============================================================================
