---------------------------- MODULE MCPlanSolve ----------------------------
(* PlanSolve for TLC: two vehicles, four places, and pools to plan. *)
EXTENDS PlanSolve, TLC

CONSTANTS v1, v2, none, at, near, far, village, nowhere

MCCapacity == v1 :> 3 @@ v2 :> 2
MCDistance == at :> 1 @@ near :> 1 @@ far :> 2

OrderOf(weights, places, slacks) ==
    [weight : weights, place : places, slack : slacks, queued : {"no"}]

\* Three orders in every combination of a few weights, places and dates; one of
\* them may be first in the queue or held back.
MCInputs ==
    {<<p, q, r>> : p \in OrderOf({1, none}, {at, village}, {0, 2}),
                   q \in OrderOf({0, 1, 2}, {at, near, nowhere}, {-1, 1}),
                   r \in [weight : {1, 4}, place : {near, far}, slack : {1, 2},
                          queued : {"no", "top", "held"}]}
=============================================================================
