----------------------------- MODULE MCPlanView -----------------------------
(* PlanView for TLC: a route of two orders, a route of one, and an order that *)
(* is left over, with a few weights and dates.                                *)
EXTENDS PlanView, TLC

At(vs, kgs, days) == [on : vs, kg : kgs, leave : days, located : {TRUE}]

MCPlans ==
    {1 :> p @@ 2 :> q @@ 3 :> r @@ 4 :> s :
        p \in At({1}, {1}, {1}),
        q \in At({1}, {1}, {2}),
        r \in At({2}, {1, 2}, {0, 1}),
        s \in At({Unassigned}, {1}, {1}) \cup
              [on : {Unrouted}, kg : {1}, leave : {1}, located : {FALSE}]}
=============================================================================
