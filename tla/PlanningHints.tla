--------------------------- MODULE PlanningHints ----------------------------
(* What the planning page promises the dispatcher of unlocking a plan        *)
(* (crossdock/text_pl.py), and what a sequence of legal clicks breaks.       *)
EXTENDS MCPlanning

\* "Odblokuj zatwierdzone" (ui/pages.py) unlocks approved routes, and
\* UNLOCK_ROUTE_HINT says: not departed ones.  But unlocking the whole plan
\* also returns the orders of its departed routes to the pool.
DepartedOrdersAreNotReleased ==
    [][\A r \in Runs, v \in Vehicles, s \in Slots :
        route[r][v][s] = "in_transit" /\ route'[r][v][s] = "in_transit" =>
            \A o \in CarriedBy(r, v) : status[o] = "approved" => status'[o] # "new"]_vars
=============================================================================
