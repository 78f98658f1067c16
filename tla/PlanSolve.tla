----------------------------- MODULE PlanSolve -----------------------------
(***************************************************************************)
(* What happens to a pool of orders between the two transactions of a      *)
(* generation: choosing what must ship (prepare_plan_request), assigning   *)
(* orders to vehicles (CP-SAT), grouping them into drops, trimming and     *)
(* sequencing the drops (OR-Tools), and assembling the rows to write.      *)
(*                                                                         *)
(* The two solvers are external: CP-SAT returns some assignment that meets *)
(* the constraints, and a best one if it says so; the routing solver some  *)
(* order of the drops.  A place stands for a drop key: its coordinates, or *)
(* the name a location without coordinates has.                            *)
(***************************************************************************)
EXTENDS Integers, Sequences, FiniteSetsExt

CONSTANTS
    N,               \* orders are 1..N, in the order they are read
    Vehicles,
    NoVehicle,
    Capacity,        \* weight_capacity_kg of each vehicle
    Distance,        \* from the depot, of each place with coordinates
    Names,           \* places known by name only
    Nowhere,         \* a location without any text
    NoWeight,        \* total_weight_kg is None
    MaxDrops,        \* max_drops_per_route
    StockCapacity,   \* warehouse_capacity_kg, 0 when there is no limit
    UrgentBonus,     \* _URGENT_BONUS
    Inputs           \* the pools that are planned

ASSUME NoVehicleAssumption == NoVehicle \notin Vehicles
ASSUME CountAssumption == N \in Nat
ASSUME DropsAssumption == MaxDrops \in Int
ASSUME CapacityAssumption == Capacity \in [Vehicles -> Nat]
ASSUME StockAssumption == StockCapacity \in Int
ASSUME NowhereAssumption == Nowhere \notin Names /\ Nowhere \notin DOMAIN Distance
ASSUME NamesAssumption == Names \cap DOMAIN Distance = {}

Orders == 1..N
Coordinates == DOMAIN Distance
Places == Coordinates \cup Names \cup {Nowhere}

\* An order as read: slack in days until it must leave, and whether a row of
\* the warehouse queue holds it back or has it at the top.
Order == [weight : Nat \cup {NoWeight}, place : Places, slack : Int,
          queued : {"no", "top", "held"}]

ASSUME InputsAssumption == Inputs \subseteq [Orders -> Order]

VARIABLES
    stage,      \* how far the generation is
    order,      \* the orders NEW or taken back from the run, as read
    forced,     \* the must-ship orders
    verdict,    \* what the assignment solver says of its answer
    load,       \* who the assignment solver puts an order on
    tour,       \* the drops of each vehicle in the order of its route
    trimmed,    \* orders of drops over the limit
    item        \* what is written of each order

vars == <<stage, order, forced, verdict, load, tour, trimmed, item>>

-----------------------------------------------------------------------------
(* Preparing: who is planned, and who must ship today. *)

\* _exclude_held.
Pool == {o \in Orders : order[o].queued # "held"}

\* Orders without a weight do not reach the solver.
Solvable == {o \in Pool : order[o].weight # NoWeight}

Kg(o) == IF order[o].weight = NoWeight THEN 0 ELSE order[o].weight
Weight(S) == SumFunctionOnSet([o \in Orders |-> Kg(o)], S)

\* The last legal departure is today or past, or the order is first in the queue.
Due == {o \in Pool : order[o].slack <= 0}
Top == {o \in Orders : order[o].queued = "top"}

\* Faulty variants: the heaviest first whatever their dates; pushing stops one
\* order too early.
HeavierFirst(p, q) ==
    \/ Kg(p) > Kg(q)
    \/ Kg(p) = Kg(q) /\ p < q

\* The order in which overflow pushes out what could wait: least slack, then
\* heaviest, then as read.
PushedBefore(p, q) ==
    \/ order[p].slack < order[q].slack
    \/ /\ order[p].slack = order[q].slack
       /\ \/ Kg(p) > Kg(q)
          \/ Kg(p) = Kg(q) /\ p < q

Need == Weight(Pool) - StockCapacity - Weight((Due \cup Top) \cap Pool)

PushedTooFew ==
    LET optional == Pool \ (Due \cup Top)
    IN  IF StockCapacity <= 0 \/ Need <= 0 THEN {}
        ELSE {o \in optional : Weight({p \in optional : p = o \/ PushedBefore(p, o)}) < Need}

\* When the stock is over the warehouse's capacity: so many more must ship
\* that what remains fits.
Pushed ==
    LET optional == Pool \ (Due \cup Top)
    IN  IF StockCapacity <= 0 \/ Need <= 0 THEN {}
        ELSE {o \in optional : Weight({p \in optional : PushedBefore(p, o)}) < Need}

\* prepare_plan_request, without vehicles a ValueError.
Prepare ==
    /\ stage = "read"
    /\ Vehicles # {}
    /\ stage' = "prepared"
    /\ forced' = Due \cup Top \cup Pushed
    /\ UNCHANGED <<order, verdict, load, tour, trimmed, item>>

-----------------------------------------------------------------------------
(* Assigning orders to vehicles. *)

\* Too light or heavier than any vehicle takes: left out before solving.
Eligible ==
    {o \in Solvable : Kg(o) > 0 /\ \E v \in Vehicles : Kg(o) <= Capacity[v]}

\* A drop of its own for an order without any location.
DropKey(o) == IF order[o].place = Nowhere THEN o ELSE order[o].place
DropKeys(S) == {DropKey(o) : o \in S}

On(l, v) == {o \in Solvable : l[o] = v}

\* Faulty variant: stops are not counted.
FeasibleByWeight(l) ==
    /\ \A o \in Orders \ Eligible : l[o] = NoVehicle
    /\ \A v \in Vehicles : Weight(On(l, v)) <= Capacity[v]

\* The constraints of the model given to CP-SAT.
Feasible(l) ==
    /\ \A o \in Orders \ Eligible : l[o] = NoVehicle
    /\ \A v \in Vehicles :
          /\ Weight(On(l, v)) <= Capacity[v]
          /\ MaxDrops >= 1 => Cardinality(DropKeys(On(l, v))) <= MaxDrops

Assigned(l) == {o \in Orders : l[o] # NoVehicle}

Verdicts == {"EMPTY", "FEASIBLE", "OPTIMAL", "UNKNOWN"}

\* Assigned weight, that of must-ship orders counting so many times more.
Objective(l) == Weight(Assigned(l)) + UrgentBonus * Weight(Assigned(l) \cap forced)

Loads == [Orders -> Vehicles \cup {NoVehicle}]
NoLoad == [o \in Orders |-> NoVehicle]

\* What solve_assignment may answer: nothing to solve, or the solver stops, at
\* its time limit at the latest, with a proof of optimality, an answer or none.
Answers(l, status) ==
    IF Eligible = {} THEN l = NoLoad /\ status = "EMPTY"
    ELSE \/ Feasible(l) /\ status = "FEASIBLE"
         \/ /\ Feasible(l) /\ status = "OPTIMAL"
            /\ \A k \in Loads : Feasible(k) => Objective(k) <= Objective(l)
         \/ l = NoLoad /\ status = "UNKNOWN"

\* solve_assignment_stage.
SolveAssignment ==
    /\ stage = "prepared"
    /\ stage' = "assigned"
    /\ load' \in Loads
    /\ verdict' \in Verdicts
    /\ Answers(load', verdict')
    /\ UNCHANGED <<order, forced, tour, trimmed, item>>

-----------------------------------------------------------------------------
(* Sequencing the drops of each vehicle. *)

\* _build_routing_inputs: only orders with coordinates are grouped into drops.
Located(S) == {o \in S : order[o].place \in Coordinates}
Drops(v) == {order[o].place : o \in Located(On(load, v))}
AtDrop(v, d) == {o \in On(load, v) : order[o].place = d}

\* Nearest to the depot, then heaviest, then first in the load.
Nearer(v, d, e) ==
    /\ d # e
    /\ \/ Distance[d] < Distance[e]
       \/ /\ Distance[d] = Distance[e]
          /\ \/ Weight(AtDrop(v, d)) > Weight(AtDrop(v, e))
             \/ /\ Weight(AtDrop(v, d)) = Weight(AtDrop(v, e))
                /\ Min(AtDrop(v, d)) < Min(AtDrop(v, e))

\* trim_drops.
Kept(v) ==
    IF MaxDrops < 1 THEN {}
    ELSE {d \in Drops(v) : Cardinality({e \in Drops(v) : Nearer(v, e, d)}) < MaxDrops}

\* The routes the solver may return: the kept drops, each once.
Sequences(S) ==
    {s \in [1..Cardinality(S) -> S] : \A i, j \in DOMAIN s : s[i] = s[j] => i = j}

Trimmed(v) == {o \in Orders : \E d \in Drops(v) \ Kept(v) : o \in AtDrop(v, d)}

\* build_routing_bundle and solve_routes_stage.
SolveRoutes ==
    /\ stage = "assigned"
    /\ stage' = "routed"
    /\ \E t \in [Vehicles -> UNION {Sequences(Kept(v)) : v \in Vehicles}] :
          /\ \A v \in Vehicles : t[v] \in Sequences(Kept(v))
          /\ tour' = t
    /\ trimmed' = UNION {Trimmed(v) : v \in Vehicles}
    /\ UNCHANGED <<order, forced, verdict, load, item>>

-----------------------------------------------------------------------------
(* The rows to write. *)

NoItem == [kind |-> "none", vehicle |-> NoVehicle, sequence |-> 0, reason |-> "none"]

\* Orders in the sequence of the drops, and within a drop as they were read.
Visited(v, o) == \E i \in DOMAIN tour[v] : tour[v][i] = order[o].place
VisitedBefore(v, p, o) ==
    \E i, j \in DOMAIN tour[v] :
        /\ tour[v][i] = order[p].place
        /\ tour[v][j] = order[o].place
        /\ i < j \/ (i = j /\ p < o)

RoutedOn(v) == {o \in On(load, v) : Visited(v, o)}
Routed == UNION {RoutedOn(v) : v \in Vehicles}

\* Faulty variant: orders left out for want of coordinates have no reason.
ReasonOfTrimming(o) == IF o \in trimmed THEN "max_drops_exceeded" ELSE "unknown"

\* Why an assigned order has no route.  The routing's unrouted orders are its
\* trimmed ones, so "routing_failed" is never the reason.
Reason(o) ==
    IF order[o].place \notin Coordinates THEN "missing_coords"
    ELSE IF o \in trimmed THEN "max_drops_exceeded" ELSE "unknown"

\* Faulty variant: assigned orders without a route are forgotten.
ItemIfRouted(o) ==
    IF o \in Routed
    THEN [kind |-> "routed", vehicle |-> load[o], reason |-> "none",
          sequence |-> 1 + Cardinality({p \in RoutedOn(load[o]) : VisitedBefore(load[o], p, o)})]
    ELSE IF load[o] = NoVehicle /\ o \in Solvable
    THEN [NoItem EXCEPT !.kind = "UNASSIGNED"]
    ELSE NoItem

\* An order rides at its place in the sequence; it is UNROUTED when it was
\* assigned and its drop is not visited, UNASSIGNED when no vehicle took it.
ItemOf(o) ==
    IF o \in Routed
    THEN [kind |-> "routed", vehicle |-> load[o], reason |-> "none",
          sequence |-> 1 + Cardinality({p \in RoutedOn(load[o]) : VisitedBefore(load[o], p, o)})]
    ELSE IF load[o] # NoVehicle
    THEN [NoItem EXCEPT !.kind = "UNROUTED", !.vehicle = load[o], !.reason = Reason(o)]
    ELSE IF o \in Solvable
    THEN [NoItem EXCEPT !.kind = "UNASSIGNED"]
    ELSE NoItem

\* Faulty variant: orders without coordinates are not named.
WarnedOfWeight ==
    {o \in Solvable \cap forced : load[o] = NoVehicle} \cup (Pool \ Solvable)

\* Orders the warnings of a generation name: must-ship orders without a vehicle,
\* orders without a weight, and assigned ones without coordinates.
Warned ==
    {o \in Solvable \cap forced : load[o] = NoVehicle}
        \cup (Pool \ Solvable)
        \cup {o \in Solvable : load[o] # NoVehicle /\ order[o].place \notin Coordinates}

\* assemble_prepared_plan.
Assemble ==
    /\ stage = "routed"
    /\ stage' = "assembled"
    /\ item' = [o \in Orders |-> ItemOf(o)]
    /\ UNCHANGED <<order, forced, verdict, load, tour, trimmed>>

-----------------------------------------------------------------------------
Init ==
    /\ stage = "read"
    /\ order \in Inputs
    /\ forced = {}
    /\ verdict = "none"
    /\ load = NoLoad
    /\ tour = [v \in Vehicles |-> <<>>]
    /\ trimmed = {}
    /\ item = [o \in Orders |-> NoItem]

Next == Prepare \/ SolveAssignment \/ SolveRoutes \/ Assemble

Spec == Init /\ [][Next]_vars

-----------------------------------------------------------------------------
(* Properties. *)

\* Values have their types; an order without a route has a reason that is known.
TypeOK ==
    /\ stage \in {"read", "prepared", "assigned", "routed", "assembled"}
    /\ order \in Inputs
    /\ forced \subseteq Orders
    /\ verdict \in {"none"} \cup Verdicts
    /\ load \in Loads
    /\ tour \in [Vehicles -> Seq(Coordinates)]
    /\ trimmed \subseteq Orders
    /\ item \in [Orders -> [kind : {"none", "routed", "UNROUTED", "UNASSIGNED"},
                           vehicle : Vehicles \cup {NoVehicle}, sequence : Nat,
                           reason : {"none", "missing_coords", "max_drops_exceeded"}]]

\* _must_ship_ids pushes enough out for the rest to fit the warehouse, nothing
\* that was not needed, and never leaves a more urgent order behind than one it
\* pushes.
OverflowPushesUrgent ==
    stage # "read" /\ StockCapacity > 0 =>
        LET pushed == forced \ (Due \cup Top)
        IN  /\ Weight(Pool \ forced) <= StockCapacity
            /\ pushed # {} =>
                  \E last \in pushed :
                      Weight(Pool \ forced) + Kg(last) > StockCapacity
            /\ \A p \in pushed, q \in Pool \ forced : order[p].slack <= order[q].slack

\* The assignment counts drops as the routing does, so a limit that lets a
\* vehicle stop at all never makes trim_drops reject an assigned order.
NothingTrimmed == MaxDrops >= 1 => trimmed = {}

\* Who carries what is an answer as Placement defines it: each order the solver
\* was given rides once or is handed back, within every vehicle's capacity and
\* number of stops.
Promise == INSTANCE Placement WITH
    Stops <- IF MaxDrops < 1 THEN 0 ELSE MaxDrops,
    offered <- [o \in Solvable |-> order[o]],
    carrier <- IF stage = "assembled"
               THEN [o \in Solvable |-> IF item[o].kind = "routed"
                                        THEN item[o].vehicle ELSE NoVehicle]
               ELSE [o \in {} |-> NoVehicle],
    back <- {o \in Orders : item[o].kind \in {"UNROUTED", "UNASSIGNED"}}

ImplementsPlacement == Promise!Spec

\* An order that must leave today and does not ride is named in a warning of
\* the generation, whatever stage lost it.
MustShipReported ==
    stage = "assembled" /\ MaxDrops >= 1 =>
        \A o \in forced \cap Pool : item[o].kind # "routed" => o \in Warned
=============================================================================
