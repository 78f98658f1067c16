------------------------------ MODULE PlanView ------------------------------
(***************************************************************************)
(* How a generated plan is shown and acted on: the view every screen, the  *)
(* report, the workbook and the map are made of (build_plan_view and its   *)
(* readers), and approving a plan, which approves what the view says to    *)
(* send.  The view is computed anew each time, from rows that go on        *)
(* changing after the plan was made: routes move, orders are deleted, a    *)
(* vehicle's capacity is edited, and days pass.                            *)
(*                                                                         *)
(* One run, whose routes number at most one per vehicle and whose routed   *)
(* items all have a route and coordinates, as PlanSolve leaves them.       *)
(***************************************************************************)
EXTENDS Integers, FiniteSetsExt

CONSTANTS
    Orders,          \* the orders of the run, one item each
    Fleet,           \* the number of vehicles
    MinFill,         \* min_fill_ratio, in percent
    StockCapacity,   \* warehouse_capacity_kg, 0 when there is no limit
    Capacities,      \* weight_capacity_kg a vehicle may be given
    LastDay,         \* bound: days are 0..LastDay
    Plans            \* the items that were written

\* Vehicles in the order of their codes, as list_routes_for_run has them.
Vehicles == 1..Fleet
Unassigned == 0
Unrouted == -1
NoSlack == 1000

ASSUME OrdersAssumption == IsFiniteSet(Orders)
ASSUME FleetAssumption == Fleet \in Nat
ASSUME StockAssumption == StockCapacity \in Int
ASSUME CapacityAssumption == Capacities \subseteq Nat
ASSUME LastDayAssumption == LastDay \in Nat

\* An item: its vehicle, weight and last legal departure, and whether the
\* order's location has coordinates.
Item == [on : Vehicles \cup {Unassigned, Unrouted}, kg : Nat, leave : Int, located : BOOLEAN]

ASSUME PlansAssumption == Plans \subseteq [Orders -> Item]

RouteStatus == {"none", "proposed", "approved", "in_transit", "completed"}

VARIABLES
    item,       \* assignment_items of the run
    status,     \* orders.status, "absent" once deleted
    route,      \* route_status, "none" for a vehicle without a route
    capacity,   \* vehicles.weight_capacity_kg
    today       \* effective_planning_date

vars == <<item, status, route, capacity, today>>

-----------------------------------------------------------------------------
(* build_plan_view.  "all" is include_completed. *)

Kg(o) == item[o].kg
Weight(S) == SumFunctionOnSet([o \in Orders |-> Kg(o)], S)
Living == {o \in Orders : status[o] # "absent"}

\* classify_item: an item with a place on a route, one no vehicle took, one
\* that needs attention.
Routed == {o \in Orders : item[o].on \in Vehicles}
Staying == {o \in Orders : item[o].on = Unassigned}
Attention == {o \in Orders : item[o].on = Unrouted}
On(v) == {o \in Orders : item[o].on = v}

\* Only an order that still has a row has a slack; its weight counts anyway.
Slack(o) == item[o].leave - today
Slacks(v) == {Slack(o) : o \in On(v) \cap Living}

Listed(all) ==
    {v \in Vehicles : route[v] # "none" /\ (all \/ route[v] # "completed")}

\* Below the fill threshold; a vehicle of no capacity has no fill.
Thin(v) == capacity[v] > 0 /\ 100 * Weight(On(v)) < MinFill * capacity[v]

\* Faulty variants: an overdue order is no longer urgent; only the fill counts.
SendDueToday(v) == 0 \in Slacks(v) \/ ~Thin(v)
SendWhenFull(v) == ~Thin(v)

\* route_should_send.
Send(v) == (\E s \in Slacks(v) : s <= 0) \/ ~Thin(v)

Waiting(all) == {v \in Listed(all) : ~Send(v)}

\* _min_slack_sort_key: a route of deleted orders has no slack and comes last.
MoreUrgent(v, w) ==
    \/ Slacks(v) # {} /\ Slacks(w) = {}
    \/ Slacks(v) # {} /\ Slacks(w) # {} /\ Min(Slacks(v)) < Min(Slacks(w))
    \/ /\ \/ Slacks(v) = {} /\ Slacks(w) = {}
          \/ Slacks(v) # {} /\ Slacks(w) # {} /\ Min(Slacks(v)) = Min(Slacks(w))
       /\ v < w

\* What is left in the warehouse if the routes more urgent than v are sent.
Remaining(all, v) ==
    Weight(Staying \cup UNION {On(w) : w \in {w \in Waiting(all) : ~MoreUrgent(w, v)}})

\* Faulty variant: the route that makes room for the rest is kept.
FlippedShort(all) ==
    {v \in Waiting(all) :
        /\ StockCapacity > 0
        /\ Weight(Staying \cup UNION {On(w) : w \in {w \in Waiting(all) : MoreUrgent(v, w)}})
              > StockCapacity}

\* Waiting routes are sent after all, the most urgent first, until what is
\* left fits the warehouse.
Flipped(all) ==
    {v \in Waiting(all) : StockCapacity > 0 /\ Remaining(all, v) > StockCapacity}

Hold(all) == Waiting(all) \ Flipped(all)

\* Orders of held routes are moved from riding to staying.
Held(all) == {o \in Routed : item[o].on \in Hold(all)}

Summary(all) ==
    [riding |-> Cardinality(Routed \ Held(all)),
     staying |-> Cardinality(Staying \cup Held(all)),
     attention |-> Cardinality(Attention)]

-----------------------------------------------------------------------------
(* Its readers. *)

\* build_generation_kpi.
Kpi == Summary(TRUE)
OrdersInPlanning == Kpi.riding + Kpi.staying + Kpi.attention

\* build_report: one row per route, and a warning for each below the threshold.
Utilization ==
    [v \in Listed(TRUE) |-> [orders |-> Cardinality(On(v)), kg |-> Weight(On(v))]]
ReportWarned == {v \in DOMAIN Utilization : capacity[v] > 0 /\
                    100 * Utilization[v].kg < MinFill * capacity[v]}

\* The workbook: a row per vehicle on its sheets of costs and of routes, and
\* the sheets of orders.
FleetSheet == [v \in DOMAIN Utilization |-> Utilization[v].kg]
RoutesSheet == [v \in Listed(TRUE) |-> IF v \in Hold(TRUE) THEN "hold" ELSE "send"]

\* Faulty variant: held orders are only listed with their routes.
WarehouseSheetOfUnassigned == Staying

RoutedSheet == Routed
WarehouseSheet == Staying \cup Held(TRUE)
AttentionSheet == Attention

\* list_departure_routes, list_in_transit_routes.
Departures == {v \in Listed(FALSE) : route[v] \in {"approved", "in_transit"}}
InTransit == {v \in Listed(FALSE) : route[v] = "in_transit"}

\* MapViewService.build_for_run: drops drawn on a vehicle's line, markers of
\* orders without a route, and orders the map's warnings name.
Drops(v) == {o \in On(v) \cap Living : item[o].located}
Markers == {o \in Attention \cap Living : item[o].located}
MapWarned == Routed \ UNION {Drops(v) : v \in Vehicles}

\* Faulty variant: goods on the road are stock until they are delivered.
StockUntilDelivered == {o \in Orders : status[o] \in {"new", "planned", "approved"}}

\* _warehouse_stock_orders, for an order of this run.
Stock ==
    {o \in Orders : /\ status[o] \in {"new", "planned", "approved"}
                    /\ ~\E v \in Vehicles :
                          o \in On(v) /\ route[v] \in {"in_transit", "completed"}}

\* The slack of what must leave first; none is later than all.
Soonest(slacks) == IF slacks = {} THEN NoSlack ELSE Min(slacks)

\* warehouse_snapshot.
Occupancy ==
    [kg |-> Weight(Stock), orders |-> Cardinality(Stock),
     slack |-> Soonest({Slack(o) : o \in Stock}),
     overflow |-> StockCapacity > 0 /\ Weight(Stock) > StockCapacity]

\* collect_dashboard, for a database with the orders of this run.
Dashboard ==
    [open |-> Cardinality({o \in Orders : status[o] \in {"new", "planned", "approved"}}),
     riding |-> Summary(FALSE).riding, staying |-> Summary(FALSE).staying,
     attention |-> Summary(FALSE).attention, road |-> InTransit]

\* The map's alerts at a route: thin, past its last day, or on it.  What the
\* view hides has none.
MapAlerts(v) ==
    IF v \notin Listed(FALSE) THEN {}
    ELSE (IF Thin(v) THEN {"thin"} ELSE {})
         \cup (IF Soonest(Slacks(v)) < 0 THEN {"late"}
               ELSE IF Soonest(Slacks(v)) = 0 THEN {"last day"} ELSE {})

-----------------------------------------------------------------------------
(* What changes the rows. *)

SetStatus(S, st) == [o \in Orders |-> IF o \in S THEN st ELSE status[o]]
InStatus(S, st) == {o \in S : status[o] = st}

\* Faulty variant: what is sent for want of room is not approved.
SentByFill == {v \in Listed(TRUE) \ Waiting(TRUE) : route[v] # "approved"}

Sent == {v \in Listed(TRUE) \ Hold(TRUE) : route[v] # "approved"}

\* approve_plan.  A plan without proposed routes is approved already.
ApprovePlan ==
    LET approved == InStatus(UNION {On(v) : v \in Sent}, "planned")
    IN  /\ \E v \in Vehicles : route[v] = "proposed"
        /\ approved # {} \/ Hold(TRUE) = {}
        /\ status' = SetStatus(approved, "approved")
        /\ route' = [v \in Vehicles |-> IF v \in Sent THEN "approved" ELSE route[v]]
        /\ UNCHANGED <<item, capacity, today>>

\* approve_route: the dispatcher may approve a route the view holds back.
ApproveRoute(v) ==
    /\ route[v] = "proposed"
    /\ status' = SetStatus(InStatus(On(v), "planned"), "approved")
    /\ route' = [route EXCEPT ![v] = "approved"]
    /\ UNCHANGED <<item, capacity, today>>

DepartRoute(v) ==
    /\ route[v] = "approved"
    /\ route' = [route EXCEPT ![v] = "in_transit"]
    /\ UNCHANGED <<item, status, capacity, today>>

\* Faulty variant: the order is given the status of its route.
CompleteWithRouteStatus(v) ==
    /\ route[v] = "in_transit"
    /\ status' = SetStatus(On(v) \cap Living, "completed")
    /\ route' = [route EXCEPT ![v] = "completed"]
    /\ UNCHANGED <<item, capacity, today>>

CompleteRoute(v) ==
    /\ route[v] = "in_transit"
    /\ status' = SetStatus(On(v) \cap Living, "delivered")
    /\ route' = [route EXCEPT ![v] = "completed"]
    /\ UNCHANGED <<item, capacity, today>>

\* Items keep the ids of deleted orders.
DeleteOrder(o) ==
    /\ o \in Living
    /\ status' = [status EXCEPT ![o] = "absent"]
    /\ UNCHANGED <<item, route, capacity, today>>

SaveVehicle(v, kg) ==
    /\ capacity' = [capacity EXCEPT ![v] = kg]
    /\ capacity' # capacity
    /\ UNCHANGED <<item, status, route, today>>

\* Unless a planning date is configured.
NextDay ==
    /\ today < LastDay
    /\ today' = today + 1
    /\ UNCHANGED <<item, status, route, capacity>>

-----------------------------------------------------------------------------
Init ==
    /\ item \in Plans
    /\ status = [o \in Orders |-> IF o \in Routed THEN "planned" ELSE "new"]
    /\ route = [v \in Vehicles |-> IF On(v) = {} THEN "none" ELSE "proposed"]
    /\ capacity \in [Vehicles -> Capacities]
    /\ today = 0

Next ==
    \/ ApprovePlan
    \/ \E v \in Vehicles :
          \/ ApproveRoute(v)
          \/ DepartRoute(v)
          \/ CompleteRoute(v)
          \/ \E kg \in Capacities : SaveVehicle(v, kg)
    \/ \E o \in Orders : DeleteOrder(o)
    \/ NextDay

Spec == Init /\ [][Next]_vars

\* Time passes; nobody has to do anything.
FairSpec == Spec /\ WF_vars(NextDay)

-----------------------------------------------------------------------------
(* Properties. *)

\* The type invariant: days and approvals change orders, routes and capacities,
\* never what was planned.
TypeOK ==
    /\ item \in Plans
    /\ status \in [Orders -> {"absent", "new", "planned", "approved", "delivered"}]
    /\ route \in [Vehicles -> RouteStatus]
    /\ capacity \in [Vehicles -> Capacities]
    /\ today \in 0..LastDay

\* The suggestion to send for want of room makes room: what stays fits, unless
\* nothing is left to send; no route is sent that could have stayed; and no
\* route stays that is more urgent than one that is sent.
OverflowRelieved ==
    StockCapacity > 0 => \A all \in BOOLEAN :
        /\ \/ Weight(Staying \cup Held(all)) <= StockCapacity
           \/ Hold(all) = {}
        /\ Flipped(all) # {} =>
              \E last \in Flipped(all) :
                  Weight(Staying \cup Held(all) \cup On(last)) > StockCapacity
        /\ \A v \in Flipped(all), w \in Hold(all) : ~MoreUrgent(w, v)

\* Approving a plan takes every order along that must leave today or is late,
\* though route by route it is weight and room in the warehouse that decide.
UrgentLeaves ==
    [][ApprovePlan =>
        \A o \in Routed : status[o] = "planned" /\ Slack(o) <= 0
            => status'[o] = "approved" \/ route[item[o].on] = "approved"]_vars

\* The page hides completed routes, approving counts them: what the page says
\* will be sent is sent all the same.
ShownIsSent ==
    [][ApprovePlan =>
        \A v \in Listed(FALSE) \ Hold(FALSE) :
            route[v] = "proposed" => route'[v] = "approved"]_vars

\* What the reports count is what the view shows: each item is counted once by
\* the KPI, the workbook lists it under exactly the headings the KPI counts it
\* under and with the decision made for its route, its weight is on one row,
\* the report warns of the routes the view marks as thin, the map shows every
\* order it has a place for and alerts to the routes the report warns of, and to
\* late ones only if the warehouse page says so of their orders, each order that
\* is not delivered or deleted is either in the warehouse or on the departures
\* board, and as many are on the dashboard; and
\* no route is sent for want of room that the warehouse page says there is,
\* as long as what the view counts as stock is there.  (Orders that are deleted,
\* delivered or on the road with a thin route are not.)
BooksAgree ==
    /\ OrdersInPlanning = Cardinality(Orders)
    /\ Kpi.staying = Cardinality(WarehouseSheet)
    /\ Kpi.attention = Cardinality(AttentionSheet)
    /\ RoutedSheet \cup WarehouseSheet \cup AttentionSheet = Orders
    /\ Cardinality(RoutedSheet \ WarehouseSheet) = Kpi.riding
    /\ \A o \in RoutedSheet : o \in WarehouseSheet <=> RoutesSheet[item[o].on] = "hold"
    /\ SumFunction(FleetSheet)
          + Weight(Staying) + Weight(Attention) = Weight(Orders)
    /\ Waiting(TRUE) \subseteq ReportWarned
    /\ {o \in Orders \ Staying : status[o] # "absent" /\ item[o].located}
          = Markers \cup (Routed \ MapWarned)
    /\ \A o \in Living : status[o] # "delivered" =>
          (o \in Stock) # (item[o].on \in InTransit)
    /\ Dashboard.open - Occupancy.orders =
          Cardinality({o \in Living : item[o].on \in Dashboard.road /\ status[o] # "delivered"})
    /\ LET counted == Staying \cup UNION {On(v) : v \in Waiting(FALSE)}
       IN  counted \subseteq Stock /\ ~Occupancy.overflow => Flipped(FALSE) = {}
    /\ ReportWarned \cap Listed(FALSE) = {v \in Vehicles : "thin" \in MapAlerts(v)}
    /\ \A v \in Vehicles : On(v) \cap Living \subseteq Stock /\ Occupancy.slack > 0
          => MapAlerts(v) \subseteq {"thin"}

\* A route that waits for more freight does not wait for good: its first order
\* to fall due sends it, unless the order is deleted.
HeldRouteLeaves ==
    \A v \in Vehicles :
        v \in Hold(TRUE) /\ Slacks(v) # {} ~> v \notin Hold(TRUE) \/ Slacks(v) = {}
=============================================================================
