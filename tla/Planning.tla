------------------------------ MODULE Planning ------------------------------
(***************************************************************************)
(* The dispatcher's core of Crossdock: orders, plan runs ("generations"),  *)
(* the routes of a run, the vehicles and the warehouse queue, as kept by   *)
(* PlanningService and the repositories it uses.                           *)
(*                                                                         *)
(* A service call is one action: it reads, then writes and commits inside  *)
(* one session_scope(), and two calls are taken one after the other (the   *)
(* README says what SQLite guarantees of this).  Generating a plan is the  *)
(* exception the pages make: one call reads a snapshot (Prepare), solving  *)
(* takes minutes outside any session, and another call writes the answer   *)
(* (Persist).  Anything any user does may fall in between.                 *)
(*                                                                         *)
(* Data the properties do not tell apart is left out: weights, dates and   *)
(* coordinates only decide which order the solver puts where and which     *)
(* routes are worth sending, and both are nondeterministic choices here.   *)
(***************************************************************************)
EXTENDS Integers

CONSTANTS
    Vehicles,     \* the fleet: rows of the vehicles table
    NoVehicle,    \* what an order that no vehicle takes is assigned to
    Users,        \* browser sessions that may have a generation in progress
    MaxOrder,     \* bound: order ids are 1..MaxOrder
    MaxRun,       \* bound: run ids are 1..MaxRun
    MaxRoutes,    \* bound: routes one run can hold for one vehicle
    Weightless    \* orders imported without a weight: never given to the solver

ASSUME NoVehicleAssumption == NoVehicle \notin Vehicles
ASSUME BoundsAssumption ==
    /\ MaxOrder \in Nat
    /\ MaxRun \in Nat
    /\ MaxRoutes \in Nat

Orders == 1..MaxOrder
Runs == 1..MaxRun
Slots == 1..MaxRoutes

\* Stands for target_run_id = None together with force_new: start a new run.
NoRun == 0

Closed == {"approved", "in_transit", "completed"}
OrderStatus == {"absent", "new", "planned", "approved", "delivered"}
PlanStatus == {"none", "draft", "partial", "approved"}
RouteStatus == {"none", "proposed"} \cup Closed
QueueStatus == {"none", "waiting", "held"}

VARIABLES
    status,   \* orders.status, "absent" for an id with no row
    queue,    \* warehouse_queue.status, "none" for an order not queued
    plan,     \* assignment_runs.plan_status, "none" for an id with no row
    riding,   \* per run, the <<order, vehicle>> items that have a sequence
    left,     \* per run, the orders of its UNASSIGNED and UNROUTED items
    route,    \* per run and vehicle, route_status of each of its routes
    active,   \* vehicles.is_active
    busy,     \* vehicles.is_busy
    job       \* per user, the snapshot a running generation works on

vars == <<status, queue, plan, riding, left, route, active, busy, job>>

-----------------------------------------------------------------------------
(* What the handlers read. *)

\* A generation's snapshot: the run it will append to, the orders in the
\* pool and the vehicles the solver may use.  No vehicle: nothing is running.
Request == [target : Runs \cup {NoRun},
            pool : SUBSET Orders,
            fleet : SUBSET Vehicles]

Idle == [target |-> NoRun, pool |-> {}, fleet |-> {}]

ProtectedIn(rt) == {v \in Vehicles : \E s \in Slots : rt[v][s] \in Closed}

StatusesIn(rt) ==
    {st \in RouteStatus \ {"none"} : \E v \in Vehicles, s \in Slots : rt[v][s] = st}

\* Orders that some vehicle of the run carries, and those a given one carries.
Carried(r) == {o \in Orders : \E v \in Vehicles : <<o, v>> \in riding[r]}
CarriedBy(r, v) == {o \in Orders : <<o, v>> \in riding[r]}

WithStatus(S, sts) == {o \in S : status[o] \in sts}

\* Faulty variant, for checking the properties: a departed or completed route
\* no longer counts as closed.
SyncedBlindToDeparted(rt) ==
    IF StatusesIn(rt) = {} THEN "draft"
    ELSE IF StatusesIn(rt) \subseteq {"approved"} THEN "approved"
    ELSE IF "approved" \in StatusesIn(rt) THEN "partial"
    ELSE "draft"

\* _sync_plan_status_from_routes: the plan status the routes of a run call for.
Synced(rt) ==
    IF StatusesIn(rt) = {} THEN "draft"
    ELSE IF StatusesIn(rt) \subseteq Closed THEN "approved"
    ELSE IF StatusesIn(rt) \cap Closed # {} THEN "partial"
    ELSE "draft"

\* SQLite gives the next row the highest id in use plus one, so the id of a
\* deleted row is used again once no higher one is left.
IsNextRun(r) ==
    /\ \A q \in Runs : q >= r => plan[q] = "none"
    /\ r > 1 => plan[r - 1] # "none"

IsNextOrder(o) ==
    /\ \A p \in Orders : p >= o => status[p] = "absent"
    /\ o > 1 => status[o - 1] # "absent"

\* Only a draft or partial run is appended to.
RunForAppend(t) ==
    IF t \in Runs /\ plan[t] \in {"draft", "partial"} THEN t ELSE NoRun

\* Faulty variant: the vehicles of the run's own closed routes are offered too.
FleetWithProtected(target) == active

\* The global is_busy flag is not consulted: an alternative generation may
\* use the whole active fleet.
FleetForSolver(target) ==
    IF target = NoRun THEN active ELSE active \ ProtectedIn(route[target])

\* Faulty variant: a draft's orders are taken back whatever their status.
CarriedInAnyStatus(target) ==
    IF target = NoRun THEN {} ELSE WithStatus(Carried(target), OrderStatus \ {"absent"})

\* Orders of proposed routes that generating again puts back into the pool.
\* A partial run adds the left-over ones, which another run may have planned.
PlannedOnRun(target) ==
    IF target = NoRun THEN {}
    ELSE IF plan[target] = "draft" THEN WithStatus(Carried(target), {"planned"})
    ELSE WithStatus(left[target] \cup
                    UNION {CarriedBy(target, v) : v \in Vehicles \ ProtectedIn(route[target])},
                    {"planned"})

RequestFor(t) ==
    LET target == RunForAppend(t)
        unheld == {o \in Orders : queue[o] # "held"}
    IN  [target |-> target,
         pool |-> ((WithStatus(Orders, {"new"}) \cup PlannedOnRun(target))
                      \cap unheld) \ Weightless,
         fleet |-> FleetForSolver(target)]

-----------------------------------------------------------------------------
(* Generating a plan. *)

\* The solver's answer puts every order of the pool on one vehicle of the
\* snapshot's fleet, or on none (UNASSIGNED, or UNROUTED for want of
\* coordinates or because the route was trimmed).
Answers(req) == [req.pool -> req.fleet \cup {NoVehicle}]

Placed(ans) == {o \in DOMAIN ans : ans[o] # NoVehicle}
Unplaced(ans) == {o \in DOMAIN ans : ans[o] = NoVehicle}

\* Faulty variant: orders without a vehicle are saved as if they rode.
ItemsOfAll(ans) == {<<o, ans[o]>> : o \in DOMAIN ans}

Items(ans) == {<<o, ans[o]>> : o \in Placed(ans)}
UsedBy(ans) == {ans[o] : o \in Placed(ans)}

NoRoutes == [v \in Vehicles |-> [s \in Slots |-> "none"]]

\* Bound: a vehicle the answer uses must have room for one more route.
HasRoom(rt, vs) == \A v \in vs : \E s \in Slots : rt[v][s] = "none"

AddProposed(rt, vs) ==
    [v \in Vehicles |->
        IF v \in vs
        THEN [rt[v] EXCEPT ![CHOOSE s \in Slots : rt[v][s] = "none"] = "proposed"]
        ELSE rt[v]]

\* Faulty variant: only the orders of routes that have not departed survive.
KeptItemsUndeparted(r) ==
    {x \in riding[r] : \E s \in Slots : route[r][x[2]][s] = "approved"}

\* delete_proposed_payload: what stays of a run that is generated again.
KeptRoutes(r) ==
    [v \in Vehicles |-> [s \in Slots |->
        IF route[r][v][s] \in Closed THEN route[r][v][s] ELSE "none"]]

KeptItems(r) == {x \in riding[r] : x[2] \in ProtectedIn(route[r])}

\* Faulty variant: a partial run's dropped orders are not returned.
ResetDraftOnly(r) ==
    IF plan[r] = "draft" THEN WithStatus(Carried(r), {"planned"}) ELSE {}

\* persist_prepared_plan first returns the PLANNED orders of what it drops to
\* NEW: in a draft every routed order, in a partial run what is not kept.
ResetOnSave(r) ==
    IF plan[r] = "draft" THEN WithStatus(Carried(r), {"planned"})
    ELSE WithStatus(left[r] \cup
                    {o \in Orders : \E v \in Vehicles :
                        <<o, v>> \in riding[r] \ KeptItems(r)},
                    {"planned"})

\* Faulty variant: the whole pool is marked PLANNED, not just what was routed.
PlannedWholePool(reset, ans) ==
    [o \in Orders |->
        IF status[o] = "absent" THEN "absent"
        ELSE IF o \in DOMAIN ans THEN "planned"
        ELSE IF o \in reset THEN "new"
        ELSE status[o]]

\* ... and then marks every routed order of the answer PLANNED, whatever has
\* become of it since the snapshot.  A deleted order has no row to mark.
StatusAfterSave(reset, ans) ==
    [o \in Orders |->
        IF status[o] = "absent" THEN "absent"
        ELSE IF o \in Placed(ans) THEN "planned"
        ELSE IF o \in reset THEN "new"
        ELSE status[o]]

SaveInto(r, ans) ==
    /\ plan[r] \in {"draft", "partial"}
    /\ HasRoom(KeptRoutes(r), UsedBy(ans))
    /\ riding' = [riding EXCEPT ![r] = KeptItems(r) \cup Items(ans)]
    /\ left' = [left EXCEPT ![r] = Unplaced(ans)]
    /\ route' = [route EXCEPT ![r] = AddProposed(KeptRoutes(r), UsedBy(ans))]
    /\ status' = StatusAfterSave(ResetOnSave(r), ans)
    /\ UNCHANGED <<queue, plan, active, busy>>

SaveNew(ans) ==
    \E r \in Runs :
        /\ IsNextRun(r)
        /\ HasRoom(NoRoutes, UsedBy(ans))
        /\ plan' = [plan EXCEPT ![r] = "draft"]
        /\ riding' = [riding EXCEPT ![r] = Items(ans)]
        /\ left' = [left EXCEPT ![r] = Unplaced(ans)]
        /\ route' = [route EXCEPT ![r] = AddProposed(NoRoutes, UsedBy(ans))]
        /\ status' = StatusAfterSave({}, ans)
        /\ UNCHANGED <<queue, active, busy>>

Save(req, ans) ==
    IF req.target = NoRun THEN SaveNew(ans) ELSE SaveInto(req.target, ans)

\* The page's first transaction: only reads.
Prepare(u, t) ==
    /\ job[u] = Idle
    /\ RequestFor(t).fleet # {}
    /\ job' = [job EXCEPT ![u] = RequestFor(t)]
    /\ UNCHANGED <<status, queue, plan, riding, left, route, active, busy>>

\* The page's last transaction: writes the answer to the snapshot.
Persist(u) ==
    /\ job[u] # Idle
    /\ \E ans \in Answers(job[u]) : Save(job[u], ans)
    /\ job' = [job EXCEPT ![u] = Idle]

\* A generation that ends without writing: the solver or the server failed,
\* or the target run has been approved or deleted and Persist is refused.
AbandonGenerate(u) ==
    /\ job[u] # Idle
    /\ job' = [job EXCEPT ![u] = Idle]
    /\ UNCHANGED <<status, queue, plan, riding, left, route, active, busy>>

\* The service's run_plan does all of it in the caller's transaction.
RunPlan(t) ==
    /\ RequestFor(t).fleet # {}
    /\ \E ans \in Answers(RequestFor(t)) : Save(RequestFor(t), ans)
    /\ UNCHANGED job

CreateEmptyPlan ==
    \E r \in Runs :
        /\ IsNextRun(r)
        /\ plan' = [plan EXCEPT ![r] = "draft"]
        /\ UNCHANGED <<status, queue, riding, left, route, active, busy, job>>

-----------------------------------------------------------------------------
(* A route's life.  A handler takes the first route of the run with the      *)
(* vehicle's id; when a run holds several, the query does not say which.     *)

SetStatus(S, st) == [o \in Orders |-> IF o \in S THEN st ELSE status[o]]

\* Faulty variant: held orders stay in the queue.
DequeuedWaiting(S) ==
    [o \in Orders |-> IF o \in S /\ queue[o] = "waiting" THEN "none" ELSE queue[o]]

Dequeued(S) == [o \in Orders |-> IF o \in S THEN "none" ELSE queue[o]]

\* Sets one route's status and brings the run's plan_status in line.
MoveRoute(r, v, s, st) ==
    /\ route' = [route EXCEPT ![r][v][s] = st]
    /\ plan' = [plan EXCEPT ![r] = Synced([route[r] EXCEPT ![v][s] = st])]
    /\ UNCHANGED <<riding, left, active, job>>

ApproveRoute(r, v, s) ==
    LET approved == WithStatus(CarriedBy(r, v), {"planned"}) IN
    /\ plan[r] # "none"
    /\ route[r][v][s] = "proposed"
    /\ status' = SetStatus(approved, "approved")
    /\ queue' = Dequeued(approved)
    /\ busy' = busy \cup {v}
    /\ MoveRoute(r, v, s, "approved")

UnlockRoute(r, v, s) ==
    /\ plan[r] # "none"
    /\ route[r][v][s] = "approved"
    /\ status' = SetStatus(WithStatus(CarriedBy(r, v), {"planned", "approved"}), "new")
    /\ busy' = busy \ {v}
    /\ MoveRoute(r, v, s, "proposed")
    /\ UNCHANGED queue

DepartRoute(r, v, s) ==
    /\ plan[r] # "none"
    /\ route[r][v][s] = "approved"
    /\ MoveRoute(r, v, s, "in_transit")
    /\ UNCHANGED <<status, queue, busy>>

\* Every order of the vehicle that still exists is delivered, whatever its status.
CompleteRoute(r, v, s) ==
    LET delivered == {o \in CarriedBy(r, v) : status[o] # "absent"} IN
    /\ plan[r] # "none"
    /\ route[r][v][s] = "in_transit"
    /\ status' = SetStatus(delivered, "delivered")
    /\ queue' = Dequeued(delivered)
    /\ busy' = busy \ {v}
    /\ MoveRoute(r, v, s, "completed")

-----------------------------------------------------------------------------
(* A whole run. *)

Rows(r) == {x \in Vehicles \X Slots : route[r][x[1]][x[2]] # "none"}

\* Faulty variant: the vehicle of a departed route is not freed.
ApprovedVehiclesOf(r) ==
    {v \in Vehicles : \E s \in Slots : route[r][v][s] = "approved"}

\* The vehicles with a route in the run.
VehiclesOf(r) == {x[1] : x \in Rows(r)}

\* The routes in moved change to status st.
MoveRows(r, moved, st) ==
    [v \in Vehicles |-> [s \in Slots |->
        IF <<v, s>> \in moved THEN st ELSE route[r][v][s]]]

\* build_plan_view decides from weights and dates which routes are worth
\* sending ("send").  All routes of a vehicle that has one worth sending and
\* not approved yet become approved, whatever their status was.
ApprovePlan(r, send) ==
    LET codes == {v \in Vehicles : \E s \in Slots :
                      <<v, s>> \in send /\ route[r][v][s] # "approved"}
        approved == WithStatus({o \in Orders : \E v \in codes : <<o, v>> \in riding[r]},
                               {"planned"})
        moved == {x \in Rows(r) : x[1] \in codes}
        anyHold == \E x \in Rows(r) \ moved : route[r][x[1]][x[2]] \notin Closed
    IN
    /\ plan[r] \in {"draft", "partial"}
    /\ approved # {} \/ send = Rows(r)
    /\ status' = SetStatus(approved, "approved")
    /\ queue' = Dequeued(approved)
    /\ busy' = busy \cup codes
    /\ route' = [route EXCEPT ![r] = MoveRows(r, moved, "approved")]
    /\ plan' = [plan EXCEPT ![r] =
                   IF anyHold THEN Synced(MoveRows(r, moved, "approved")) ELSE "approved"]
    /\ UNCHANGED <<riding, left, active, job>>

\* Returns the orders of every vehicle without a completed route to the pool.
UnlockPlan(r) ==
    LET unlocked == {x \in Rows(r) : route[r][x[1]][x[2]] = "approved"}
        completed == {v \in Vehicles : \E s \in Slots : route[r][v][s] = "completed"}
        reset == WithStatus({o \in Orders : \E v \in Vehicles \ completed :
                                <<o, v>> \in riding[r]},
                            {"planned", "approved"})
    IN
    /\ plan[r] \in {"approved", "partial"}
    /\ unlocked # {}
    /\ status' = SetStatus(reset, "new")
    /\ busy' = busy \ {x[1] : x \in unlocked}
    /\ route' = [route EXCEPT ![r] = MoveRows(r, unlocked, "proposed")]
    /\ plan' = [plan EXCEPT ![r] = Synced(MoveRows(r, unlocked, "proposed"))]
    /\ UNCHANGED <<queue, riding, left, active, job>>

DeletePlan(r) ==
    /\ plan[r] # "none"
    /\ \A x \in Rows(r) : route[r][x[1]][x[2]] # "completed"
    /\ status' = SetStatus(WithStatus(Carried(r), {"planned", "approved"}), "new")
    /\ busy' = busy \ VehiclesOf(r)
    /\ plan' = [plan EXCEPT ![r] = "none"]
    /\ riding' = [riding EXCEPT ![r] = {}]
    /\ left' = [left EXCEPT ![r] = {}]
    /\ route' = [route EXCEPT ![r] = NoRoutes]
    /\ UNCHANGED <<queue, active, job>>

-----------------------------------------------------------------------------
(* Warehouse queue, orders and fleet. *)

Enqueue(o) ==
    /\ status[o] = "new"
    /\ queue[o] = "none"
    /\ queue' = [queue EXCEPT ![o] = "waiting"]
    /\ UNCHANGED <<status, plan, riding, left, route, active, busy, job>>

Dequeue(o) ==
    /\ queue[o] # "none"
    /\ queue' = [queue EXCEPT ![o] = "none"]
    /\ UNCHANGED <<status, plan, riding, left, route, active, busy, job>>

\* No check of the order's status: an order may be held after it was planned.
SetHeld(o, held) ==
    /\ queue[o] # "none"
    /\ queue' = [queue EXCEPT ![o] = IF held THEN "held" ELSE "waiting"]
    /\ UNCHANGED <<status, plan, riding, left, route, active, busy, job>>

\* Accepted buffer proposals are enqueued as held; the others are skipped.
AcceptBuffer(S) ==
    LET accepted == {o \in S : status[o] = "new" /\ queue[o] = "none"} IN
    /\ accepted # {}
    /\ queue' = [o \in Orders |-> IF o \in accepted THEN "held" ELSE queue[o]]
    /\ UNCHANGED <<status, plan, riding, left, route, active, busy, job>>

ImportOrder(o) ==
    /\ IsNextOrder(o)
    /\ status' = [status EXCEPT ![o] = "new"]
    /\ UNCHANGED <<queue, plan, riding, left, route, active, busy, job>>

\* The queue rows go with the orders; the items of runs keep the dead ids.
DeleteOrders(S) ==
    /\ WithStatus(S, OrderStatus \ {"absent"}) # {}
    /\ status' = SetStatus(S, "absent")
    /\ queue' = Dequeued(S)
    /\ UNCHANGED <<plan, riding, left, route, active, busy, job>>

\* The vehicle form writes is_active whether or not the vehicle is busy.
SaveVehicle(v, isActive) ==
    /\ active' = IF isActive THEN active \cup {v} ELSE active \ {v}
    /\ active' # active
    /\ UNCHANGED <<status, queue, plan, riding, left, route, busy, job>>

-----------------------------------------------------------------------------

Init ==
    /\ status = [o \in Orders |-> "absent"]
    /\ queue = [o \in Orders |-> "none"]
    /\ plan = [r \in Runs |-> "none"]
    /\ riding = [r \in Runs |-> {}]
    /\ left = [r \in Runs |-> {}]
    /\ route = [r \in Runs |-> NoRoutes]
    /\ active = Vehicles
    /\ busy = {}
    /\ job = [u \in Users |-> Idle]

Generate ==
    \/ \E u \in Users, t \in Runs \cup {NoRun} : Prepare(u, t)
    \/ \E u \in Users : Persist(u) \/ AbandonGenerate(u)
    \/ CreateEmptyPlan

Dispatch ==
    \/ \E r \in Runs, v \in Vehicles, s \in Slots :
          \/ ApproveRoute(r, v, s)
          \/ UnlockRoute(r, v, s)
          \/ DepartRoute(r, v, s)
          \/ CompleteRoute(r, v, s)
    \/ \E r \in Runs :
          \/ \E send \in SUBSET Rows(r) : ApprovePlan(r, send)
          \/ UnlockPlan(r)
          \/ DeletePlan(r)

Warehouse ==
    \/ \E o \in Orders :
          \/ Enqueue(o)
          \/ Dequeue(o)
          \/ \E held \in BOOLEAN : SetHeld(o, held)
          \/ ImportOrder(o)
    \/ \E S \in SUBSET Orders : AcceptBuffer(S) \/ DeleteOrders(S)
    \/ \E v \in Vehicles, isActive \in BOOLEAN : SaveVehicle(v, isActive)

Next ==
    \/ Generate
    \/ \E t \in Runs \cup {NoRun} : RunPlan(t)
    \/ Dispatch
    \/ Warehouse

Spec == Init /\ [][Next]_vars
-----------------------------------------------------------------------------
(* Properties. *)

TypeOK ==
    /\ status \in [Orders -> OrderStatus]
    /\ queue \in [Orders -> QueueStatus]
    /\ plan \in [Runs -> PlanStatus]
    /\ riding \in [Runs -> SUBSET (Orders \X Vehicles)]
    /\ left \in [Runs -> SUBSET Orders]
    /\ route \in [Runs -> [Vehicles -> [Slots -> RouteStatus]]]
    /\ active \in SUBSET Vehicles
    /\ busy \in SUBSET Vehicles
    /\ job \in [Users -> Request]

\* The plan_status the pages go by never misrepresents the routes: a deleted
\* run has left none behind, a draft holds no route that Generate must keep, a
\* partial run holds one, and an approved run has nothing left to approve.
\* Eight handlers move routes and only some of them call the sync.
PlanStatusSound ==
    \A r \in Runs :
        /\ plan[r] = "none" => Rows(r) = {} /\ riding[r] = {} /\ left[r] = {}
        /\ plan[r] = "draft" => ProtectedIn(route[r]) = {}
        /\ plan[r] = "partial" => ProtectedIn(route[r]) # {}
        /\ plan[r] = "approved" => "proposed" \notin StatusesIn(route[r])

\* No vehicle stays busy for good: while it is busy some run still holds an
\* approved or departed route of it, and unlocking or completing that route
\* (or deleting the run) frees it.
BusyVehicleHasRoute ==
    \A v \in busy : \E r \in Runs, s \in Slots :
        route[r][v][s] \in {"approved", "in_transit"}

\* Approving or completing takes its orders out of the warehouse queue, and
\* only NEW orders enter it, so nothing queued is on its way or delivered.
QueueOnlyUndispatched ==
    \A o \in Orders : queue[o] # "none" => status[o] \in {"new", "planned"}

\* No order is lost between plans.  Generate only picks up NEW orders and the
\* PLANNED ones of its own run, so a PLANNED order that no run carries, or an
\* APPROVED one without an approved route, would never leave the warehouse.
NoOrderStranded ==
    \A o \in Orders :
        /\ status[o] = "planned" => \E r \in Runs : o \in Carried(r)
        /\ status[o] = "approved" =>
              \E r \in Runs : \E v \in ProtectedIn(route[r]) : <<o, v>> \in riding[r]

\* Generating again may replace what is only proposed: whatever the snapshot
\* it was computed from, an approved, departed or completed route and the
\* orders on board stay in their run for as long as the run is there.
ClosedRoutesKept ==
    [][\A r \in Runs : \A v \in ProtectedIn(route[r]) :
        plan'[r] # "none" =>
            /\ \A s \in Slots : route[r][v][s] \in Closed => route'[r][v][s] # "none"
            /\ \A o \in CarriedBy(r, v) : <<o, v>> \in riding'[r]]_vars

(* What also holds when no generation is ever overtaken, because each one is *)
(* planned and saved in one transaction (Users = {}).                        *)

\* A run never holds two routes for one vehicle: the handlers look a route up
\* by its vehicle and would only ever see one of the two.
OneRoutePerVehicle ==
    \A r \in Runs, v \in Vehicles : \A s1, s2 \in Slots :
        route[r][v][s1] # "none" /\ route[r][v][s2] # "none" => s1 = s2

\* A PLANNED order can always move on: it rides a proposed route, so approving
\* that route takes it along and generating that run again picks it up.
PlannedIsOnOffer ==
    \A o \in Orders : status[o] = "planned" =>
        \E r \in Runs, v \in Vehicles, s \in Slots :
            <<o, v>> \in riding[r] /\ route[r][v][s] = "proposed"

\* What has been delivered stays delivered until its order is deleted.
DeliveredIsFinal ==
    [][\A o \in Orders : status[o] = "delivered" =>
        status'[o] \in {"delivered", "absent"}]_vars
=============================================================================
