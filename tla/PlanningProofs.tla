--------------------------- MODULE PlanningProofs ---------------------------
(* What TLAPS proves of Planning, for every fleet, every set of users and    *)
(* any number of orders, runs and routes.                                    *)
EXTENDS Planning, TLAPS

RouteTable == [Vehicles -> [Slots -> RouteStatus]]

-----------------------------------------------------------------------------
(* The helpers. *)

\* A fresh run has an empty route table.
LEMMA NoRoutesType == NoRoutes \in RouteTable
BY DEF NoRoutes, RouteTable, RouteStatus

\* Saving an answer only fills empty slots, and only with proposed routes.
LEMMA AddProposedFills ==
    ASSUME NEW rt \in RouteTable, NEW vs, HasRoom(rt, vs)
    PROVE  /\ AddProposed(rt, vs) \in RouteTable
           /\ \A v \in Vehicles, s \in Slots :
                 AddProposed(rt, vs)[v][s] = rt[v][s]
                 \/ (rt[v][s] = "none" /\ AddProposed(rt, vs)[v][s] = "proposed")
<1> DEFINE free(v) == CHOOSE s \in Slots : rt[v][s] = "none"
<1> SUFFICES ASSUME NEW v \in Vehicles
             PROVE  /\ AddProposed(rt, vs)[v] \in [Slots -> RouteStatus]
                    /\ \A s \in Slots :
                          AddProposed(rt, vs)[v][s] = rt[v][s]
                          \/ (rt[v][s] = "none" /\ AddProposed(rt, vs)[v][s] = "proposed")
    BY DEF AddProposed, RouteTable
<1>1. rt[v] \in [Slots -> RouteStatus]
    BY DEF RouteTable
<1>2. CASE v \notin vs
    BY <1>1, <1>2 DEF AddProposed
<1>3. CASE v \in vs
    <2>1. free(v) \in Slots /\ rt[v][free(v)] = "none"
        BY <1>3 DEF HasRoom
    <2>2. AddProposed(rt, vs)[v] = [rt[v] EXCEPT ![free(v)] = "proposed"]
        BY <1>3 DEF AddProposed
    <2> HIDE DEF free
    <2> QED BY <1>1, <2>1, <2>2 DEF RouteStatus
<1> QED BY <1>2, <1>3

\* The rows generating keeps are a route table.
LEMMA KeptRoutesType ==
    ASSUME TypeOK, NEW r \in Runs
    PROVE  KeptRoutes(r) \in RouteTable
BY DEF KeptRoutes, RouteTable, TypeOK, RouteStatus, Closed

\* The synced plan status is a status, never that of a deleted run.
LEMMA SyncedType ==
    ASSUME NEW rt
    PROVE  Synced(rt) \in PlanStatus \ {"none"}
BY DEF Synced, PlanStatus

\* Moving a route keeps the table a table.
LEMMA MoveRouteType ==
    ASSUME TypeOK, NEW r \in Runs, NEW v \in Vehicles, NEW s \in Slots,
           NEW st \in RouteStatus, MoveRoute(r, v, s, st)
    PROVE  /\ route' \in [Runs -> RouteTable]
           /\ plan' \in [Runs -> PlanStatus]
<1>1. route' \in [Runs -> RouteTable]
    BY DEF MoveRoute, TypeOK, RouteTable
<1>2. plan' \in [Runs -> PlanStatus]
    BY SyncedType DEF MoveRoute, TypeOK
<1> QED BY <1>1, <1>2

LEMMA MoveRowsType ==
    ASSUME TypeOK, NEW r \in Runs, NEW moved, NEW st \in RouteStatus
    PROVE  MoveRows(r, moved, st) \in RouteTable
BY DEF MoveRows, TypeOK, RouteTable

LEMMA SetStatusType ==
    ASSUME TypeOK, NEW S, NEW st \in OrderStatus
    PROVE  SetStatus(S, st) \in [Orders -> OrderStatus]
BY DEF SetStatus, TypeOK

LEMMA DequeuedType ==
    ASSUME TypeOK, NEW S
    PROVE  Dequeued(S) \in [Orders -> QueueStatus]
BY DEF Dequeued, TypeOK, QueueStatus

\* A snapshot read from a well-typed state is a well-formed request.
LEMMA RequestForType ==
    ASSUME TypeOK, NEW t \in Runs \cup {NoRun}
    PROVE  RequestFor(t) \in Request
<1>1. RunForAppend(t) \in Runs \cup {NoRun}
    BY DEF RunForAppend
<1>2. FleetForSolver(RunForAppend(t)) \in SUBSET Vehicles
    BY DEF FleetForSolver, TypeOK
<1>3. PlannedOnRun(RunForAppend(t)) \in SUBSET Orders
    BY <1>1 DEF PlannedOnRun, WithStatus, Carried, CarriedBy, TypeOK
<1>4. WithStatus(Orders, {"new"}) \in SUBSET Orders
    BY DEF WithStatus
<1> QED BY <1>1, <1>2, <1>3, <1>4 DEF RequestFor, Request

\* Writing an answer to a well-formed request keeps the database well typed.
LEMMA SaveType ==
    ASSUME TypeOK, NEW req \in Request, NEW ans \in Answers(req), Save(req, ans)
    PROVE  /\ status' \in [Orders -> OrderStatus]
           /\ plan' \in [Runs -> PlanStatus]
           /\ riding' \in [Runs -> SUBSET (Orders \X Vehicles)]
           /\ left' \in [Runs -> SUBSET Orders]
           /\ route' \in [Runs -> RouteTable]
           /\ UNCHANGED <<queue, active, busy>>
<1>1. Placed(ans) \in SUBSET Orders /\ Unplaced(ans) \in SUBSET Orders
    BY DEF Placed, Unplaced, Answers, Request
<1>2. Items(ans) \in SUBSET (Orders \X Vehicles)
    BY <1>1 DEF Items, Placed, Answers, Request
<1>3. \A reset : StatusAfterSave(reset, ans) \in [Orders -> OrderStatus]
    BY DEF StatusAfterSave, OrderStatus, TypeOK
<1>4. CASE req.target = NoRun
    <2>1. PICK r \in Runs :
            /\ HasRoom(NoRoutes, UsedBy(ans))
            /\ plan' = [plan EXCEPT ![r] = "draft"]
            /\ riding' = [riding EXCEPT ![r] = Items(ans)]
            /\ left' = [left EXCEPT ![r] = Unplaced(ans)]
            /\ route' = [route EXCEPT ![r] = AddProposed(NoRoutes, UsedBy(ans))]
            /\ status' = StatusAfterSave({}, ans)
            /\ UNCHANGED <<queue, active, busy>>
        BY <1>4 DEF Save, SaveNew
    <2>2. AddProposed(NoRoutes, UsedBy(ans)) \in RouteTable
        BY <2>1, NoRoutesType, AddProposedFills
    <2>3. plan' \in [Runs -> PlanStatus]
        BY <2>1 DEF TypeOK, PlanStatus
    <2>4. riding' \in [Runs -> SUBSET (Orders \X Vehicles)] /\ left' \in [Runs -> SUBSET Orders]
        BY <2>1, <1>1, <1>2 DEF TypeOK
    <2>5. route' \in [Runs -> RouteTable]
        BY <2>1, <2>2 DEF TypeOK, RouteTable
    <2> QED BY <1>3, <2>1, <2>3, <2>4, <2>5
<1>5. CASE req.target # NoRun
    <2> DEFINE r == req.target
    <2>1. r \in Runs /\ SaveInto(r, ans)
        BY <1>5 DEF Save, Request
    <2>2. AddProposed(KeptRoutes(r), UsedBy(ans)) \in RouteTable
        BY <2>1, KeptRoutesType, AddProposedFills DEF SaveInto
    <2>3. KeptItems(r) \in SUBSET (Orders \X Vehicles)
        BY <2>1 DEF KeptItems, TypeOK
    <2>4. riding' \in [Runs -> SUBSET (Orders \X Vehicles)] /\ left' \in [Runs -> SUBSET Orders]
        BY <2>1, <2>3, <1>1, <1>2 DEF SaveInto, TypeOK
    <2>5. route' \in [Runs -> RouteTable]
        BY <2>1, <2>2 DEF SaveInto, TypeOK, RouteTable
    <2>6. plan' \in [Runs -> PlanStatus]
        BY <2>1 DEF SaveInto, TypeOK
    <2> QED BY <1>3, <2>1, <2>4, <2>5, <2>6 DEF SaveInto
<1> QED BY <1>4, <1>5

-----------------------------------------------------------------------------
(* Type correctness. *)

\* Every step of the program keeps every table well typed.
THEOREM TypeStep == TypeOK /\ [Next]_vars => TypeOK'
<1> SUFFICES ASSUME TypeOK, [Next]_vars
             PROVE  TypeOK'
    OBVIOUS
<1> USE DEF RouteTable
<1>1. CASE UNCHANGED vars
    BY <1>1 DEF TypeOK, vars
<1>2. ASSUME NEW u \in Users, NEW t \in Runs \cup {NoRun}, Prepare(u, t)
      PROVE  TypeOK'
    BY <1>2, RequestForType DEF Prepare, TypeOK
<1>3. ASSUME NEW u \in Users, Persist(u)
      PROVE  TypeOK'
    <2>1. Idle \in Request
        BY DEF Idle, Request
    <2>2. job[u] \in Request
        BY <1>3 DEF TypeOK
    <2>3. PICK ans \in Answers(job[u]) : Save(job[u], ans)
        BY <1>3 DEF Persist
    <2>4. job' \in [Users -> Request]
        BY <1>3, <2>1 DEF Persist, TypeOK
    <2> QED BY <2>2, <2>3, <2>4, SaveType DEF TypeOK
<1>4. ASSUME NEW u \in Users, AbandonGenerate(u)
      PROVE  TypeOK'
    <2>1. Idle \in Request
        BY DEF Idle, Request
    <2> QED BY <1>4, <2>1 DEF AbandonGenerate, TypeOK
<1>5. CASE CreateEmptyPlan
    BY <1>5 DEF CreateEmptyPlan, TypeOK, PlanStatus
<1>6. ASSUME NEW t \in Runs \cup {NoRun}, RunPlan(t)
      PROVE  TypeOK'
    <2>1. PICK ans \in Answers(RequestFor(t)) : Save(RequestFor(t), ans)
        BY <1>6 DEF RunPlan
    <2> QED BY <1>6, <2>1, RequestForType, SaveType DEF RunPlan, TypeOK
<1>7. ASSUME NEW r \in Runs, NEW v \in Vehicles, NEW s \in Slots,
             \/ ApproveRoute(r, v, s) \/ UnlockRoute(r, v, s)
             \/ DepartRoute(r, v, s) \/ CompleteRoute(r, v, s)
      PROVE  TypeOK'
    <2> USE DEF RouteStatus, Closed, OrderStatus
    <2>1. CASE ApproveRoute(r, v, s)
        BY <2>1, MoveRouteType, SetStatusType, DequeuedType DEF ApproveRoute, MoveRoute, TypeOK
    <2>2. CASE UnlockRoute(r, v, s)
        BY <2>2, MoveRouteType, SetStatusType DEF UnlockRoute, MoveRoute, TypeOK
    <2>3. CASE DepartRoute(r, v, s)
        BY <2>3, MoveRouteType DEF DepartRoute, MoveRoute, TypeOK
    <2>4. CASE CompleteRoute(r, v, s)
        BY <2>4, MoveRouteType, SetStatusType, DequeuedType DEF CompleteRoute, MoveRoute, TypeOK
    <2> QED BY <1>7, <2>1, <2>2, <2>3, <2>4
<1>8. ASSUME NEW r \in Runs, NEW send \in SUBSET Rows(r), ApprovePlan(r, send)
      PROVE  TypeOK'
    <2>1. "approved" \in RouteStatus /\ "approved" \in OrderStatus /\ "approved" \in PlanStatus
        BY DEF RouteStatus, Closed, OrderStatus, PlanStatus
    <2>2. route' \in [Runs -> RouteTable]
        BY <1>8, <2>1, MoveRowsType DEF ApprovePlan, TypeOK
    <2>3. plan' \in [Runs -> PlanStatus]
        BY <1>8, <2>1, SyncedType DEF ApprovePlan, TypeOK
    <2>4. status' \in [Orders -> OrderStatus] /\ queue' \in [Orders -> QueueStatus]
        BY <1>8, <2>1, SetStatusType, DequeuedType DEF ApprovePlan
    <2>5. busy' \in SUBSET Vehicles
        BY <1>8 DEF ApprovePlan, TypeOK
    <2> QED BY <1>8, <2>2, <2>3, <2>4, <2>5 DEF ApprovePlan, TypeOK
<1>9. ASSUME NEW r \in Runs, UnlockPlan(r)
      PROVE  TypeOK'
    <2>1. "proposed" \in RouteStatus /\ "new" \in OrderStatus
        BY DEF RouteStatus, OrderStatus
    <2>2. route' \in [Runs -> RouteTable] /\ plan' \in [Runs -> PlanStatus]
        BY <1>9, <2>1, MoveRowsType, SyncedType DEF UnlockPlan, TypeOK
    <2>3. status' \in [Orders -> OrderStatus]
        BY <1>9, <2>1, SetStatusType DEF UnlockPlan
    <2> QED BY <1>9, <2>2, <2>3 DEF UnlockPlan, TypeOK
<1>10. ASSUME NEW r \in Runs, DeletePlan(r)
       PROVE  TypeOK'
    <2>1. "none" \in PlanStatus /\ "new" \in OrderStatus
        BY DEF PlanStatus, OrderStatus
    <2>2. status' \in [Orders -> OrderStatus]
        BY <1>10, <2>1, SetStatusType DEF DeletePlan
    <2>3. route' \in [Runs -> RouteTable]
        BY <1>10, NoRoutesType DEF DeletePlan, TypeOK
    <2> QED BY <1>10, <2>1, <2>2, <2>3 DEF DeletePlan, TypeOK
<1>11. ASSUME Warehouse
       PROVE  TypeOK'
    <2> USE DEF QueueStatus, OrderStatus
    <2>1. ASSUME NEW o \in Orders,
                 \/ Enqueue(o) \/ Dequeue(o) \/ ImportOrder(o)
                 \/ \E held \in BOOLEAN : SetHeld(o, held)
          PROVE  TypeOK'
        BY <2>1 DEF Enqueue, Dequeue, ImportOrder, SetHeld, TypeOK
    <2>2. ASSUME NEW S \in SUBSET Orders, AcceptBuffer(S)
          PROVE  TypeOK'
        BY <2>2 DEF AcceptBuffer, TypeOK
    <2>3. ASSUME NEW S \in SUBSET Orders, DeleteOrders(S)
          PROVE  TypeOK'
        BY <2>3, SetStatusType, DequeuedType DEF DeleteOrders, TypeOK
    <2>4. ASSUME NEW v \in Vehicles, NEW isActive \in BOOLEAN, SaveVehicle(v, isActive)
          PROVE  TypeOK'
        BY <2>4 DEF SaveVehicle, TypeOK
    <2> QED BY <1>11, <2>1, <2>2, <2>3, <2>4 DEF Warehouse
<1> QED BY <1>1, <1>2, <1>3, <1>4, <1>5, <1>6, <1>7, <1>8, <1>9, <1>10, <1>11
        DEF Next, Generate, Dispatch

\* Every reachable state is well typed.
THEOREM TypeCorrect == Spec => []TypeOK
<1>1. Init => TypeOK
    BY NoRoutesType DEF Init, TypeOK, RouteTable, OrderStatus, QueueStatus, PlanStatus,
                        Idle, Request
<1> QED BY <1>1, TypeStep, PTL DEF Spec

-----------------------------------------------------------------------------
(* The safety invariants, proved inductive on top of the types. *)

\* A run is protected exactly when one of its routes has a closed status.
LEMMA ProtectedIffClosed ==
    ASSUME NEW rt \in RouteTable
    PROVE  ProtectedIn(rt) = {} <=> StatusesIn(rt) \cap Closed = {}
BY DEF ProtectedIn, StatusesIn, Closed, RouteStatus, RouteTable

\* The synced plan status says of the routes what PlanStatusSound asks.
LEMMA SyncedSound ==
    ASSUME NEW rt \in RouteTable
    PROVE  /\ Synced(rt) = "draft" => ProtectedIn(rt) = {}
           /\ Synced(rt) = "partial" => ProtectedIn(rt) # {}
           /\ Synced(rt) = "approved" => "proposed" \notin StatusesIn(rt)
           /\ Synced(rt) # "none"
<1>1. "proposed" \notin Closed
    BY DEF Closed
<1> QED BY <1>1, ProtectedIffClosed DEF Synced

\* The rows of a run are the slots that are not empty.
LEMMA RowIff ==
    ASSUME NEW r, NEW v \in Vehicles, NEW s \in Slots
    PROVE  <<v, s>> \in Rows(r) <=> route[r][v][s] # "none"
<1>1. <<v, s>>[1] = v /\ <<v, s>>[2] = s /\ <<v, s>> \in Vehicles \X Slots
    OBVIOUS
<1> QED BY <1>1 DEF Rows

\* What PlanStatusSound says of one run.
Sound(q) ==
    /\ plan[q] = "none" => Rows(q) = {} /\ riding[q] = {} /\ left[q] = {}
    /\ plan[q] = "draft" => ProtectedIn(route[q]) = {}
    /\ plan[q] = "partial" => ProtectedIn(route[q]) # {}
    /\ plan[q] = "approved" => "proposed" \notin StatusesIn(route[q])

\* A run whose rows, items and status a step leaves alone stays sound.
LEMMA SoundFrame ==
    ASSUME NEW q \in Runs, Sound(q), plan'[q] = plan[q], riding'[q] = riding[q],
           left'[q] = left[q], route'[q] = route[q]
    PROVE  Sound(q)'
BY DEF Sound, Rows

\* Into the routes generating keeps, an answer only adds proposed ones.
LEMMA AddedToKept ==
    ASSUME TypeOK, NEW r \in Runs, NEW vs, HasRoom(KeptRoutes(r), vs),
           NEW v \in Vehicles, NEW s \in Slots
    PROVE  /\ route[r][v][s] \in Closed =>
                AddProposed(KeptRoutes(r), vs)[v][s] = route[r][v][s]
           /\ route[r][v][s] \notin Closed =>
                AddProposed(KeptRoutes(r), vs)[v][s] \in {"none", "proposed"}
<1>1. KeptRoutes(r)[v][s] = IF route[r][v][s] \in Closed THEN route[r][v][s] ELSE "none"
    BY DEF KeptRoutes
<1>2. \/ AddProposed(KeptRoutes(r), vs)[v][s] = KeptRoutes(r)[v][s]
      \/ (KeptRoutes(r)[v][s] = "none" /\ AddProposed(KeptRoutes(r), vs)[v][s] = "proposed")
    BY KeptRoutesType, AddProposedFills
<1>3. "none" \notin Closed
    BY DEF Closed
<1> QED BY <1>1, <1>2, <1>3

\* Saving an answer concerns one run.  What generating keeps of it stays, its
\* other routes are replaced by proposed ones, and a new run is a draft that
\* had nothing to keep.
Saved(r, ans) ==
    /\ plan[r] \in {"none", "draft", "partial"}
    /\ plan' = [plan EXCEPT ![r] = IF plan[r] = "none" THEN "draft" ELSE plan[r]]
    /\ riding' = [riding EXCEPT ![r] = KeptItems(r) \cup Items(ans)]
    /\ left' = [left EXCEPT ![r] = Unplaced(ans)]
    /\ HasRoom(KeptRoutes(r), UsedBy(ans))
    /\ route' = [route EXCEPT ![r] = AddProposed(KeptRoutes(r), UsedBy(ans))]
    /\ status' = StatusAfterSave(ResetOnSave(r), ans)
    /\ UNCHANGED <<queue, active, busy>>

LEMMA SaveEffect ==
    ASSUME TypeOK, PlanStatusSound, NEW req \in Request, NEW ans \in Answers(req),
           Save(req, ans)
    PROVE  \E r \in Runs : Saved(r, ans) /\ (req.target = r \/ plan[r] = "none")
<1>1. CASE req.target = NoRun
    <2>1. PICK r \in Runs :
            /\ IsNextRun(r)
            /\ HasRoom(NoRoutes, UsedBy(ans))
            /\ plan' = [plan EXCEPT ![r] = "draft"]
            /\ riding' = [riding EXCEPT ![r] = Items(ans)]
            /\ left' = [left EXCEPT ![r] = Unplaced(ans)]
            /\ route' = [route EXCEPT ![r] = AddProposed(NoRoutes, UsedBy(ans))]
            /\ status' = StatusAfterSave({}, ans)
            /\ UNCHANGED <<queue, active, busy>>
        BY <1>1 DEF Save, SaveNew
    <2>2. plan[r] = "none"
        BY <2>1 DEF IsNextRun, Runs
    <2>3. Rows(r) = {} /\ riding[r] = {} /\ left[r] = {}
        BY <2>2 DEF PlanStatusSound
    <2>4. \A v \in Vehicles, s \in Slots : route[r][v][s] = "none"
        BY <2>3, RowIff
    <2>5. KeptRoutes(r) = NoRoutes
        BY <2>4 DEF KeptRoutes, NoRoutes, Closed
    <2>6. KeptItems(r) = {}
        BY <2>3 DEF KeptItems
    <2>7. ResetOnSave(r) = {}
        BY <2>2, <2>3, <2>6 DEF ResetOnSave, WithStatus
    <2>8. KeptItems(r) \cup Items(ans) = Items(ans)
        BY <2>6
    <2> QED BY <2>1, <2>2, <2>5, <2>7, <2>8 DEF Saved
<1>2. CASE req.target # NoRun
    <2> DEFINE r == req.target
    <2>1. r \in Runs /\ SaveInto(r, ans)
        BY <1>2 DEF Save, Request
    <2>2. plan' = [plan EXCEPT ![r] = IF plan[r] = "none" THEN "draft" ELSE plan[r]]
        BY <2>1 DEF SaveInto, TypeOK
    <2> QED BY <2>1, <2>2 DEF SaveInto, Saved
<1> QED BY <1>1, <1>2

\* The run that is saved into keeps its closed routes and gains only proposed
\* ones, so it protects the same vehicles as before; the others are untouched.
LEMMA SavedRoutes ==
    ASSUME TypeOK, NEW r \in Runs, NEW ans, Saved(r, ans)
    PROVE  /\ route' \in [Runs -> RouteTable]
           /\ \A q \in Runs \ {r} : route'[q] = route[q]
           /\ \A v \in Vehicles, s \in Slots :
                 /\ route[r][v][s] \in Closed => route'[r][v][s] = route[r][v][s]
                 /\ route[r][v][s] \notin Closed => route'[r][v][s] \in {"none", "proposed"}
           /\ ProtectedIn(route'[r]) = ProtectedIn(route[r])
<1>1. AddProposed(KeptRoutes(r), UsedBy(ans)) \in RouteTable
    BY KeptRoutesType, AddProposedFills DEF Saved
<1>2. route'[r] = AddProposed(KeptRoutes(r), UsedBy(ans))
    BY DEF Saved, TypeOK
<1>3. \A v \in Vehicles, s \in Slots :
        /\ route[r][v][s] \in Closed => route'[r][v][s] = route[r][v][s]
        /\ route[r][v][s] \notin Closed => route'[r][v][s] \in {"none", "proposed"}
    BY <1>2, AddedToKept DEF Saved
<1>4. ProtectedIn(route'[r]) = ProtectedIn(route[r])
    BY <1>3 DEF ProtectedIn, Closed
<1>5. route' \in [Runs -> RouteTable] /\ \A q \in Runs \ {r} : route'[q] = route[q]
    BY <1>1 DEF Saved, TypeOK, RouteTable
<1> QED BY <1>3, <1>4, <1>5

-----------------------------------------------------------------------------
(* PlanStatusSound. *)

LEMMA SoundSaved ==
    ASSUME TypeOK, PlanStatusSound, NEW r \in Runs, NEW ans, Saved(r, ans)
    PROVE  PlanStatusSound'
<1> SUFFICES ASSUME NEW q \in Runs
             PROVE  Sound(q)'
    BY DEF Sound, PlanStatusSound
<1>1. Sound(q)
    BY DEF Sound, PlanStatusSound
<1>2. CASE q # r
    <2>1. plan'[q] = plan[q] /\ riding'[q] = riding[q] /\ left'[q] = left[q]
        BY <1>2 DEF Saved, TypeOK
    <2>2. route'[q] = route[q]
        BY <1>2, SavedRoutes
    <2> QED BY <1>1, <2>1, <2>2, SoundFrame
<1>3. CASE q = r
    <2>1. plan'[r] = IF plan[r] = "none" THEN "draft" ELSE plan[r]
        BY DEF Saved, TypeOK
    <2>2. ProtectedIn(route[r])' = ProtectedIn(route[r])
        BY SavedRoutes DEF ProtectedIn
    <2>3. plan[r] = "none" => ProtectedIn(route[r]) = {}
        BY <1>1, <1>3, RowIff DEF Sound, ProtectedIn, Closed
    <2>4. plan[r] \in {"none", "draft", "partial"}
        BY DEF Saved
    <2> QED BY <1>1, <1>3, <2>1, <2>2, <2>3, <2>4 DEF Sound
<1> QED BY <1>2, <1>3

LEMMA SoundMoved ==
    ASSUME TypeOK, PlanStatusSound, NEW r \in Runs, plan[r] # "none",
           NEW rt \in RouteTable,
           route' = [route EXCEPT ![r] = rt],
           \/ plan' = [plan EXCEPT ![r] = Synced(rt)]
           \/ plan' = [plan EXCEPT ![r] = "approved"] /\ "proposed" \notin StatusesIn(rt),
           UNCHANGED <<riding, left>>
    PROVE  PlanStatusSound'
<1> SUFFICES ASSUME NEW q \in Runs
             PROVE  Sound(q)'
    BY DEF Sound, PlanStatusSound
<1>1. Sound(q)
    BY DEF Sound, PlanStatusSound
<1>2. CASE q # r
    <2>1. plan'[q] = plan[q] /\ riding'[q] = riding[q] /\ left'[q] = left[q] /\ route'[q] = route[q]
        BY <1>2 DEF TypeOK
    <2> QED BY <1>1, <2>1, SoundFrame
<1>3. CASE q = r
    <2>1. route'[r] = rt
        BY DEF TypeOK
    <2>2. plan'[r] = Synced(rt) \/ (plan'[r] = "approved" /\ "proposed" \notin StatusesIn(rt))
        BY DEF TypeOK
    <2>3. ProtectedIn(route[r])' = ProtectedIn(rt) /\ StatusesIn(route[r])' = StatusesIn(rt)
        BY <2>1 DEF ProtectedIn, StatusesIn
    <2> QED BY <1>3, <2>2, <2>3, SyncedSound DEF Sound
<1> QED BY <1>2, <1>3

\* A handler that changes one route's status puts one new table in its run.
LEMMA MoveRouteTable ==
    ASSUME TypeOK, NEW r \in Runs, NEW v \in Vehicles, NEW s \in Slots,
           NEW st \in RouteStatus, MoveRoute(r, v, s, st)
    PROVE  \E rt \in RouteTable :
              /\ rt = [route[r] EXCEPT ![v][s] = st]
              /\ route' = [route EXCEPT ![r] = rt]
              /\ plan' = [plan EXCEPT ![r] = Synced(rt)]
<1> DEFINE rt == [route[r] EXCEPT ![v][s] = st]
<1>1. rt \in RouteTable
    BY DEF TypeOK, RouteTable
<1>2. route' = [route EXCEPT ![r] = rt]
    BY DEF MoveRoute, TypeOK
<1>3. plan' = [plan EXCEPT ![r] = Synced(rt)]
    BY DEF MoveRoute
<1> QED BY <1>1, <1>2, <1>3

\* When the whole plan is approved and no route is left waiting, none is
\* proposed any more.
LEMMA ApprovedAllSent ==
    ASSUME TypeOK, NEW r \in Runs, NEW moved,
           ~ \E x \in Rows(r) \ moved : route[r][x[1]][x[2]] \notin Closed
    PROVE  "proposed" \notin StatusesIn(MoveRows(r, moved, "approved"))
<1> SUFFICES ASSUME NEW v \in Vehicles, NEW s \in Slots,
                    MoveRows(r, moved, "approved")[v][s] = "proposed"
             PROVE  FALSE
    BY DEF StatusesIn
<1>1. <<v, s>> \notin moved /\ route[r][v][s] = "proposed"
    BY DEF MoveRows
<1>2. <<v, s>> \in Rows(r) \ moved
    BY <1>1, RowIff
<1>3. <<v, s>>[1] = v /\ <<v, s>>[2] = s
    OBVIOUS
<1>4. "proposed" \notin Closed
    BY DEF Closed
<1> QED BY <1>1, <1>2, <1>3, <1>4

\* Whatever a page does, the plan status keeps describing the routes.
THEOREM PlanStatusStep == TypeOK /\ PlanStatusSound /\ [Next]_vars => PlanStatusSound'
<1> SUFFICES ASSUME TypeOK, PlanStatusSound, [Next]_vars
             PROVE  PlanStatusSound'
    OBVIOUS
<1>1. ASSUME UNCHANGED <<plan, riding, left, route>>
      PROVE  PlanStatusSound'
    BY <1>1 DEF PlanStatusSound, Rows
<1>2. ASSUME NEW req \in Request, NEW ans \in Answers(req), Save(req, ans)
      PROVE  PlanStatusSound'
    BY <1>2, SaveEffect, SoundSaved
<1>3. ASSUME NEW u \in Users, Persist(u)
      PROVE  PlanStatusSound'
    BY <1>2, <1>3 DEF Persist, TypeOK
<1>4. ASSUME NEW t \in Runs \cup {NoRun}, RunPlan(t)
      PROVE  PlanStatusSound'
    BY <1>2, <1>4, RequestForType DEF RunPlan
<1>5. CASE CreateEmptyPlan
    <2>1. PICK r \in Runs :
            /\ IsNextRun(r)
            /\ plan' = [plan EXCEPT ![r] = "draft"]
            /\ UNCHANGED <<riding, left, route>>
        BY <1>5 DEF CreateEmptyPlan
    <2>2. Rows(r) = {}
        BY <2>1 DEF IsNextRun, Runs, PlanStatusSound
    <2>3. ProtectedIn(route[r]) = {}
        BY <2>2, RowIff DEF ProtectedIn, Closed
    <2> SUFFICES ASSUME NEW q \in Runs
                 PROVE  Sound(q)'
        BY DEF Sound, PlanStatusSound
    <2>4. CASE q = r
        BY <2>1, <2>3, <2>4 DEF Sound, ProtectedIn, TypeOK
    <2>5. CASE q # r
        <3>1. plan'[q] = plan[q]
            BY <2>1, <2>5 DEF TypeOK
        <3> QED BY <2>1, <3>1, SoundFrame DEF Sound, PlanStatusSound
    <2> QED BY <2>4, <2>5
<1>6. ASSUME NEW r \in Runs, NEW v \in Vehicles, NEW s \in Slots,
             \/ ApproveRoute(r, v, s) \/ UnlockRoute(r, v, s)
             \/ DepartRoute(r, v, s) \/ CompleteRoute(r, v, s)
      PROVE  PlanStatusSound'
    <2>1. PICK st \in RouteStatus : MoveRoute(r, v, s, st)
        BY <1>6 DEF ApproveRoute, UnlockRoute, DepartRoute, CompleteRoute, RouteStatus, Closed
    <2>2. plan[r] # "none"
        BY <1>6 DEF ApproveRoute, UnlockRoute, DepartRoute, CompleteRoute
    <2>3. UNCHANGED <<riding, left>>
        BY <2>1 DEF MoveRoute
    <2> QED BY <2>1, <2>2, <2>3, MoveRouteTable, SoundMoved
<1>7. ASSUME NEW r \in Runs, NEW send \in SUBSET Rows(r), ApprovePlan(r, send)
      PROVE  PlanStatusSound'
    <2>1. PICK moved :
            /\ route' = [route EXCEPT ![r] = MoveRows(r, moved, "approved")]
            /\ plan' = [plan EXCEPT ![r] =
                  IF \E x \in Rows(r) \ moved : route[r][x[1]][x[2]] \notin Closed
                  THEN Synced(MoveRows(r, moved, "approved")) ELSE "approved"]
        BY <1>7 DEF ApprovePlan
    <2>2. MoveRows(r, moved, "approved") \in RouteTable
        BY MoveRowsType DEF RouteStatus, Closed
    <2>3. plan[r] # "none" /\ UNCHANGED <<riding, left>>
        BY <1>7 DEF ApprovePlan
    <2>4. CASE \E x \in Rows(r) \ moved : route[r][x[1]][x[2]] \notin Closed
        BY <2>1, <2>2, <2>3, <2>4, SoundMoved
    <2>5. CASE ~ \E x \in Rows(r) \ moved : route[r][x[1]][x[2]] \notin Closed
        BY <2>1, <2>2, <2>3, <2>5, ApprovedAllSent, SoundMoved
    <2> QED BY <2>4, <2>5
<1>8. ASSUME NEW r \in Runs, UnlockPlan(r)
      PROVE  PlanStatusSound'
    <2>1. PICK moved :
            /\ route' = [route EXCEPT ![r] = MoveRows(r, moved, "proposed")]
            /\ plan' = [plan EXCEPT ![r] = Synced(MoveRows(r, moved, "proposed"))]
        BY <1>8 DEF UnlockPlan
    <2>2. MoveRows(r, moved, "proposed") \in RouteTable
        BY MoveRowsType DEF RouteStatus
    <2>3. plan[r] # "none" /\ UNCHANGED <<riding, left>>
        BY <1>8 DEF UnlockPlan
    <2> QED BY <2>1, <2>2, <2>3, SoundMoved
<1>9. ASSUME NEW r \in Runs, DeletePlan(r)
      PROVE  PlanStatusSound'
    <2> SUFFICES ASSUME NEW q \in Runs
                 PROVE  Sound(q)'
        BY DEF Sound, PlanStatusSound
    <2>1. CASE q = r
        <3>1. plan'[r] = "none" /\ riding'[r] = {} /\ left'[r] = {} /\ route'[r] = NoRoutes
            BY <1>9 DEF DeletePlan, TypeOK
        <3>2. Rows(r)' = {}
            BY <3>1 DEF Rows, NoRoutes
        <3> QED BY <2>1, <3>1, <3>2 DEF Sound
    <2>2. CASE q # r
        <3>1. plan'[q] = plan[q] /\ riding'[q] = riding[q] /\ left'[q] = left[q] /\ route'[q] = route[q]
            BY <1>9, <2>2 DEF DeletePlan, TypeOK
        <3> QED BY <3>1, SoundFrame DEF Sound, PlanStatusSound
    <2> QED BY <2>1, <2>2
<1>10. CASE Warehouse
    BY <1>1, <1>10 DEF Warehouse, Enqueue, Dequeue, SetHeld, ImportOrder, AcceptBuffer,
                       DeleteOrders, SaveVehicle
<1>11. CASE UNCHANGED vars
    BY <1>1, <1>11 DEF vars
<1>12. CASE Generate
    BY <1>1, <1>3, <1>5, <1>12 DEF Generate, Prepare, AbandonGenerate
<1> QED BY <1>4, <1>6, <1>7, <1>8, <1>9, <1>10, <1>11, <1>12 DEF Next, Dispatch

\* The plan status describes the routes in every reachable state.
THEOREM PlanStatusAlwaysSound == Spec => []PlanStatusSound
<1>1. Init => PlanStatusSound
    <2> SUFFICES ASSUME Init
                 PROVE  PlanStatusSound
        OBVIOUS
    <2>1. \A r \in Runs : Rows(r) = {}
        BY DEF Init, Rows, NoRoutes
    <2> QED BY <2>1 DEF Init, PlanStatusSound
<1> QED BY <1>1, PlanStatusStep, TypeCorrect, PTL DEF Spec

-----------------------------------------------------------------------------
(* BusyVehicleHasRoute. *)

\* A vehicle keeps what makes it busy unless a step frees it.
LEMMA BusyFrame ==
    ASSUME BusyVehicleHasRoute, NEW v \in busy,
           \A r \in Runs, s \in Slots :
              route[r][v][s] \in {"approved", "in_transit"} =>
                 route'[r][v][s] \in {"approved", "in_transit"}
    PROVE  \E r \in Runs, s \in Slots : route'[r][v][s] \in {"approved", "in_transit"}
BY DEF BusyVehicleHasRoute

\* Every step that frees a vehicle's last route also frees the vehicle.
THEOREM BusyStep ==
    TypeOK /\ PlanStatusSound /\ BusyVehicleHasRoute /\ [Next]_vars => BusyVehicleHasRoute'
<1> SUFFICES ASSUME TypeOK, PlanStatusSound, BusyVehicleHasRoute, [Next]_vars,
                    NEW w \in busy'
             PROVE  \E q \in Runs, t \in Slots : route'[q][w][t] \in {"approved", "in_transit"}
    BY DEF BusyVehicleHasRoute
<1> DEFINE HasRoute == \E q \in Runs, t \in Slots : route'[q][w][t] \in {"approved", "in_transit"}
<1>0. w \in Vehicles
    BY TypeStep DEF TypeOK
<1>1. ASSUME UNCHANGED <<route, busy>>
      PROVE  HasRoute
    BY <1>1, BusyFrame
<1>2. ASSUME NEW req \in Request, NEW ans \in Answers(req), Save(req, ans)
      PROVE  HasRoute
    <2>1. PICK r \in Runs : Saved(r, ans)
        BY <1>2, SaveEffect
    <2>2. w \in busy
        BY <2>1 DEF Saved
    <2>3. ASSUME NEW q \in Runs, NEW t \in Slots, route[q][w][t] \in {"approved", "in_transit"}
          PROVE  route'[q][w][t] \in {"approved", "in_transit"}
        BY <1>0, <2>1, <2>3, SavedRoutes DEF Closed
    <2> QED BY <2>2, <2>3, BusyFrame
<1>3. ASSUME NEW u \in Users, Persist(u)
      PROVE  HasRoute
    BY <1>2, <1>3 DEF Persist, TypeOK
<1>4. ASSUME NEW t \in Runs \cup {NoRun}, RunPlan(t)
      PROVE  HasRoute
    BY <1>2, <1>4, RequestForType DEF RunPlan
<1>5. ASSUME NEW r \in Runs, NEW v \in Vehicles, NEW s \in Slots,
             \/ ApproveRoute(r, v, s) \/ DepartRoute(r, v, s)
      PROVE  HasRoute
    <2>1. PICK st \in {"approved", "in_transit"} : route' = [route EXCEPT ![r][v][s] = st]
        BY <1>5 DEF ApproveRoute, DepartRoute, MoveRoute
    <2>2. w \in busy \cup {v}
        BY <1>5 DEF ApproveRoute, DepartRoute
    <2>3. route'[r][v][s] \in {"approved", "in_transit"}
        BY <2>1 DEF TypeOK
    <2>4. ASSUME NEW q \in Runs, NEW t \in Slots, route[q][w][t] \in {"approved", "in_transit"}
          PROVE  route'[q][w][t] \in {"approved", "in_transit"}
        BY <1>0, <2>1, <2>4 DEF TypeOK
    <2> QED BY <2>2, <2>3, <2>4, BusyFrame
<1>6. ASSUME NEW r \in Runs, NEW v \in Vehicles, NEW s \in Slots,
             \/ UnlockRoute(r, v, s) \/ CompleteRoute(r, v, s)
      PROVE  HasRoute
    <2>1. PICK st : route' = [route EXCEPT ![r][v][s] = st]
        BY <1>6 DEF UnlockRoute, CompleteRoute, MoveRoute
    <2>2. w \in busy /\ w # v
        BY <1>6 DEF UnlockRoute, CompleteRoute
    <2>3. \A q \in Runs, t \in Slots : route'[q][w][t] = route[q][w][t]
        BY <1>0, <2>1, <2>2 DEF TypeOK
    <2> QED BY <2>2, <2>3, BusyFrame
<1>7. ASSUME NEW r \in Runs, NEW send \in SUBSET Rows(r), ApprovePlan(r, send)
      PROVE  HasRoute
    <2> DEFINE codes == {v \in Vehicles : \E s \in Slots :
                            <<v, s>> \in send /\ route[r][v][s] # "approved"}
               moved == {x \in Rows(r) : x[1] \in codes}
    <2>1. route' = [route EXCEPT ![r] = MoveRows(r, moved, "approved")] /\ busy' = busy \cup codes
        BY <1>7 DEF ApprovePlan
    <2>2. \A q \in Runs, t \in Slots :
            route'[q][w][t] = IF q = r /\ <<w, t>> \in moved THEN "approved" ELSE route[q][w][t]
        BY <1>0, <2>1 DEF TypeOK, MoveRows
    <2>3. CASE w \in busy
        <3>1. \A q \in Runs, t \in Slots :
                route'[q][w][t] = "approved" \/ route'[q][w][t] = route[q][w][t]
            BY <2>2
        <3> QED BY <2>3, <3>1, BusyFrame
    <2>4. CASE w \in codes
        <3>1. PICK t \in Slots : <<w, t>> \in send
            BY <2>4
        <3>2. <<w, t>> \in Rows(r) /\ <<w, t>>[1] = w
            BY <3>1
        <3>3. <<w, t>> \in moved
            BY <2>4, <3>2
        <3> QED BY <2>2, <3>3
    <2> QED BY <2>1, <2>3, <2>4
<1>8. ASSUME NEW r \in Runs, UnlockPlan(r)
      PROVE  HasRoute
    <2> DEFINE unlocked == {x \in Rows(r) : route[r][x[1]][x[2]] = "approved"}
    <2>1. /\ route' = [route EXCEPT ![r] = MoveRows(r, unlocked, "proposed")]
          /\ busy' = busy \ {x[1] : x \in unlocked}
        BY <1>8 DEF UnlockPlan
    <2>2. \A t \in Slots : <<w, t>> \notin unlocked
        <3>1. \A t \in Slots : <<w, t>>[1] = w
            OBVIOUS
        <3> QED BY <2>1, <3>1
    <2>3. \A q \in Runs, t \in Slots : route'[q][w][t] = route[q][w][t]
        BY <1>0, <2>1, <2>2 DEF TypeOK, MoveRows
    <2>4. w \in busy
        BY <2>1
    <2> HIDE DEF unlocked
    <2> QED BY <2>3, <2>4, BusyFrame
<1>9. ASSUME NEW r \in Runs, DeletePlan(r)
      PROVE  HasRoute
    <2>1. w \in busy /\ w \notin VehiclesOf(r)
        BY <1>9 DEF DeletePlan
    <2>2. \A t \in Slots : route[r][w][t] = "none"
        <3>1. ASSUME NEW t \in Slots, route[r][w][t] # "none"
              PROVE  FALSE
            <4>1. <<w, t>> \in Rows(r) /\ <<w, t>>[1] = w
                BY <1>0, <3>1, RowIff
            <4> QED BY <2>1, <4>1 DEF VehiclesOf
        <3> QED BY <3>1
    <2>3. \A q \in Runs \ {r} : route'[q] = route[q]
        BY <1>9 DEF DeletePlan, TypeOK
    <2> QED BY <2>1, <2>2, <2>3, BusyFrame
<1>10. CASE Warehouse
    BY <1>1, <1>10 DEF Warehouse, Enqueue, Dequeue, SetHeld, ImportOrder, AcceptBuffer,
                       DeleteOrders, SaveVehicle
<1>11. CASE UNCHANGED vars
    BY <1>1, <1>11 DEF vars
<1>12. CASE Generate
    BY <1>1, <1>3, <1>12 DEF Generate, Prepare, AbandonGenerate, CreateEmptyPlan
<1> QED BY <1>4, <1>5, <1>6, <1>7, <1>8, <1>9, <1>10, <1>11, <1>12 DEF Next, Dispatch

\* No reachable state leaves a vehicle busy without a route to free it by.
THEOREM BusyVehicleAlwaysHasRoute == Spec => []BusyVehicleHasRoute
<1>1. Init => BusyVehicleHasRoute
    BY DEF Init, BusyVehicleHasRoute
<1> QED BY <1>1, BusyStep, TypeCorrect, PlanStatusAlwaysSound, PTL DEF Spec

-----------------------------------------------------------------------------
(* QueueOnlyUndispatched. *)

\* Every handler that sends or delivers an order takes it off the queue.
THEOREM QueueStep ==
    TypeOK /\ PlanStatusSound /\ QueueOnlyUndispatched /\ [Next]_vars => QueueOnlyUndispatched'
<1> SUFFICES ASSUME TypeOK, PlanStatusSound, QueueOnlyUndispatched, [Next]_vars,
                    NEW o \in Orders, queue'[o] # "none"
             PROVE  status'[o] \in {"new", "planned"}
    BY DEF QueueOnlyUndispatched
<1> DEFINE Undispatched == status'[o] \in {"new", "planned"}
<1>0. queue[o] # "none" => status[o] \in {"new", "planned"}
    BY DEF QueueOnlyUndispatched
<1>1. ASSUME UNCHANGED <<status, queue>>
      PROVE  Undispatched
    BY <1>0, <1>1
<1>2. ASSUME NEW req \in Request, NEW ans \in Answers(req), Save(req, ans)
      PROVE  Undispatched
    <2>1. PICK r \in Runs : Saved(r, ans)
        BY <1>2, SaveEffect
    <2> QED BY <1>0, <2>1 DEF Saved, StatusAfterSave
<1>3. ASSUME NEW u \in Users, Persist(u)
      PROVE  Undispatched
    BY <1>2, <1>3 DEF Persist, TypeOK
<1>4. ASSUME NEW t \in Runs \cup {NoRun}, RunPlan(t)
      PROVE  Undispatched
    BY <1>2, <1>4, RequestForType DEF RunPlan
<1>5. ASSUME NEW S, NEW st, status' = SetStatus(S, st), queue' = Dequeued(S)
      PROVE  Undispatched
    BY <1>0, <1>5 DEF SetStatus, Dequeued
<1>6. ASSUME NEW S, status' = SetStatus(S, "new"), UNCHANGED queue
      PROVE  Undispatched
    BY <1>0, <1>6 DEF SetStatus
<1>7. ASSUME NEW r \in Runs, NEW v \in Vehicles, NEW s \in Slots,
             \/ ApproveRoute(r, v, s) \/ UnlockRoute(r, v, s)
             \/ DepartRoute(r, v, s) \/ CompleteRoute(r, v, s)
      PROVE  Undispatched
    BY <1>1, <1>5, <1>6, <1>7 DEF ApproveRoute, UnlockRoute, DepartRoute, CompleteRoute
<1>8. ASSUME NEW r \in Runs, NEW send \in SUBSET Rows(r), ApprovePlan(r, send)
      PROVE  Undispatched
    BY <1>5, <1>8 DEF ApprovePlan
<1>9. ASSUME NEW r \in Runs, UnlockPlan(r) \/ DeletePlan(r)
      PROVE  Undispatched
    BY <1>6, <1>9 DEF UnlockPlan, DeletePlan
<1>10. ASSUME NEW p \in Orders,
              \/ Enqueue(p) \/ Dequeue(p) \/ ImportOrder(p)
              \/ \E held \in BOOLEAN : SetHeld(p, held)
       PROVE  Undispatched
    BY <1>0, <1>10 DEF Enqueue, Dequeue, ImportOrder, SetHeld, TypeOK
<1>11. ASSUME NEW S \in SUBSET Orders, AcceptBuffer(S) \/ DeleteOrders(S)
       PROVE  Undispatched
    BY <1>0, <1>5, <1>11 DEF AcceptBuffer, DeleteOrders
<1>12. CASE Warehouse
    BY <1>1, <1>10, <1>11, <1>12 DEF Warehouse, SaveVehicle
<1>13. CASE UNCHANGED vars
    BY <1>1, <1>13 DEF vars
<1>14. CASE Generate
    BY <1>1, <1>3, <1>14 DEF Generate, Prepare, AbandonGenerate, CreateEmptyPlan
<1> QED BY <1>4, <1>7, <1>8, <1>9, <1>12, <1>13, <1>14 DEF Next, Dispatch

\* Nothing queued is ever on its way or delivered.
THEOREM QueueAlwaysUndispatched == Spec => []QueueOnlyUndispatched
<1>1. Init => QueueOnlyUndispatched
    BY DEF Init, QueueOnlyUndispatched
<1> QED BY <1>1, QueueStep, TypeCorrect, PlanStatusAlwaysSound, PTL DEF Spec

-----------------------------------------------------------------------------
(* ClosedRoutesKept. *)

\* What one step may do to the closed routes of a run that stays.
KeepsClosed(q) ==
    \A v \in ProtectedIn(route[q]) :
        /\ \A s \in Slots : route[q][v][s] \in Closed => route'[q][v][s] # "none"
        /\ \A o \in CarriedBy(q, v) : <<o, v>> \in riding'[q]

\* Only deleting a run removes its approved, departed or completed routes, and
\* no step takes an order off one.
THEOREM ClosedStep ==
    ASSUME TypeOK, PlanStatusSound, [Next]_vars, NEW q \in Runs, plan'[q] # "none"
    PROVE  KeepsClosed(q)
<1>0. "none" \notin Closed
    BY DEF Closed
<1>1. ASSUME \A v \in Vehicles, s \in Slots :
                route[q][v][s] # "none" => route'[q][v][s] # "none",
             riding'[q] = riding[q]
      PROVE  KeepsClosed(q)
    BY <1>0, <1>1 DEF KeepsClosed, ProtectedIn, CarriedBy
<1>2. ASSUME NEW req \in Request, NEW ans \in Answers(req), Save(req, ans)
      PROVE  KeepsClosed(q)
    <2>1. PICK r \in Runs : Saved(r, ans)
        BY <1>2, SaveEffect
    <2>2. CASE q # r
        <3>1. route'[q] = route[q] /\ riding'[q] = riding[q]
            BY <2>1, <2>2, SavedRoutes DEF Saved, TypeOK
        <3> QED BY <1>1, <3>1
    <2>3. CASE q = r
        <3>1. ASSUME NEW v \in ProtectedIn(route[q]), NEW s \in Slots, route[q][v][s] \in Closed
              PROVE  route'[q][v][s] # "none"
            BY <1>0, <2>1, <2>3, <3>1, SavedRoutes DEF ProtectedIn
        <3>2. ASSUME NEW v \in ProtectedIn(route[q]), NEW o \in CarriedBy(q, v)
              PROVE  <<o, v>> \in riding'[q]
            <4>1. <<o, v>> \in riding[q] /\ <<o, v>>[2] = v
                BY DEF CarriedBy
            <4>2. <<o, v>> \in KeptItems(q)
                BY <4>1 DEF KeptItems
            <4> QED BY <2>1, <2>3, <4>2 DEF Saved, TypeOK
        <3> QED BY <3>1, <3>2 DEF KeepsClosed
    <2> QED BY <2>2, <2>3
<1>3. ASSUME NEW u \in Users, Persist(u)
      PROVE  KeepsClosed(q)
    BY <1>2, <1>3 DEF Persist, TypeOK
<1>4. ASSUME NEW t \in Runs \cup {NoRun}, RunPlan(t)
      PROVE  KeepsClosed(q)
    BY <1>2, <1>4, RequestForType DEF RunPlan
<1>5. ASSUME NEW r \in Runs, NEW v \in Vehicles, NEW s \in Slots,
             \/ ApproveRoute(r, v, s) \/ UnlockRoute(r, v, s)
             \/ DepartRoute(r, v, s) \/ CompleteRoute(r, v, s)
      PROVE  KeepsClosed(q)
    <2>1. PICK st \in {"proposed", "approved", "in_transit", "completed"} :
            route' = [route EXCEPT ![r][v][s] = st]
        BY <1>5 DEF ApproveRoute, UnlockRoute, DepartRoute, CompleteRoute, MoveRoute
    <2>2. riding' = riding
        BY <1>5 DEF ApproveRoute, UnlockRoute, DepartRoute, CompleteRoute, MoveRoute
    <2>3. \A x \in Vehicles, t \in Slots : route[q][x][t] # "none" => route'[q][x][t] # "none"
        BY <2>1 DEF TypeOK
    <2> QED BY <1>1, <2>2, <2>3
<1>6. ASSUME NEW r \in Runs, NEW moved, NEW st, st # "none",
             route' = [route EXCEPT ![r] = MoveRows(r, moved, st)], riding' = riding
      PROVE  KeepsClosed(q)
    <2>1. \A x \in Vehicles, t \in Slots : route[q][x][t] # "none" => route'[q][x][t] # "none"
        BY <1>6 DEF TypeOK, MoveRows
    <2> QED BY <1>1, <1>6, <2>1
<1>11. ASSUME NEW r \in Runs, NEW send \in SUBSET Rows(r), ApprovePlan(r, send)
       PROVE  KeepsClosed(q)
    BY <1>6, <1>11 DEF ApprovePlan
<1>12. ASSUME NEW r \in Runs, UnlockPlan(r)
       PROVE  KeepsClosed(q)
    BY <1>6, <1>12 DEF UnlockPlan
<1>7. ASSUME NEW r \in Runs, DeletePlan(r)
      PROVE  KeepsClosed(q)
    <2>1. q # r
        BY <1>7 DEF DeletePlan, TypeOK
    <2>2. route'[q] = route[q] /\ riding'[q] = riding[q]
        BY <1>7, <2>1 DEF DeletePlan, TypeOK
    <2> QED BY <1>1, <2>2
<1>8. CASE Warehouse
    BY <1>1, <1>8 DEF Warehouse, Enqueue, Dequeue, SetHeld, ImportOrder, AcceptBuffer,
                      DeleteOrders, SaveVehicle
<1>9. CASE UNCHANGED vars
    BY <1>1, <1>9 DEF vars
<1>10. CASE Generate
    BY <1>1, <1>3, <1>10 DEF Generate, Prepare, AbandonGenerate, CreateEmptyPlan
<1> QED BY <1>4, <1>5, <1>7, <1>8, <1>9, <1>10, <1>11, <1>12 DEF Next, Dispatch

\* A stale plan never overwrites a route that was approved meanwhile.
THEOREM ClosedRoutesAlwaysKept == Spec => ClosedRoutesKept
<1>1. ASSUME TypeOK, PlanStatusSound, [Next]_vars
      PROVE  [\A r \in Runs : \A v \in ProtectedIn(route[r]) :
                plan'[r] # "none" =>
                    /\ \A s \in Slots : route[r][v][s] \in Closed => route'[r][v][s] # "none"
                    /\ \A o \in CarriedBy(r, v) : <<o, v>> \in riding'[r]]_vars
    BY <1>1, ClosedStep DEF KeepsClosed
<1> QED BY <1>1, TypeCorrect, PlanStatusAlwaysSound, PTL DEF Spec, ClosedRoutesKept

-----------------------------------------------------------------------------
(* NoOrderStranded. *)

\* What NoOrderStranded says of one order.
Reachable(o) ==
    /\ status[o] = "planned" => \E r \in Runs : o \in Carried(r)
    /\ status[o] = "approved" =>
          \E r \in Runs : \E v \in ProtectedIn(route[r]) : <<o, v>> \in riding[r]

\* A saved answer carries the orders it marks PLANNED, and it returns the
\* PLANNED orders it drops to the pool.
LEMMA ReachableSaved ==
    ASSUME TypeOK, PlanStatusSound, NoOrderStranded, NEW o \in Orders,
           NEW req \in Request, NEW ans \in Answers(req), NEW r \in Runs, Saved(r, ans)
    PROVE  Reachable(o)'
<1>1. /\ status'[o] = StatusAfterSave(ResetOnSave(r), ans)[o]
      /\ riding'[r] = KeptItems(r) \cup Items(ans)
      /\ \A q \in Runs \ {r} : riding'[q] = riding[q]
    BY DEF Saved, TypeOK
<1>2. /\ \A q \in Runs \ {r} : route'[q] = route[q]
      /\ ProtectedIn(route'[r]) = ProtectedIn(route[r])
    BY SavedRoutes
<1>3. Reachable(o)
    BY DEF Reachable, NoOrderStranded
<1>4. CASE o \in Placed(ans)
    <2>1. status'[o] \in {"absent", "planned"}
        BY <1>1, <1>4 DEF StatusAfterSave
    <2>2. ans[o] \in Vehicles /\ <<o, ans[o]>> \in Items(ans)
        BY <1>4 DEF Placed, Items, Answers, Request
    <2>3. <<o, ans[o]>> \in riding'[r]
        BY <1>1, <2>2
    <2> QED BY <2>1, <2>2, <2>3 DEF Reachable, Carried
<1>5. CASE o \notin Placed(ans) /\ o \in ResetOnSave(r)
    BY <1>1, <1>5 DEF StatusAfterSave, Reachable
<1>6. CASE o \notin Placed(ans) /\ o \notin ResetOnSave(r)
    <2>1. status'[o] = status[o]
        BY <1>1, <1>6 DEF StatusAfterSave
    <2>2. ASSUME NEW v \in Vehicles, <<o, v>> \in riding[r],
                 \/ status[o] = "planned"
                 \/ v \in ProtectedIn(route[r])
          PROVE  <<o, v>> \in riding'[r]
        <3>1. v \in ProtectedIn(route[r]) => <<o, v>> \in KeptItems(r)
            BY <2>2 DEF KeptItems
        <3>2. status[o] = "planned" => plan[r] # "draft"
            BY <1>6, <2>2 DEF ResetOnSave, WithStatus, Carried
        <3>3. status[o] = "planned" => <<o, v>> \in KeptItems(r)
            BY <1>6, <2>2, <3>2 DEF ResetOnSave, WithStatus
        <3> QED BY <1>1, <2>2, <3>1, <3>3
    <2>3. ASSUME status[o] = "planned"
          PROVE  \E q \in Runs : o \in Carried(q)'
        <3>1. PICK q \in Runs, v \in Vehicles : <<o, v>> \in riding[q]
            BY <1>3, <2>3 DEF Reachable, Carried
        <3>2. <<o, v>> \in riding'[q]
            BY <1>1, <2>2, <2>3, <3>1
        <3> QED BY <3>1, <3>2 DEF Carried
    <2>4. ASSUME status[o] = "approved"
          PROVE  \E q \in Runs : \E v \in ProtectedIn(route'[q]) : <<o, v>> \in riding'[q]
        <3>0. PICK q \in Runs : \E v \in ProtectedIn(route[q]) : <<o, v>> \in riding[q]
            BY <1>3, <2>4 DEF Reachable
        <3>1. PICK v \in ProtectedIn(route[q]) : <<o, v>> \in riding[q]
            BY <3>0
        <3>2. v \in Vehicles
            BY DEF ProtectedIn
        <3>3. <<o, v>> \in riding'[q] /\ v \in ProtectedIn(route'[q])
            BY <1>1, <1>2, <2>2, <3>1, <3>2
        <3> QED BY <3>3
    <2>5. (\E q \in Runs : \E v \in ProtectedIn(route'[q]) : <<o, v>> \in riding'[q])
          => (\E q \in Runs : \E v \in ProtectedIn(route[q]) : <<o, v>> \in riding[q])'
        BY DEF ProtectedIn
    <2> QED BY <2>1, <2>3, <2>4, <2>5 DEF Reachable
<1> QED BY <1>4, <1>5, <1>6

\* An order stays reachable when its run only gains protected vehicles.
LEMMA ReachableFrame ==
    ASSUME NEW o \in Orders, Reachable(o), riding' = riding,
           status'[o] \in {status[o], "new", "delivered", "absent"},
           \A q \in Runs : \A v \in ProtectedIn(route[q]) :
              status'[o] = "approved" /\ <<o, v>> \in riding[q] => v \in ProtectedIn(route'[q])
    PROVE  Reachable(o)'
<1>1. status'[o] = "planned" => \E q \in Runs : o \in Carried(q)'
    BY DEF Reachable, Carried
<1>2. status'[o] = "approved" =>
        \E q \in Runs : \E v \in ProtectedIn(route'[q]) : <<o, v>> \in riding'[q]
    BY DEF Reachable
<1> QED BY <1>1, <1>2 DEF Reachable, ProtectedIn

\* A handler that changes one route keeps every order reachable, if it either
\* leaves the route closed or returns the approved orders on board.
LEMMA ReachableMoved ==
    ASSUME TypeOK, NEW o \in Orders, Reachable(o),
           NEW r \in Runs, NEW v \in Vehicles, NEW s \in Slots, NEW st,
           route' = [route EXCEPT ![r][v][s] = st], riding' = riding,
           status'[o] \in {status[o], "new", "delivered", "absent"},
           st \in Closed \/ (o \in CarriedBy(r, v) => status'[o] # "approved")
    PROVE  Reachable(o)'
<1> SUFFICES ASSUME NEW q \in Runs, NEW w \in ProtectedIn(route[q]),
                    status'[o] = "approved", <<o, w>> \in riding[q]
             PROVE  w \in ProtectedIn(route'[q])
    BY ReachableFrame
<1>1. PICK t \in Slots : route[q][w][t] \in Closed
    BY DEF ProtectedIn
<1>2. w \in Vehicles
    BY DEF ProtectedIn
<1>3. CASE st \in Closed
    <2>1. route'[q][w][t] \in Closed
        BY <1>1, <1>2, <1>3 DEF TypeOK
    <2> QED BY <1>2, <2>1 DEF ProtectedIn
<1>4. CASE st \notin Closed
    <2>1. ~ (q = r /\ w = v)
        BY <1>4 DEF CarriedBy
    <2>2. route'[q][w][t] \in Closed
        BY <1>1, <1>2, <2>1 DEF TypeOK
    <2> QED BY <1>2, <2>2 DEF ProtectedIn
<1> QED BY <1>3, <1>4

\* An order on board a closed route of the state after a step is reachable.
LEMMA ReachableOnBoard ==
    ASSUME NEW o \in Orders, NEW r \in Runs, NEW v \in Vehicles, NEW s \in Slots,
           route'[r][v][s] \in Closed, <<o, v>> \in riding'[r], status'[o] = "approved"
    PROVE  Reachable(o)'
<1>1. v \in ProtectedIn(route[r])'
    BY DEF ProtectedIn
<1> QED BY <1>1 DEF Reachable

\* No step leaves a PLANNED order without a run that carries it, or an
\* APPROVED one without a closed route.
THEOREM StrandedStep ==
    TypeOK /\ PlanStatusSound /\ NoOrderStranded /\ [Next]_vars => NoOrderStranded'
<1> SUFFICES ASSUME TypeOK, PlanStatusSound, NoOrderStranded, [Next]_vars, NEW o \in Orders
             PROVE  Reachable(o)'
    BY DEF NoOrderStranded, Reachable
<1>0. Reachable(o)
    BY DEF NoOrderStranded, Reachable
<1>1. ASSUME UNCHANGED <<riding, route>>, status'[o] \in {status[o], "new", "absent"}
      PROVE  Reachable(o)'
    BY <1>0, <1>1, ReachableFrame
<1>2. ASSUME NEW req \in Request, NEW ans \in Answers(req), Save(req, ans)
      PROVE  Reachable(o)'
    BY <1>2, SaveEffect, ReachableSaved
<1>3. ASSUME NEW u \in Users, Persist(u)
      PROVE  Reachable(o)'
    BY <1>2, <1>3 DEF Persist, TypeOK
<1>4. ASSUME NEW t \in Runs \cup {NoRun}, RunPlan(t)
      PROVE  Reachable(o)'
    BY <1>2, <1>4, RequestForType DEF RunPlan
<1>5. ASSUME NEW r \in Runs, NEW v \in Vehicles, NEW s \in Slots, ApproveRoute(r, v, s)
      PROVE  Reachable(o)'
    <2> DEFINE approved == WithStatus(CarriedBy(r, v), {"planned"})
    <2>1. /\ status'[o] = IF o \in approved THEN "approved" ELSE status[o]
          /\ route' = [route EXCEPT ![r][v][s] = "approved"] /\ riding' = riding
        BY <1>5 DEF ApproveRoute, MoveRoute, SetStatus
    <2>2. CASE o \in approved
        <3>1. route'[r][v][s] \in Closed
            BY <2>1 DEF TypeOK, Closed
        <3>2. <<o, v>> \in riding'[r]
            BY <2>1, <2>2 DEF WithStatus, CarriedBy
        <3> QED BY <2>1, <2>2, <3>1, <3>2, ReachableOnBoard
    <2>3. CASE o \notin approved
        BY <1>0, <2>1, <2>3, ReachableMoved DEF Closed
    <2> QED BY <2>2, <2>3
<1>6. ASSUME NEW r \in Runs, NEW v \in Vehicles, NEW s \in Slots,
             \/ UnlockRoute(r, v, s) \/ DepartRoute(r, v, s) \/ CompleteRoute(r, v, s)
      PROVE  Reachable(o)'
    <2>1. CASE UnlockRoute(r, v, s)
        <3>1. /\ status'[o] = IF o \in WithStatus(CarriedBy(r, v), {"planned", "approved"})
                              THEN "new" ELSE status[o]
              /\ route' = [route EXCEPT ![r][v][s] = "proposed"] /\ riding' = riding
            BY <2>1 DEF UnlockRoute, MoveRoute, SetStatus
        <3>2. o \in CarriedBy(r, v) => status'[o] # "approved"
            BY <3>1 DEF WithStatus
        <3> QED BY <1>0, <3>1, <3>2, ReachableMoved
    <2>2. CASE DepartRoute(r, v, s)
        <3>1. /\ status' = status
              /\ route' = [route EXCEPT ![r][v][s] = "in_transit"] /\ riding' = riding
            BY <2>2 DEF DepartRoute, MoveRoute
        <3> QED BY <1>0, <3>1, ReachableMoved DEF Closed
    <2>3. CASE CompleteRoute(r, v, s)
        <3>1. /\ status'[o] \in {status[o], "delivered"}
              /\ route' = [route EXCEPT ![r][v][s] = "completed"] /\ riding' = riding
            BY <2>3 DEF CompleteRoute, MoveRoute, SetStatus
        <3> QED BY <1>0, <3>1, ReachableMoved DEF Closed
    <2> QED BY <1>6, <2>1, <2>2, <2>3
<1>7. ASSUME NEW r \in Runs, NEW send \in SUBSET Rows(r), ApprovePlan(r, send)
      PROVE  Reachable(o)'
    <2> DEFINE codes == {v \in Vehicles : \E s \in Slots :
                            <<v, s>> \in send /\ route[r][v][s] # "approved"}
               moved == {x \in Rows(r) : x[1] \in codes}
               approved == WithStatus({p \in Orders : \E v \in codes : <<p, v>> \in riding[r]},
                                      {"planned"})
    <2>1. /\ status'[o] = IF o \in approved THEN "approved" ELSE status[o]
          /\ route' = [route EXCEPT ![r] = MoveRows(r, moved, "approved")]
          /\ riding' = riding
        BY <1>7 DEF ApprovePlan, SetStatus
    <2>2. \A q \in Runs, v \in Vehicles, s \in Slots :
            route'[q][v][s] = IF q = r /\ <<v, s>> \in moved THEN "approved" ELSE route[q][v][s]
        BY <2>1 DEF TypeOK, MoveRows
    <2>3. CASE o \in approved
        <3>1. PICK v \in codes : <<o, v>> \in riding[r]
            BY <2>3 DEF WithStatus
        <3>2. PICK s \in Slots : <<v, s>> \in send
            BY <3>1
        <3>3. <<v, s>> \in Rows(r) /\ <<v, s>>[1] = v
            BY <3>2
        <3>4. <<v, s>> \in moved
            BY <3>1, <3>3
        <3>5. v \in Vehicles
            BY <3>1
        <3>6. route'[r][v][s] \in Closed
            BY <2>2, <3>4, <3>5 DEF Closed
        <3>7. <<o, v>> \in riding'[r] /\ status'[o] = "approved"
            BY <2>1, <2>3, <3>1
        <3> QED BY <3>5, <3>6, <3>7, ReachableOnBoard
    <2>4. CASE o \notin approved
        <3>1. status'[o] = status[o]
            BY <2>1, <2>4
        <3>2. ASSUME NEW q \in Runs, NEW v \in ProtectedIn(route[q])
              PROVE  v \in ProtectedIn(route'[q])
            <4>1. PICK s \in Slots : route[q][v][s] \in Closed
                BY DEF ProtectedIn
            <4>2. route'[q][v][s] \in {"approved", route[q][v][s]}
                BY <2>2 DEF ProtectedIn
            <4> QED BY <4>1, <4>2 DEF ProtectedIn, Closed
        <3> QED BY <1>0, <2>1, <3>1, <3>2, ReachableFrame
    <2> QED BY <2>3, <2>4
<1>8. ASSUME NEW r \in Runs, UnlockPlan(r)
      PROVE  Reachable(o)'
    <2> DEFINE unlocked == {x \in Rows(r) : route[r][x[1]][x[2]] = "approved"}
               completed == {v \in Vehicles : \E s \in Slots : route[r][v][s] = "completed"}
               reset == WithStatus({p \in Orders : \E v \in Vehicles \ completed :
                                       <<p, v>> \in riding[r]},
                                   {"planned", "approved"})
    <2>1. /\ status'[o] = IF o \in reset THEN "new" ELSE status[o]
          /\ route' = [route EXCEPT ![r] = MoveRows(r, unlocked, "proposed")]
          /\ riding' = riding
        BY <1>8 DEF UnlockPlan, SetStatus
    <2>2. \A q \in Runs, v \in Vehicles, s \in Slots :
            route'[q][v][s] = IF q = r /\ <<v, s>> \in unlocked THEN "proposed" ELSE route[q][v][s]
        BY <2>1 DEF TypeOK, MoveRows
    <2>3. ASSUME NEW q \in Runs, NEW v \in ProtectedIn(route[q]),
                 status'[o] = "approved", <<o, v>> \in riding[q]
          PROVE  v \in ProtectedIn(route'[q])
        <3>1. v \in Vehicles
            BY DEF ProtectedIn
        <3>2. CASE q # r
            <4>1. PICK s \in Slots : route[q][v][s] \in Closed
                BY DEF ProtectedIn
            <4> QED BY <2>2, <3>1, <3>2, <4>1 DEF ProtectedIn
        <3>3. CASE q = r
            <4>1. status[o] = "approved" /\ o \notin reset
                BY <2>1, <2>3
            <4>2. v \in completed
                BY <2>3, <3>1, <3>3, <4>1 DEF WithStatus
            <4>3. PICK s \in Slots : route[r][v][s] = "completed"
                BY <4>2
            <4>4. <<v, s>>[1] = v /\ <<v, s>>[2] = s
                OBVIOUS
            <4>5. <<v, s>> \notin unlocked
                BY <4>3, <4>4
            <4>6. route'[r][v][s] = "completed"
                BY <2>2, <3>1, <4>3, <4>5
            <4> QED BY <3>1, <3>3, <4>6 DEF ProtectedIn, Closed
        <3> QED BY <3>2, <3>3
    <2> HIDE DEF unlocked, completed, reset
    <2> QED BY <1>0, <2>1, <2>3, ReachableFrame
<1>9. ASSUME NEW r \in Runs, DeletePlan(r)
      PROVE  Reachable(o)'
    <2>1. /\ status'[o] = IF o \in WithStatus(Carried(r), {"planned", "approved"})
                          THEN "new" ELSE status[o]
          /\ \A q \in Runs \ {r} : riding'[q] = riding[q] /\ route'[q] = route[q]
        BY <1>9 DEF DeletePlan, SetStatus, TypeOK
    <2>2. CASE o \in Carried(r)
        <3>1. status'[o] \notin {"planned", "approved"}
            BY <2>1, <2>2 DEF WithStatus
        <3> QED BY <3>1 DEF Reachable
    <2>3. CASE o \notin Carried(r)
        <3>1. status'[o] = status[o]
            BY <2>1, <2>3 DEF WithStatus
        <3>2. \A v \in Vehicles : <<o, v>> \notin riding[r]
            BY <2>3 DEF Carried
        <3>3. status'[o] = "planned" => \E q \in Runs : o \in Carried(q)'
            BY <1>0, <2>1, <2>3, <3>1 DEF Reachable, Carried
        <3>4. ASSUME status'[o] = "approved"
              PROVE  \E q \in Runs : \E v \in ProtectedIn(route[q])' : <<o, v>> \in riding'[q]
            <4>1. PICK q \in Runs : \E v \in ProtectedIn(route[q]) : <<o, v>> \in riding[q]
                BY <1>0, <3>1, <3>4 DEF Reachable
            <4>2. q # r
                BY <3>2, <4>1 DEF ProtectedIn
            <4> QED BY <2>1, <4>1, <4>2 DEF ProtectedIn
        <3> QED BY <3>3, <3>4 DEF Reachable
    <2> QED BY <2>2, <2>3
<1>10. CASE Warehouse
    <2>1. ASSUME NEW S, NEW st \in {"new", "absent"}, status' = SetStatus(S, st)
          PROVE  status'[o] \in {status[o], "new", "absent"}
        BY <2>1 DEF SetStatus
    <2>2. ASSUME NEW p \in Orders, ImportOrder(p)
          PROVE  status'[o] \in {status[o], "new", "absent"}
        BY <2>2 DEF ImportOrder, TypeOK
    <2> QED BY <1>1, <1>10, <2>1, <2>2
            DEF Warehouse, Enqueue, Dequeue, SetHeld, ImportOrder, AcceptBuffer,
                DeleteOrders, SaveVehicle
<1>11. CASE UNCHANGED vars
    BY <1>1, <1>11 DEF vars
<1>12. CASE Generate
    BY <1>1, <1>3, <1>12 DEF Generate, Prepare, AbandonGenerate, CreateEmptyPlan
<1> QED BY <1>4, <1>5, <1>6, <1>7, <1>8, <1>9, <1>10, <1>11, <1>12 DEF Next, Dispatch

\* No order is ever lost between plans.
THEOREM NoOrderEverStranded == Spec => []NoOrderStranded
<1>1. Init => NoOrderStranded
    BY DEF Init, NoOrderStranded
<1> QED BY <1>1, StrandedStep, TypeCorrect, PlanStatusAlwaysSound, PTL DEF Spec

-----------------------------------------------------------------------------
(* When no generation is overtaken: every one is planned and saved in one    *)
(* transaction, the service's run_plan, so that its snapshot is the state it *)
(* is saved into.                                                            *)

\* Saving adds one proposed route for each vehicle the answer uses.
LEMMA AddedOnce ==
    ASSUME NEW rt \in RouteTable, NEW vs, HasRoom(rt, vs), NEW v \in Vehicles
    PROVE  /\ v \notin vs => AddProposed(rt, vs)[v] = rt[v]
           /\ v \in vs => \E s \in Slots :
                 /\ rt[v][s] = "none"
                 /\ AddProposed(rt, vs)[v] = [rt[v] EXCEPT ![s] = "proposed"]
BY DEF AddProposed, HasRoom

\* An answer to the state it is saved into uses no vehicle the run keeps, and
\* places only orders that are NEW or PLANNED.
InTime(r, ans) ==
    /\ Saved(r, ans)
    /\ UsedBy(ans) \in SUBSET (Vehicles \ ProtectedIn(route[r]))
    /\ \A o \in Placed(ans) : o \in Orders /\ status[o] \in {"new", "planned"}

LEMMA SaveInTime ==
    ASSUME TypeOK, PlanStatusSound, NEW t \in Runs \cup {NoRun}, RunPlan(t)
    PROVE  \E r \in Runs : \E ans : InTime(r, ans)
<1> DEFINE req == RequestFor(t)
<1>1. PICK ans \in Answers(req) : Save(req, ans)
    BY DEF RunPlan
<1>2. req \in Request
    BY RequestForType
<1> HIDE DEF req
<1>3. PICK r \in Runs : Saved(r, ans) /\ (req.target = r \/ plan[r] = "none")
    BY <1>1, <1>2, SaveEffect
<1>4. UsedBy(ans) \in SUBSET req.fleet
    BY <1>1 DEF UsedBy, Placed, Answers
<1>5. req.fleet \in SUBSET Vehicles /\ req.fleet \cap ProtectedIn(route[r]) = {}
    <2>1. CASE req.target = r
        BY <2>1 DEF req, RequestFor, FleetForSolver, NoRun, Runs, TypeOK
    <2>2. CASE plan[r] = "none"
        <3>1. ProtectedIn(route[r]) = {}
            BY <2>2, RowIff DEF PlanStatusSound, ProtectedIn, Closed
        <3> QED BY <1>2, <3>1 DEF Request
    <2> QED BY <1>3, <2>1, <2>2
<1>6. \A o \in Placed(ans) : o \in Orders /\ status[o] \in {"new", "planned"}
    <2>1. Placed(ans) \in SUBSET req.pool
        BY <1>1 DEF Placed, Answers
    <2>2. \A o \in req.pool : o \in Orders /\ status[o] \in {"new", "planned"}
        BY DEF req, RequestFor, PlannedOnRun, WithStatus
    <2> QED BY <2>1, <2>2
<1> QED BY <1>3, <1>4, <1>5, <1>6 DEF InTime

\* Before and after such a save: the vehicles the run keeps have the routes they
\* had, those the answer uses one proposed route, the others none.
LEMMA InTimeRoutes ==
    ASSUME TypeOK, NEW r \in Runs, NEW ans, InTime(r, ans), NEW v \in Vehicles
    PROVE  \/ /\ v \in ProtectedIn(route[r])
              /\ \A s \in Slots : route'[r][v][s] # "none" => route'[r][v][s] = route[r][v][s]
           \/ /\ v \in UsedBy(ans)
              /\ \E s \in Slots : /\ route'[r][v][s] = "proposed"
                                  /\ \A s2 \in Slots : s2 # s => route'[r][v][s2] = "none"
           \/ /\ v \notin UsedBy(ans)
              /\ \A s \in Slots : route'[r][v][s] = "none"
<1> DEFINE rt == KeptRoutes(r)
<1>1. /\ rt \in RouteTable /\ HasRoom(rt, UsedBy(ans))
      /\ route'[r] = AddProposed(rt, UsedBy(ans))
    BY KeptRoutesType DEF InTime, Saved, TypeOK
<1>2. \A s \in Slots : rt[v][s] = IF route[r][v][s] \in Closed THEN route[r][v][s] ELSE "none"
    BY DEF KeptRoutes
<1>3. rt[v] \in [Slots -> RouteStatus]
    BY <1>1 DEF RouteTable
<1> HIDE DEF rt
<1>4. CASE v \in ProtectedIn(route[r])
    <2>1. v \notin UsedBy(ans)
        BY <1>4 DEF InTime
    <2> QED BY <1>1, <1>2, <1>4, <2>1, AddedOnce
<1>5. CASE v \notin ProtectedIn(route[r])
    <2>1. \A s \in Slots : rt[v][s] = "none"
        BY <1>2, <1>5 DEF ProtectedIn
    <2>2. CASE v \in UsedBy(ans)
        <3>1. PICK s \in Slots : route'[r][v] = [rt[v] EXCEPT ![s] = "proposed"]
            BY <1>1, <2>2, AddedOnce
        <3> QED BY <1>3, <2>1, <2>2, <3>1
    <2>3. CASE v \notin UsedBy(ans)
        BY <1>1, <2>1, <2>3, AddedOnce
    <2> QED BY <2>2, <2>3
<1> QED BY <1>4, <1>5

LEMMA OneRouteSaved ==
    ASSUME TypeOK, OneRoutePerVehicle, NEW r \in Runs, NEW ans, InTime(r, ans)
    PROVE  OneRoutePerVehicle'
<1> SUFFICES ASSUME NEW q \in Runs, NEW v \in Vehicles, NEW s1 \in Slots, NEW s2 \in Slots,
                    route'[q][v][s1] # "none", route'[q][v][s2] # "none"
             PROVE  s1 = s2
    BY DEF OneRoutePerVehicle
<1>1. CASE q # r
    <2>1. route'[q] = route[q]
        BY <1>1 DEF InTime, Saved, TypeOK
    <2> QED BY <2>1 DEF OneRoutePerVehicle
<1>2. CASE q = r
    BY <1>2, InTimeRoutes DEF OneRoutePerVehicle
<1> QED BY <1>1, <1>2

\* A step that gives no empty slot a route keeps one route per vehicle.
LEMMA OneRouteFrame ==
    ASSUME OneRoutePerVehicle,
           \A q \in Runs, v \in Vehicles, s \in Slots :
              route'[q][v][s] # "none" => route[q][v][s] # "none"
    PROVE  OneRoutePerVehicle'
BY DEF OneRoutePerVehicle

LEMMA OneRouteStep ==
    ASSUME Users = {}, TypeOK, PlanStatusSound, OneRoutePerVehicle, [Next]_vars
    PROVE  OneRoutePerVehicle'
<1>1. ASSUME UNCHANGED route
      PROVE  OneRoutePerVehicle'
    BY <1>1 DEF OneRoutePerVehicle
<1>2. ASSUME NEW t \in Runs \cup {NoRun}, RunPlan(t)
      PROVE  OneRoutePerVehicle'
    BY <1>2, SaveInTime, OneRouteSaved
<1>3. ASSUME NEW r \in Runs, NEW v \in Vehicles, NEW s \in Slots,
             \/ ApproveRoute(r, v, s) \/ UnlockRoute(r, v, s)
             \/ DepartRoute(r, v, s) \/ CompleteRoute(r, v, s)
      PROVE  OneRoutePerVehicle'
    <2>1. route[r][v][s] # "none"
        BY <1>3 DEF ApproveRoute, UnlockRoute, DepartRoute, CompleteRoute
    <2>2. PICK st : route' = [route EXCEPT ![r][v][s] = st]
        BY <1>3 DEF ApproveRoute, UnlockRoute, DepartRoute, CompleteRoute, MoveRoute
    <2>3. \A q \in Runs, w \in Vehicles, s2 \in Slots :
             route'[q][w][s2] # "none" => route[q][w][s2] # "none"
        BY <2>1, <2>2 DEF TypeOK
    <2> QED BY <2>3, OneRouteFrame
<1>4. ASSUME NEW r \in Runs, NEW moved \in SUBSET Rows(r), NEW st,
             route' = [route EXCEPT ![r] = MoveRows(r, moved, st)]
      PROVE  OneRoutePerVehicle'
    <2>1. \A w \in Vehicles, s2 \in Slots :
             MoveRows(r, moved, st)[w][s2] # "none" => route[r][w][s2] # "none"
        BY RowIff DEF MoveRows
    <2>2. \A q \in Runs, w \in Vehicles, s2 \in Slots :
             route'[q][w][s2] # "none" => route[q][w][s2] # "none"
        BY <1>4, <2>1 DEF TypeOK
    <2> QED BY <2>2, OneRouteFrame
<1>5. ASSUME NEW r \in Runs, NEW send \in SUBSET Rows(r), ApprovePlan(r, send)
      PROVE  OneRoutePerVehicle'
    <2>1. PICK moved \in SUBSET Rows(r) :
             route' = [route EXCEPT ![r] = MoveRows(r, moved, "approved")]
        BY <1>5 DEF ApprovePlan
    <2> QED BY <1>4, <2>1
<1>6. ASSUME NEW r \in Runs, UnlockPlan(r)
      PROVE  OneRoutePerVehicle'
    <2>1. PICK moved \in SUBSET Rows(r) :
             route' = [route EXCEPT ![r] = MoveRows(r, moved, "proposed")]
        BY <1>6 DEF UnlockPlan
    <2> QED BY <1>4, <2>1
<1>7. ASSUME NEW r \in Runs, DeletePlan(r)
      PROVE  OneRoutePerVehicle'
    <2>1. \A q \in Runs, w \in Vehicles, s2 \in Slots :
             route'[q][w][s2] # "none" => route[q][w][s2] # "none"
        BY <1>7 DEF DeletePlan, NoRoutes, TypeOK
    <2> QED BY <2>1, OneRouteFrame
<1>8. CASE Warehouse
    BY <1>1, <1>8 DEF Warehouse, Enqueue, Dequeue, SetHeld, ImportOrder, AcceptBuffer,
                      DeleteOrders, SaveVehicle
<1>9. CASE UNCHANGED vars
    BY <1>1, <1>9 DEF vars
<1>10. CASE Generate
    BY <1>1, <1>10 DEF Generate, CreateEmptyPlan
<1> QED BY <1>2, <1>3, <1>5, <1>6, <1>7, <1>8, <1>9, <1>10 DEF Next, Dispatch

\* Generating into a run offers the solver no vehicle whose route it keeps, so
\* without overtaken generations no run ever holds two routes for one vehicle.
THEOREM OneRouteAlwaysPerVehicle ==
    ASSUME Users = {} PROVE Spec => []OneRoutePerVehicle
<1>1. Init => OneRoutePerVehicle
    BY DEF Init, NoRoutes, OneRoutePerVehicle
<1>2. TypeOK /\ PlanStatusSound /\ OneRoutePerVehicle /\ [Next]_vars => OneRoutePerVehicle'
    BY OneRouteStep
<1> QED BY <1>1, <1>2, TypeCorrect, PlanStatusAlwaysSound, PTL DEF Spec

\* A proposed route of a run that carries the order.
OnOffer(q, o) ==
    \E v \in Vehicles, s \in Slots : <<o, v>> \in riding[q] /\ route[q][v][s] = "proposed"

\* In a run that is saved into, an order whose offer is dropped is taken back:
\* in a draft all are, in a partial run those of vehicles it does not keep.
LEMMA OfferSaved ==
    ASSUME TypeOK, PlanStatusSound, OneRoutePerVehicle, PlannedIsOnOffer,
           NEW r \in Runs, NEW ans, InTime(r, ans)
    PROVE  PlannedIsOnOffer'
<1> SUFFICES ASSUME NEW o \in Orders, status'[o] = "planned"
             PROVE  \E q \in Runs : OnOffer(q, o)'
    BY DEF PlannedIsOnOffer, OnOffer
<1>1. /\ riding'[r] = KeptItems(r) \cup Items(ans)
      /\ status' = StatusAfterSave(ResetOnSave(r), ans)
      /\ \A q \in Runs \ {r} : riding'[q] = riding[q] /\ route'[q] = route[q]
    BY DEF InTime, Saved, TypeOK
<1>2. CASE o \in Placed(ans)
    <2> DEFINE v == ans[o]
    <2>1. v \in UsedBy(ans) /\ <<o, v>> \in riding'[r]
        BY <1>1, <1>2 DEF UsedBy, Items
    <2>2. v \in Vehicles /\ v \notin ProtectedIn(route[r])
        BY <2>1 DEF InTime
    <2>3. \E s \in Slots : route'[r][v][s] = "proposed"
        BY <2>1, <2>2, InTimeRoutes
    <2> QED BY <2>1, <2>2, <2>3 DEF OnOffer
<1>3. CASE o \notin Placed(ans)
    <2>1. status[o] = "planned" /\ o \notin ResetOnSave(r)
        BY <1>1, <1>3 DEF StatusAfterSave
    <2>2. PICK q \in Runs, v \in Vehicles, s \in Slots :
             <<o, v>> \in riding[q] /\ route[q][v][s] = "proposed"
        BY <2>1 DEF PlannedIsOnOffer
    <2>3. CASE q # r
        BY <1>1, <2>2, <2>3 DEF OnOffer
    <2>4. CASE q = r
        <3>1. v \notin ProtectedIn(route[r])
            BY <2>2, <2>4 DEF ProtectedIn, OneRoutePerVehicle, Closed
        <3>2. <<o, v>> \notin KeptItems(r)
            BY <3>1 DEF KeptItems
        <3>3. plan[r] # "none"
            BY <2>2, <2>4 DEF PlanStatusSound
        <3>4. plan[r] = "draft" => o \in ResetOnSave(r)
            BY <2>1, <2>2, <2>4 DEF ResetOnSave, Carried, WithStatus
        <3>5. plan[r] # "draft" => o \in ResetOnSave(r)
            BY <2>1, <2>2, <2>4, <3>2 DEF ResetOnSave, WithStatus
        <3> QED BY <2>1, <3>4, <3>5
    <2> QED BY <2>3, <2>4
<1> QED BY <1>2, <1>3

LEMMA OfferStep ==
    ASSUME Users = {}, TypeOK, PlanStatusSound, OneRoutePerVehicle, PlannedIsOnOffer, [Next]_vars
    PROVE  PlannedIsOnOffer'
<1>1. ASSUME UNCHANGED <<riding, route>>,
             \A o \in Orders : status'[o] = "planned" => status[o] = "planned"
      PROVE  PlannedIsOnOffer'
    BY <1>1 DEF PlannedIsOnOffer
<1>2. ASSUME NEW t \in Runs \cup {NoRun}, RunPlan(t)
      PROVE  PlannedIsOnOffer'
    BY <1>2, SaveInTime, OfferSaved
<1>3. ASSUME NEW r \in Runs, NEW v \in Vehicles, NEW s \in Slots, NEW st,
             route' = [route EXCEPT ![r][v][s] = st], riding' = riding,
             \A o \in Orders : status'[o] = "planned" => status[o] = "planned",
             \A o \in Orders : status'[o] = "planned" /\ <<o, v>> \in riding[r]
                => route[r][v][s] # "proposed"
      PROVE  PlannedIsOnOffer'
    <2> SUFFICES ASSUME NEW o \in Orders, status'[o] = "planned"
                 PROVE  \E q \in Runs, w \in Vehicles, s2 \in Slots :
                           <<o, w>> \in riding'[q] /\ route'[q][w][s2] = "proposed"
        BY DEF PlannedIsOnOffer
    <2>1. PICK q \in Runs, w \in Vehicles, s2 \in Slots :
             <<o, w>> \in riding[q] /\ route[q][w][s2] = "proposed"
        BY <1>3 DEF PlannedIsOnOffer
    <2>2. ~ (q = r /\ w = v /\ s2 = s)
        BY <1>3, <2>1
    <2>3. route'[q][w][s2] = "proposed"
        BY <1>3, <2>1, <2>2 DEF TypeOK
    <2> QED BY <1>3, <2>1, <2>3
<1>4. ASSUME NEW r \in Runs, NEW v \in Vehicles, NEW s \in Slots, ApproveRoute(r, v, s)
      PROVE  PlannedIsOnOffer'
    <2>1. \A o \in Orders : status'[o] = "planned" =>
             status[o] = "planned" /\ <<o, v>> \notin riding[r]
        BY <1>4 DEF ApproveRoute, SetStatus, WithStatus, CarriedBy
    <2>2. route' = [route EXCEPT ![r][v][s] = "approved"] /\ riding' = riding
        BY <1>4 DEF ApproveRoute, MoveRoute
    <2> QED BY <1>3, <2>1, <2>2
<1>5. ASSUME NEW r \in Runs, NEW v \in Vehicles, NEW s \in Slots,
             UnlockRoute(r, v, s) \/ DepartRoute(r, v, s) \/ CompleteRoute(r, v, s)
      PROVE  PlannedIsOnOffer'
    <2>1. \A o \in Orders : status'[o] = "planned" => status[o] = "planned"
        BY <1>5 DEF UnlockRoute, DepartRoute, CompleteRoute, SetStatus
    <2>2. route[r][v][s] # "proposed" /\ riding' = riding
        BY <1>5 DEF UnlockRoute, DepartRoute, CompleteRoute, MoveRoute
    <2>3. PICK st : route' = [route EXCEPT ![r][v][s] = st]
        BY <1>5 DEF UnlockRoute, DepartRoute, CompleteRoute, MoveRoute
    <2> QED BY <1>3, <2>1, <2>2, <2>3
<1>6. ASSUME NEW r \in Runs, NEW moved \in SUBSET Rows(r), NEW st,
             route' = [route EXCEPT ![r] = MoveRows(r, moved, st)], riding' = riding,
             \A o \in Orders : status'[o] = "planned" => status[o] = "planned",
             \A o \in Orders, x \in moved :
                status'[o] = "planned" /\ <<o, x[1]>> \in riding[r]
                   => route[r][x[1]][x[2]] # "proposed"
      PROVE  PlannedIsOnOffer'
    <2> SUFFICES ASSUME NEW o \in Orders, status'[o] = "planned"
                 PROVE  \E q \in Runs, w \in Vehicles, s2 \in Slots :
                           <<o, w>> \in riding'[q] /\ route'[q][w][s2] = "proposed"
        BY DEF PlannedIsOnOffer
    <2>1. PICK q \in Runs, w \in Vehicles, s2 \in Slots :
             <<o, w>> \in riding[q] /\ route[q][w][s2] = "proposed"
        BY <1>6 DEF PlannedIsOnOffer
    <2>2. CASE q # r
        BY <1>6, <2>1, <2>2 DEF TypeOK
    <2>3. CASE q = r
        <3>1. <<w, s2>> \notin moved
            <4>1. <<w, s2>>[1] = w /\ <<w, s2>>[2] = s2
                OBVIOUS
            <4> QED BY <1>6, <2>1, <2>3, <4>1
        <3>2. route'[r][w][s2] = "proposed"
            BY <1>6, <2>1, <2>3, <3>1 DEF MoveRows, TypeOK
        <3> QED BY <1>6, <2>1, <2>3, <3>2
    <2> QED BY <2>2, <2>3
<1>7. ASSUME NEW r \in Runs, NEW send \in SUBSET Rows(r), ApprovePlan(r, send)
      PROVE  PlannedIsOnOffer'
    <2> DEFINE codes == {v \in Vehicles : \E s \in Slots :
                            <<v, s>> \in send /\ route[r][v][s] # "approved"}
               moved == {x \in Rows(r) : x[1] \in codes}
    <2>1. route' = [route EXCEPT ![r] = MoveRows(r, moved, "approved")] /\ riding' = riding
        BY <1>7 DEF ApprovePlan
    <2>2. \A o \in Orders : status'[o] = "planned" =>
             status[o] = "planned" /\ \A v \in codes : <<o, v>> \notin riding[r]
        BY <1>7 DEF ApprovePlan, SetStatus, WithStatus
    <2> HIDE DEF codes
    <2>3. \A o \in Orders, x \in moved :
             status'[o] = "planned" => <<o, x[1]>> \notin riding[r]
        BY <2>2
    <2>4. moved \in SUBSET Rows(r)
        OBVIOUS
    <2> HIDE DEF moved
    <2> QED BY <1>6, <2>1, <2>2, <2>3, <2>4
<1>8. ASSUME NEW r \in Runs, UnlockPlan(r)
      PROVE  PlannedIsOnOffer'
    <2> DEFINE moved == {x \in Rows(r) : route[r][x[1]][x[2]] = "approved"}
    <2>1. route' = [route EXCEPT ![r] = MoveRows(r, moved, "proposed")] /\ riding' = riding
        BY <1>8 DEF UnlockPlan
    <2>2. \A o \in Orders : status'[o] = "planned" => status[o] = "planned"
        BY <1>8 DEF UnlockPlan, SetStatus
    <2>3. moved \in SUBSET Rows(r) /\ \A x \in moved : route[r][x[1]][x[2]] # "proposed"
        OBVIOUS
    <2> HIDE DEF moved
    <2> QED BY <1>6, <2>1, <2>2, <2>3
<1>9. ASSUME NEW r \in Runs, DeletePlan(r)
      PROVE  PlannedIsOnOffer'
    <2> SUFFICES ASSUME NEW o \in Orders, status'[o] = "planned"
                 PROVE  \E q \in Runs, w \in Vehicles, s2 \in Slots :
                           <<o, w>> \in riding'[q] /\ route'[q][w][s2] = "proposed"
        BY DEF PlannedIsOnOffer
    <2>1. status[o] = "planned" /\ o \notin Carried(r)
        BY <1>9 DEF DeletePlan, SetStatus, WithStatus
    <2>2. PICK q \in Runs, w \in Vehicles, s2 \in Slots :
             <<o, w>> \in riding[q] /\ route[q][w][s2] = "proposed"
        BY <2>1 DEF PlannedIsOnOffer
    <2>3. q # r
        BY <2>1, <2>2 DEF Carried
    <2> QED BY <1>9, <2>2, <2>3 DEF DeletePlan, TypeOK
<1>10. CASE Warehouse
    BY <1>1, <1>10 DEF Warehouse, Enqueue, Dequeue, SetHeld, ImportOrder, AcceptBuffer,
                       DeleteOrders, SaveVehicle, SetStatus, TypeOK
<1>11. CASE UNCHANGED vars
    BY <1>1, <1>11 DEF vars
<1>12. CASE Generate
    BY <1>1, <1>12 DEF Generate, CreateEmptyPlan
<1> QED BY <1>2, <1>4, <1>5, <1>7, <1>8, <1>9, <1>10, <1>11, <1>12 DEF Next, Dispatch

\* Without overtaken generations a PLANNED order always rides a proposed route,
\* whatever is approved, unlocked, generated again or deleted around it.
THEOREM PlannedIsAlwaysOnOffer ==
    ASSUME Users = {} PROVE Spec => []PlannedIsOnOffer
<1>1. Init => PlannedIsOnOffer
    BY DEF Init, PlannedIsOnOffer
<1>2. TypeOK /\ PlanStatusSound /\ OneRoutePerVehicle /\ PlannedIsOnOffer /\ [Next]_vars
         => PlannedIsOnOffer'
    BY OfferStep
<1>3. Spec => []OneRoutePerVehicle
    BY OneRouteAlwaysPerVehicle
<1> QED BY <1>1, <1>2, <1>3, TypeCorrect, PlanStatusAlwaysSound, PTL DEF Spec

LEMMA DeliveredStep ==
    ASSUME Users = {}, TypeOK, PlanStatusSound, [Next]_vars,
           NEW o \in Orders, status[o] = "delivered"
    PROVE  status'[o] \in {"delivered", "absent"}
<1>1. ASSUME NEW t \in Runs \cup {NoRun}, RunPlan(t)
      PROVE  status'[o] = "delivered"
    <2>0. PICK r \in Runs : \E ans : InTime(r, ans)
        BY <1>1, SaveInTime
    <2>1. PICK ans : InTime(r, ans)
        BY <2>0
    <2>2. o \notin Placed(ans) /\ o \notin ResetOnSave(r)
        BY <2>1 DEF InTime, ResetOnSave, WithStatus
    <2>3. status' = StatusAfterSave(ResetOnSave(r), ans)
        BY <2>1 DEF InTime, Saved
    <2> QED BY <2>2, <2>3 DEF StatusAfterSave
<1>2. CASE Dispatch
    <2>1. ASSUME NEW S, NEW st, status' = SetStatus(S, st),
                 st \in {"delivered", "absent"} \/ o \notin S
          PROVE  status'[o] \in {"delivered", "absent"}
        BY <2>1 DEF SetStatus
    <2>2. \A S, sts : "delivered" \notin sts => o \notin WithStatus(S, sts)
        BY DEF WithStatus
    <2>3. ASSUME NEW r \in Runs, NEW v \in Vehicles, NEW s \in Slots,
                 ApproveRoute(r, v, s) \/ UnlockRoute(r, v, s) \/ DepartRoute(r, v, s)
                 \/ CompleteRoute(r, v, s)
          PROVE  status'[o] \in {"delivered", "absent"}
        BY <2>1, <2>2, <2>3 DEF ApproveRoute, UnlockRoute, DepartRoute, CompleteRoute
    <2>4. ASSUME NEW r \in Runs, NEW send \in SUBSET Rows(r), ApprovePlan(r, send)
          PROVE  status'[o] \in {"delivered", "absent"}
        BY <2>1, <2>2, <2>4 DEF ApprovePlan
    <2>5. ASSUME NEW r \in Runs, UnlockPlan(r) \/ DeletePlan(r)
          PROVE  status'[o] \in {"delivered", "absent"}
        BY <2>1, <2>2, <2>5 DEF UnlockPlan, DeletePlan
    <2> QED BY <1>2, <2>3, <2>4, <2>5 DEF Dispatch
<1>3. CASE Warehouse
    <2>1. ASSUME NEW p \in Orders, ImportOrder(p)
          PROVE  status'[o] = "delivered"
        <3>1. p # o
            BY <2>1 DEF ImportOrder, IsNextOrder, Orders
        <3> QED BY <2>1, <3>1 DEF ImportOrder, TypeOK
    <2>2. ASSUME NEW S \in SUBSET Orders, DeleteOrders(S)
          PROVE  status'[o] \in {"delivered", "absent"}
        BY <2>2 DEF DeleteOrders, SetStatus
    <2> QED BY <1>3, <2>1, <2>2 DEF Warehouse, Enqueue, Dequeue, SetHeld, AcceptBuffer, SaveVehicle
<1>4. CASE Generate
    BY <1>4 DEF Generate, CreateEmptyPlan
<1>5. CASE UNCHANGED vars
    BY <1>5 DEF vars
<1> QED BY <1>1, <1>2, <1>3, <1>4, <1>5 DEF Next

\* Without overtaken generations no plan takes a delivered order back.
THEOREM DeliveredIsAlwaysFinal ==
    ASSUME Users = {} PROVE Spec => DeliveredIsFinal
<1>1. TypeOK /\ PlanStatusSound /\ [Next]_vars =>
        [\A o \in Orders : status[o] = "delivered" =>
            status'[o] \in {"delivered", "absent"}]_vars
    BY DeliveredStep
<1> QED BY <1>1, TypeCorrect, PlanStatusAlwaysSound, PTL DEF Spec, DeliveredIsFinal
=============================================================================
