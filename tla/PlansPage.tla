------------------------------ MODULE PlansPage -----------------------------
(***************************************************************************)
(* The planning page, the departures board of the warehouse page and the   *)
(* dashboard, open in several tabs of one browser.  Tabs share one piece   *)
(* of storage, the active run.  A tab remembers besides which run its      *)
(* context was read for, and the rows of its grid come from a run as well: *)
(* three ideas of "the" run that every click has to choose between.        *)
(*                                                                         *)
(* A handler is a coroutine.  While it waits for a database job or for the *)
(* browser, other handlers run; the job and what the handler does with its *)
(* result, up to the next await, are one step.  What a job does in the     *)
(* database is abstracted to the routes of a run: the module Planning has  *)
(* the whole of it.                                                        *)
(***************************************************************************)
EXTENDS Integers, FiniteSets

CONSTANTS
    PlanTabs,      \* tabs showing the planning page
    WarehouseTabs, \* tabs showing the warehouse page
    DashTabs,      \* tabs showing the dashboard
    NoTab,         \* the tab of a handler that is not under way
    Handlers,      \* handlers that may be under way at once
    Patient,       \* TRUE: no click while the tab's last one is being handled
    Vehicles,
    MaxRun         \* bound: run ids are 1..MaxRun

Tabs == PlanTabs \cup WarehouseTabs \cup DashTabs

ASSUME TabsAssumption ==
    /\ PlanTabs \cap WarehouseTabs = {} /\ DashTabs \cap (PlanTabs \cup WarehouseTabs) = {}
    /\ NoTab \notin Tabs
ASSUME BoundAssumption == MaxRun \in Nat

Runs == 1..MaxRun
None == 0

Closed == {"approved", "in_transit", "completed"}
RouteStatus == {"none", "proposed"} \cup Closed

VARIABLES
    plan,    \* per run, plan_status; "none" if there is no such run
    route,   \* per run and vehicle, the status of its route
    stored,  \* app.storage.user["active_run_id"]
    page,    \* per tab, the run of its context and the rows of its grid
    handler  \* handlers under way

database == <<plan, route>>
vars == <<plan, route, stored, page, handler>>

Page == [ctx : Runs \cup {None},          \* run of the context
         shown : Runs \cup {None},        \* run of the rows
         rows : [Vehicles -> {"none", "any", "approved", "in_transit"}],
         doubt : SUBSET Runs]             \* history: deleted since the context was
                                          \* read; all, if the rows were not read

Handler == [op : {"none", "open", "context", "view", "select", "routes", "resolve",
                  "decide", "job", "generate", "solve", "saved", "switch"},
            tab : Tabs \cup {NoTab},
            act : {"", "approve", "unlock", "depart", "complete", "delete", "generate"},
            run : Runs \cup {None},
            todo : SUBSET Vehicles,       \* selected vehicles not handled yet
            hit : BOOLEAN,                \* some of them succeeded
            made : Runs \cup {None}]      \* the run this handler has generated

NoRoutes == [v \in Vehicles |-> "none"]
NoPage == [ctx |-> None, shown |-> None, rows |-> NoRoutes, doubt |-> {}]

Idle == [op |-> "none", tab |-> NoTab, act |-> "", run |-> None, todo |-> {},
         hit |-> FALSE, made |-> None]

In(t, op) == [Idle EXCEPT !.tab = t, !.op = op]

-----------------------------------------------------------------------------
(* The database, as the jobs find and leave it. *)

Existing(p) == {r \in Runs : p[r] # "none"}

Latest(p) ==
    IF Existing(p) = {} THEN None
    ELSE CHOOSE r \in Existing(p) : \A q \in Existing(p) : q <= r

\* resolve_run_id, and _resolve_run of the plan view.
Resolved(preferred) == IF preferred \in Existing(plan) THEN preferred ELSE Latest(plan)

Statuses(rt) == {rt[v] : v \in Vehicles} \ {"none"}

Synced(rt) ==
    IF Statuses(rt) # {} /\ Statuses(rt) \subseteq Closed THEN "approved"
    ELSE IF Statuses(rt) \cap Closed # {} THEN "partial"
    ELSE "draft"

Before(act) ==
    CASE act = "approve" -> "proposed"
      [] act = "unlock" -> "approved"
      [] act = "depart" -> "approved"
      [] act = "complete" -> "in_transit"

After(act) ==
    CASE act = "approve" -> "approved"
      [] act = "unlock" -> "proposed"
      [] act = "depart" -> "in_transit"
      [] act = "complete" -> "completed"

RouteActions == {"approve", "unlock", "depart", "complete"}

\* approve_route, unlock_route, depart_route, complete_route.
CanMove(act, r, v) == r \in Existing(plan) /\ route[r][v] = Before(act)

WriteRoutes(r, rt) ==
    /\ route' = [route EXCEPT ![r] = rt]
    /\ plan' = [plan EXCEPT ![r] = Synced(rt)]

MoveRoute(act, r, v) ==
    /\ CanMove(act, r, v)
    /\ WriteRoutes(r, [route[r] EXCEPT ![v] = After(act)])

\* approve_plan approves all routes worth sending, whatever their status;
\* approving a run without routes closes it.
ApprovePlan(r) ==
    /\ plan[r] \in {"draft", "partial"}
    /\ \E send \in SUBSET {v \in Vehicles : route[r][v] \notin {"none", "approved"}} :
        LET rt == [v \in Vehicles |-> IF v \in send THEN "approved" ELSE route[r][v]]
            held == \E v \in Vehicles : rt[v] = "proposed"
        IN  /\ send # {} \/ ~held
            /\ route' = [route EXCEPT ![r] = rt]
            /\ plan' = [plan EXCEPT ![r] = IF held THEN Synced(rt) ELSE "approved"]

UnlockPlan(r) ==
    /\ plan[r] \in {"approved", "partial"}
    /\ "approved" \in Statuses(route[r])
    /\ WriteRoutes(r, [v \in Vehicles |->
                          IF route[r][v] = "approved" THEN "proposed" ELSE route[r][v]])

CanDelete(r) == r \in Existing(plan) /\ "completed" \notin Statuses(route[r])

\* Saving a plan: into the run it was prepared for if that is still open,
\* keeping its closed routes, or as a new run with the next id.
SaveInto(r, used) ==
    /\ plan[r] \in {"draft", "partial"}
    /\ route' = [route EXCEPT ![r] = [v \in Vehicles |->
                    IF route[r][v] \in Closed THEN route[r][v]
                    ELSE IF v \in used THEN "proposed" ELSE "none"]]
    /\ UNCHANGED plan

SaveNew(r, used) ==
    /\ r = Latest(plan) + 1
    /\ r \in Runs
    /\ plan' = [plan EXCEPT ![r] = "draft"]
    /\ route' = [route EXCEPT ![r] = [v \in Vehicles |->
                    IF v \in used THEN "proposed" ELSE "none"]]

-----------------------------------------------------------------------------
(* Handlers: bookkeeping. *)

Busy(t) == \E h \in Handlers : handler[h].op # "none" /\ handler[h].tab = t

Start(h, t) ==
    /\ handler[h].op = "none"
    /\ Patient => ~Busy(t)

Go(h, next) == handler' = [handler EXCEPT ![h] = next]
End(h) == Go(h, Idle)

\* Every refresh of a planning tab begins with what is stored at that moment.
Refresh(h, preferred) ==
    Go(h, [In(handler[h].tab, "context") EXCEPT !.run = preferred, !.made = handler[h].made])

\* Faulty variant: rows are asked for by what is stored when they are.
ViewOfStored(resolved) == stored

ViewOf(resolved) == resolved

SetPage(t, p) == page' = [page EXCEPT ![t] = p]

\* Faulty variant: the routes of a deleted run stay.
DeletingRunOnly(r) ==
    /\ plan' = [plan EXCEPT ![r] = "none"]
    /\ page' = [t \in Tabs |-> [page[t] EXCEPT !.doubt = @ \cup {r}]]
    /\ UNCHANGED route

\* A deleted run is noted in the history of every tab.
Deleting(r) ==
    /\ plan' = [plan EXCEPT ![r] = "none"]
    /\ route' = [route EXCEPT ![r] = NoRoutes]
    /\ page' = [t \in Tabs |-> [page[t] EXCEPT !.doubt = @ \cup {r}]]

-----------------------------------------------------------------------------
(* Showing a planning tab. *)

\* Opening the page, or loading it again: the stored run is ignored.
OpenPage(h, t) ==
    /\ Start(h, t)
    /\ t \in PlanTabs
    /\ Go(h, In(t, "open"))
    /\ SetPage(t, NoPage)
    /\ UNCHANGED <<database, stored>>

Opened(h) ==
    LET t == handler[h].tab IN
    /\ handler[h].op = "open"
    /\ SetPage(t, [NoPage EXCEPT !.ctx = Latest(plan)])
    /\ stored' = Latest(plan)
    /\ Refresh(h, Latest(plan))
    /\ UNCHANGED database

ClickRefresh(h, t) ==
    /\ Start(h, t)
    /\ t \in PlanTabs
    /\ Go(h, [In(t, "context") EXCEPT !.run = stored])
    /\ UNCHANGED <<database, stored, page>>

\* The list of runs may be out of date either way.
SelectRun(h, t, r) ==
    /\ Start(h, t)
    /\ t \in PlanTabs
    /\ r # page[t].ctx
    /\ stored' = r
    /\ Go(h, [In(t, "context") EXCEPT !.run = r])
    /\ UNCHANGED <<database, page>>

\* refresh_plan_view, up to its second await: the context is exchanged ...
LoadContext(h) ==
    LET t == handler[h].tab
        resolved == Resolved(handler[h].run)
    IN  /\ handler[h].op = "context"
        /\ t \in PlanTabs
        /\ SetPage(t, [page[t] EXCEPT !.ctx = resolved, !.doubt = {}])
        /\ stored' = resolved
        /\ Go(h, [handler[h] EXCEPT !.op = "view", !.run = resolved])
        /\ UNCHANGED database

\* ... before the rows are.  If the run has gone, the latest one is shown.
LoadView(h) ==
    LET t == handler[h].tab
        r == Resolved(ViewOf(handler[h].run))
    IN  /\ handler[h].op = "view"
        /\ SetPage(t, [page[t] EXCEPT !.shown = r,
                                      !.rows = [v \in Vehicles |->
                                                  IF r # None /\ route[r][v] # "none"
                                                  THEN "any" ELSE "none"]])
        /\ End(h)
        /\ UNCHANGED <<database, stored>>

\* A job raises: the handler ends there and the tab stays as it is, also with
\* the context of one run and the rows of another.
Raise(h) ==
    LET t == handler[h].tab IN
    /\ handler[h].op \in {"open", "context", "view", "resolve"}
    /\ IF handler[h].op = "view" THEN SetPage(t, [page[t] EXCEPT !.doubt = Runs])
       ELSE UNCHANGED page
    /\ End(h)
    /\ UNCHANGED <<database, stored>>

-----------------------------------------------------------------------------
(* Routes selected in the grid of a planning tab or of the departures board. *)

\* Faulty variant: the stored run, as on the warehouse page.
RunInStorage(t) == stored

RunOfClick(t) == page[t].ctx

\* on_approve_route and its like take the run of the context, then ask the
\* browser which rows are selected.  The dashboard can only close routes.
ClickRoutes(h, t, act) ==
    /\ Start(h, t)
    /\ t \in PlanTabs \/ (t \in DashTabs /\ act = "complete")
    /\ RunOfClick(t) # None
    /\ Go(h, [In(t, "select") EXCEPT !.act = act, !.run = RunOfClick(t)])
    /\ UNCHANGED <<database, stored, page>>

\* The warehouse page sends off and closes routes: it asks for the selection
\* first and then takes the run from the storage.
ClickTransit(h, t, act) ==
    /\ Start(h, t)
    /\ t \in WarehouseTabs
    /\ act \in {"depart", "complete"}
    /\ Go(h, [In(t, "select") EXCEPT !.act = act])
    /\ UNCHANGED <<database, stored, page>>

Selectable(h) ==
    LET t == handler[h].tab IN
    IF t \in PlanTabs THEN {v \in Vehicles : page[t].rows[v] # "none"}
    ELSE {v \in Vehicles : page[t].rows[v] = Before(handler[h].act)}

Selected(h, S) ==
    LET t == handler[h].tab
        run == IF t \in WarehouseTabs THEN stored ELSE handler[h].run
    IN  /\ handler[h].op = "select"
        /\ S \subseteq Selectable(h)
        /\ IF S = {} \/ run = None THEN End(h)
           ELSE Go(h, [handler[h] EXCEPT !.op = "routes", !.todo = S, !.run = run])
        /\ UNCHANGED <<database, stored, page>>

\* One job per selected vehicle; one that fails does not stop the others.
NextRoute(h, v) ==
    /\ handler[h].op = "routes"
    /\ v \in handler[h].todo
    /\ \/ /\ MoveRoute(handler[h].act, handler[h].run, v)
          /\ Go(h, [handler[h] EXCEPT !.todo = @ \ {v}, !.hit = TRUE])
       \/ /\ Go(h, [handler[h] EXCEPT !.todo = @ \ {v}])
          /\ UNCHANGED database
    /\ UNCHANGED <<stored, page>>

\* Only the warehouse page is loaded again when nothing succeeded.
RoutesDone(h) ==
    /\ handler[h].op = "routes"
    /\ handler[h].todo = {}
    /\ IF handler[h].hit \/ handler[h].tab \in WarehouseTabs THEN Refresh(h, stored) ELSE End(h)
    /\ UNCHANGED <<database, stored, page>>

\* The warehouse page is loaded for the stored run, or for the latest.
ClickRefreshWarehouse(h, t) ==
    /\ Start(h, t)
    /\ t \in WarehouseTabs
    /\ Go(h, [In(t, "context") EXCEPT !.run = stored])
    /\ UNCHANGED <<database, stored, page>>

LoadWarehouse(h) ==
    LET t == handler[h].tab
        r == Resolved(handler[h].run)
        board == [v \in Vehicles |->
                    IF r # None /\ route[r][v] \in {"approved", "in_transit"}
                    THEN route[r][v] ELSE "none"]
    IN  /\ handler[h].op = "context"
        /\ t \in WarehouseTabs
        /\ SetPage(t, [NoPage EXCEPT !.shown = r, !.rows = board])
        /\ End(h)
        /\ UNCHANGED <<database, stored>>

\* The dashboard is loaded for the latest run, which becomes the active one.
OpenDashboard(h, t) ==
    /\ Start(h, t)
    /\ t \in DashTabs
    /\ Go(h, In(t, "context"))
    /\ SetPage(t, NoPage)
    /\ UNCHANGED <<database, stored>>

LoadDashboard(h) ==
    LET t == handler[h].tab
        r == Latest(plan)
        road == [v \in Vehicles |->
                   IF r # None /\ route[r][v] = "in_transit" THEN "in_transit" ELSE "none"]
    IN  /\ handler[h].op = "context"
        /\ t \in DashTabs
        /\ stored' = r
        /\ SetPage(t, [NoPage EXCEPT !.ctx = r, !.shown = r, !.rows = road])
        /\ End(h)
        /\ UNCHANGED database

-----------------------------------------------------------------------------
(* Whole runs. *)

\* on_approve, on_unlock, on_delete_plan and on_generate read the context
\* again, for the stored run, and go by that.
ClickPlan(h, t, act) ==
    /\ Start(h, t)
    /\ t \in PlanTabs
    /\ Go(h, [In(t, "resolve") EXCEPT !.act = act, !.run = stored])
    /\ UNCHANGED <<database, stored, page>>

Accepts(act, r) ==
    CASE act = "approve" -> r # None /\ plan[r] \in {"draft", "partial"}
      [] act = "unlock" -> r # None /\ plan[r] \in {"approved", "partial"}
      [] act = "delete" -> r # None
      [] act = "generate" -> TRUE

\* Deleting waits for the dialog.  Generating may find nothing to do.
ResolvePlan(h) ==
    LET r == Resolved(handler[h].run)
        act == handler[h].act
    IN  /\ handler[h].op = "resolve"
        /\ \/ /\ Accepts(act, r)
              /\ Go(h, [handler[h] EXCEPT !.run = r,
                           !.op = IF act = "delete" THEN "decide"
                                  ELSE IF act = "generate" THEN "generate" ELSE "job"])
           \/ /\ act = "generate" \/ ~Accepts(act, r)
              /\ End(h)
        /\ UNCHANGED <<database, stored, page>>

PlanJob(h) ==
    /\ handler[h].op = "job"
    /\ IF handler[h].act = "approve" THEN ApprovePlan(handler[h].run)
       ELSE UnlockPlan(handler[h].run)
    /\ Refresh(h, stored)
    /\ UNCHANGED <<stored, page>>

\* The dialog names the run.
ConfirmDelete(h) ==
    /\ handler[h].op = "decide"
    /\ CanDelete(handler[h].run)
    /\ Deleting(handler[h].run)
    /\ Go(h, [handler[h] EXCEPT !.op = "switch", !.run = Latest(plan')])
    /\ UNCHANGED stored

Cancel(h) ==
    /\ handler[h].op = "decide"
    /\ End(h)
    /\ UNCHANGED <<database, stored, page>>

\* The run left, or the new one, becomes the active one.
SwitchRun(h) ==
    /\ handler[h].op = "switch"
    /\ stored' = handler[h].run
    /\ Refresh(h, handler[h].run)
    /\ UNCHANGED <<database, page>>

\* prepare_plan_request: append to the run if it is open, else begin a new one.
PrepareGenerate(h) ==
    LET r == handler[h].run
        open == r # None /\ plan[r] \in {"draft", "partial"}
    IN  /\ handler[h].op = "generate"
        /\ Go(h, [handler[h] EXCEPT !.op = "solve", !.run = IF open THEN r ELSE None])
        /\ UNCHANGED <<database, stored, page>>

PersistGenerate(h) ==
    /\ handler[h].op = "solve"
    /\ \E used \in SUBSET Vehicles, r \in Runs :
        /\ IF handler[h].run = None THEN SaveNew(r, used)
           ELSE r = handler[h].run /\ SaveInto(r, used)
        /\ Go(h, [handler[h] EXCEPT !.op = "saved", !.made = r])
    /\ UNCHANGED <<stored, page>>

\* Faulty variant: the page is refreshed for whatever is stored.
AfterGenerateStored(h) ==
    /\ handler[h].op = "saved"
    /\ Refresh(h, stored)
    /\ UNCHANGED <<database, stored, page>>

\* Some time after the commit the run becomes the active one.
AfterGenerate(h) ==
    /\ handler[h].op = "saved"
    /\ stored' = handler[h].made
    /\ Refresh(h, handler[h].made)
    /\ UNCHANGED <<database, page>>

\* The job is refused or fails, at any stage: the tab is refreshed.
Refused(h) ==
    /\ handler[h].op \in {"job", "generate", "solve", "decide"}
    /\ Refresh(h, stored)
    /\ UNCHANGED <<database, stored, page>>

\* on_new_plan: an empty run.
NewPlan(h, t) ==
    /\ Start(h, t)
    /\ t \in PlanTabs
    /\ \E r \in Runs :
        /\ SaveNew(r, {})
        /\ Go(h, [In(t, "switch") EXCEPT !.run = r])
    /\ UNCHANGED <<stored, page>>

-----------------------------------------------------------------------------
(* Other pages of this browser, and other users. *)

\* The dashboard makes the latest run the active one, the map the run shown.
OtherPage(r) ==
    /\ r \in Existing(plan) \cup {Latest(plan)}
    /\ stored' = r
    /\ UNCHANGED <<database, page, handler>>

OtherUser ==
    /\ \/ /\ \/ \E r \in Runs, v \in Vehicles, act \in RouteActions : MoveRoute(act, r, v)
             \/ \E r \in Runs, used \in SUBSET Vehicles : SaveNew(r, used) \/ SaveInto(r, used)
             \/ \E r \in Runs : ApprovePlan(r) \/ UnlockPlan(r)
          /\ UNCHANGED page
       \/ \E r \in Runs : CanDelete(r) /\ Deleting(r)
    /\ UNCHANGED <<stored, handler>>

-----------------------------------------------------------------------------

Init ==
    /\ plan = [r \in Runs |-> "none"]
    /\ route = [r \in Runs |-> NoRoutes]
    /\ stored = None
    /\ page = [t \in Tabs |-> NoPage]
    /\ handler = [h \in Handlers |-> Idle]

Click(h, t) ==
    \/ OpenPage(h, t) \/ ClickRefresh(h, t) \/ ClickRefreshWarehouse(h, t) \/ OpenDashboard(h, t)
    \/ NewPlan(h, t)
    \/ \E r \in Runs : SelectRun(h, t, r)
    \/ \E act \in RouteActions : ClickRoutes(h, t, act) \/ ClickTransit(h, t, act)
    \/ \E act \in {"approve", "unlock", "delete", "generate"} : ClickPlan(h, t, act)

Continue(h) ==
    \/ Opened(h) \/ LoadContext(h) \/ LoadView(h) \/ LoadWarehouse(h) \/ LoadDashboard(h)
    \/ Raise(h)
    \/ \E S \in SUBSET Vehicles : Selected(h, S)
    \/ \E v \in Vehicles : NextRoute(h, v)
    \/ RoutesDone(h) \/ ResolvePlan(h) \/ PlanJob(h) \/ ConfirmDelete(h) \/ Cancel(h)
    \/ SwitchRun(h) \/ PrepareGenerate(h) \/ PersistGenerate(h) \/ AfterGenerate(h)
    \/ Refused(h)

Next ==
    \/ \E h \in Handlers : Continue(h) \/ \E t \in Tabs : Click(h, t)
    \/ \E r \in Runs \cup {None} : OtherPage(r)
    \/ OtherUser

Spec == Init /\ [][Next]_vars
-----------------------------------------------------------------------------
(* Properties. *)

\* The type invariant; a run that is deleted leaves no routes behind.
TypeOK ==
    /\ plan \in [Runs -> {"none", "draft", "partial", "approved"}]
    /\ route \in [Runs -> [Vehicles -> RouteStatus]]
    /\ stored \in Runs \cup {None}
    /\ page \in [Tabs -> Page]
    /\ handler \in [Handlers -> Handler]
    /\ \A r \in Runs : plan[r] = "none" => route[r] = NoRoutes

HitBy(t) ==
    {r \in Runs : \E h \in Handlers :
        /\ handler[h].op = "routes" /\ handler[h].tab = t
        /\ handler'[h] # handler[h]
        /\ route'[r] # route[r]}

\* A route approved, unlocked, sent off or closed in a planning tab or on the
\* dashboard belongs to the run whose rows the dispatcher selected from, whatever
\* other tabs make the active run meanwhile; unless the rows could not be read,
\* or the run has been deleted since (it may by then be another one with its id).
RouteActionsHitShown ==
    [][\A t \in PlanTabs \cup DashTabs : HitBy(t) \subseteq {page[t].shown} \cup page[t].doubt]_vars

\* After generating, the tab goes over to the run that was generated, even if
\* another tab has chosen another run in the minutes in between; unless that
\* run is gone.
GeneratedIsShown ==
    [][\A h \in Handlers :
        handler[h].op = "context" /\ handler[h].made # None /\ handler'[h].op = "view" =>
            \/ page'[handler[h].tab].ctx = handler[h].made
            \/ handler[h].made \notin Existing(plan)]_vars

\* The warehouse page asks to select a route ready for departure and says
\* afterwards that it has left.  But the run is taken from the storage, which
\* another tab may have changed since the board was loaded.
TransitActionsHitShown ==
    [][\A t \in WarehouseTabs : HitBy(t) \subseteq {page[t].shown} \cup page[t].doubt]_vars
=============================================================================
