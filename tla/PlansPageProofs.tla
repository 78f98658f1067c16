--------------------------- MODULE PlansPageProofs ---------------------------
(* What TLAPS proves of PlansPage, for any tabs, handlers, vehicles and runs.  *)
(* The theorems about the clicks on routes take that a tab answers no click    *)
(* while its last one is being handled (Patient).                              *)
EXTENDS PlansPage, SumLemmas

GridTabs == PlanTabs \cup DashTabs

-----------------------------------------------------------------------------
(* The inductive invariant. *)

\* What a handler is at says what it remembers: the tab it is for, what was
\* clicked, and a run where one was needed to get there.
HandlerOK(x) ==
    /\ x.op # "none" => x.tab \in Tabs
    /\ x.op \in {"open", "view"} => x.tab \in PlanTabs
    /\ x.op \in {"select", "routes"} => x.act \in RouteActions
    /\ x.op = "resolve" => x.act \in {"approve", "unlock", "delete", "generate"}
    /\ x.op \in {"job", "routes"} => x.run # None

HandlersOK == \A h \in Handlers : HandlerOK(handler[h])

\* A handler that has generated a run is about to show it.
MadeIsShown(x) ==
    x.made # None => x.op \in {"saved", "context", "view"} /\ (x.op = "context" => x.run = x.made)

MadeAreShown == \A h \in Handlers : MadeIsShown(handler[h])

\* A tab has one handler under way.
OneHandlerPerTab ==
    \A g, h \in Handlers :
        handler[g].op # "none" /\ handler[g].tab = handler[h].tab /\ handler[h].op # "none" => g = h

\* The context of a tab is for the run of its rows.
Agrees(p) == p.ctx \in {None, p.shown} \cup p.doubt \/ p.rows = NoRoutes

Viewing(t) == \E h \in Handlers : handler[h].op = "view" /\ handler[h].tab = t

PagesAgree == \A t \in GridTabs : Viewing(t) \/ Agrees(page[t])

\* A handler that shows or acts on the run of the context has the run of the
\* context; it acts on the run of the rows.
RunAgrees(x) ==
    /\ x.op = "view" =>
          /\ x.run = page[x.tab].ctx
          /\ x.run = None \/ x.run \in Existing(plan) \/ x.run \in page[x.tab].doubt
    /\ x.op = "select" /\ x.tab \in GridTabs => x.run = page[x.tab].ctx /\ x.run # None
    /\ x.op = "routes" /\ x.tab \in GridTabs => x.run \in {page[x.tab].shown} \cup page[x.tab].doubt

RunsAgree == \A h \in Handlers : RunAgrees(handler[h])

Typed == TypeOK /\ HandlersOK
IInv == Typed /\ OneHandlerPerTab /\ PagesAgree /\ RunsAgree

-----------------------------------------------------------------------------
(* The database: runs, and the latest of them. *)

DatabaseOK ==
    /\ plan \in [Runs -> {"none", "draft", "partial", "approved"}]
    /\ route \in [Runs -> [Vehicles -> RouteStatus]]
    /\ \A r \in Runs : plan[r] = "none" => route[r] = NoRoutes

\* No run is deleted.
RunsKept == Existing(plan) \subseteq Existing(plan')

LEMMA NoneIsNoRun == None \notin Runs
BY BoundAssumption DEF None, Runs

LEMMA LatestIsRun ==
    ASSUME NEW p
    PROVE  Latest(p) \in Existing(p) \cup {None} /\ Latest(p) \in Runs \cup {None}
<1> DEFINE R == {q \in Runs \X Runs : q[1] < q[2]}
<1>1. Runs \subseteq Int /\ IsFiniteSet(Runs)
    BY BoundAssumption, FS_Interval DEF Runs
<1>2. \A x, y \in Runs : <<x, y>> \in R <=> x < y
    OBVIOUS
<1> HIDE DEF R
<1>3. IsStrictOrder(R, Runs)
    BY <1>1, <1>2 DEF IsStrictOrder
<1>4. Existing(p) \subseteq Runs
    BY DEF Existing
<1>5. ASSUME Existing(p) # {}
      PROVE  \E r \in Existing(p) : \A q \in Existing(p) : q <= r
    <2>1. PICK r \in Existing(p) : \A q \in Existing(p) : <<r, q>> \notin R
        BY <1>1, <1>3, <1>4, <1>5, LastExists
    <2>2. \A q \in Existing(p) : r \in Int /\ q \in Int /\ ~(r < q)
        BY <1>1, <1>2, <1>4, <2>1
    <2>3. \A q \in Existing(p) : q <= r
        BY <2>2
    <2> QED BY <2>1, <2>3
<1> QED BY <1>4, <1>5 DEF Latest

LEMMA ResolvedIsRun ==
    ASSUME NEW r \in Runs \cup {None}
    PROVE  /\ Resolved(r) \in Runs \cup {None} /\ Resolved(r) \in Existing(plan) \cup {None}
           /\ r \in Existing(plan) => Resolved(r) = r
BY LatestIsRun DEF Resolved

LEMMA SyncedExists == ASSUME NEW rt PROVE Synced(rt) \in {"draft", "partial", "approved"}
BY DEF Synced

LEMMA WriteRoutesOK ==
    ASSUME DatabaseOK, NEW r \in Runs, NEW rt \in [Vehicles -> RouteStatus], WriteRoutes(r, rt)
    PROVE  DatabaseOK' /\ RunsKept
<1>1. /\ route' = [route EXCEPT ![r] = rt]
      /\ plan' = [plan EXCEPT ![r] = Synced(rt)]
      /\ Synced(rt) \in {"draft", "partial", "approved"}
    BY SyncedExists DEF WriteRoutes
<1> QED BY <1>1 DEF DatabaseOK, RunsKept, Existing

LEMMA MoveRouteOK ==
    ASSUME DatabaseOK, NEW act \in RouteActions, NEW r, NEW v \in Vehicles, MoveRoute(act, r, v)
    PROVE  DatabaseOK' /\ RunsKept
<1>1. r \in Runs /\ After(act) \in RouteStatus
    BY DEF MoveRoute, CanMove, Existing, After, RouteActions, RouteStatus, Closed
<1>2. [route[r] EXCEPT ![v] = After(act)] \in [Vehicles -> RouteStatus]
    BY <1>1 DEF DatabaseOK
<1> QED BY <1>1, <1>2, WriteRoutesOK DEF MoveRoute

LEMMA ApprovePlanOK ==
    ASSUME DatabaseOK, NEW r \in Runs, ApprovePlan(r)
    PROVE  DatabaseOK' /\ RunsKept
<1>1. PICK send \in SUBSET Vehicles :
        LET rt == [v \in Vehicles |-> IF v \in send THEN "approved" ELSE route[r][v]]
            held == \E v \in Vehicles : rt[v] = "proposed"
        IN  /\ route' = [route EXCEPT ![r] = rt]
            /\ plan' = [plan EXCEPT ![r] = IF held THEN Synced(rt) ELSE "approved"]
    BY DEF ApprovePlan
<1> DEFINE rt == [v \in Vehicles |-> IF v \in send THEN "approved" ELSE route[r][v]]
<1>2. rt \in [Vehicles -> RouteStatus]
    BY DEF DatabaseOK, RouteStatus, Closed
<1> HIDE DEF rt
<1>3. PICK s \in {"draft", "partial", "approved"} : plan' = [plan EXCEPT ![r] = s]
    BY <1>1, SyncedExists
<1>4. route' = [route EXCEPT ![r] = rt]
    BY <1>1 DEF rt
<1> QED BY <1>2, <1>3, <1>4 DEF DatabaseOK, RunsKept, Existing

LEMMA UnlockPlanOK ==
    ASSUME DatabaseOK, NEW r \in Runs, UnlockPlan(r)
    PROVE  DatabaseOK' /\ RunsKept
<1> DEFINE rt == [v \in Vehicles |-> IF route[r][v] = "approved" THEN "proposed" ELSE route[r][v]]
<1>1. rt \in [Vehicles -> RouteStatus]
    BY DEF DatabaseOK, RouteStatus, Closed
<1>2. WriteRoutes(r, rt)
    BY DEF UnlockPlan
<1> HIDE DEF rt
<1> QED BY <1>1, <1>2, WriteRoutesOK

LEMMA SaveIntoOK ==
    ASSUME DatabaseOK, NEW r \in Runs, NEW used, SaveInto(r, used)
    PROVE  DatabaseOK' /\ RunsKept
<1> DEFINE rt == [v \in Vehicles |-> IF route[r][v] \in Closed THEN route[r][v]
                                     ELSE IF v \in used THEN "proposed" ELSE "none"]
<1>1. rt \in [Vehicles -> RouteStatus]
    BY DEF DatabaseOK, RouteStatus
<1>2. route' = [route EXCEPT ![r] = rt] /\ plan' = plan /\ plan[r] # "none"
    BY DEF SaveInto
<1> HIDE DEF rt
<1> QED BY <1>1, <1>2 DEF DatabaseOK, RunsKept, Existing

LEMMA SaveNewOK ==
    ASSUME DatabaseOK, NEW r, NEW used, SaveNew(r, used)
    PROVE  DatabaseOK' /\ RunsKept
<1> DEFINE rt == [v \in Vehicles |-> IF v \in used THEN "proposed" ELSE "none"]
<1>1. rt \in [Vehicles -> RouteStatus]
    BY DEF RouteStatus
<1>2. r \in Runs /\ route' = [route EXCEPT ![r] = rt] /\ plan' = [plan EXCEPT ![r] = "draft"]
    BY DEF SaveNew
<1> HIDE DEF rt
<1> QED BY <1>1, <1>2 DEF DatabaseOK, RunsKept, Existing

\* Deleting a run takes its routes along, and every tab's history has it.
LEMMA DeletingOK ==
    ASSUME DatabaseOK, page \in [Tabs -> Page], NEW r \in Runs, Deleting(r)
    PROVE  /\ DatabaseOK' /\ page' \in [Tabs -> Page]
           /\ Existing(plan) \subseteq Existing(plan') \cup {r}
           /\ \A t \in Tabs : page'[t] = [page[t] EXCEPT !.doubt = @ \cup {r}]
<1>1. /\ plan' = [plan EXCEPT ![r] = "none"]
      /\ route' = [route EXCEPT ![r] = NoRoutes]
      /\ page' = [t \in Tabs |-> [page[t] EXCEPT !.doubt = @ \cup {r}]]
    BY DEF Deleting
<1>2. NoRoutes \in [Vehicles -> RouteStatus]
    BY DEF NoRoutes, RouteStatus
<1>3. DatabaseOK' /\ Existing(plan) \subseteq Existing(plan') \cup {r}
    BY <1>1, <1>2 DEF DatabaseOK, Existing
<1>4. \A t \in Tabs : [page[t] EXCEPT !.doubt = @ \cup {r}] \in Page
    <2> SUFFICES ASSUME NEW t \in Tabs PROVE [page[t] EXCEPT !.doubt = @ \cup {r}] \in Page
        OBVIOUS
    <2>1. page[t] \in Page
        OBVIOUS
    <2> QED BY <2>1 DEF Page
<1> QED BY <1>1, <1>3, <1>4

-----------------------------------------------------------------------------
(* Handlers: what one does leaves the others alone. *)

OthersKept(h) == \A g \in Handlers : g # h => handler'[g] = handler[g]

LEMMA GoOK ==
    ASSUME Typed, NEW h \in Handlers, NEW x, x \in Handler, HandlerOK(x), Go(h, x)
    PROVE  /\ handler' \in [Handlers -> Handler] /\ HandlersOK'
           /\ handler'[h] = x /\ OthersKept(h)
<1>1. handler \in [Handlers -> Handler] /\ handler' = [handler EXCEPT ![h] = x]
    BY DEF Typed, TypeOK, Go
<1>2. \A g \in Handlers : handler'[g] = IF g = h THEN x ELSE handler[g]
    BY <1>1
<1>3. \A g \in Handlers : HandlerOK(handler'[g])
    BY <1>2 DEF Typed, HandlersOK
<1> QED BY <1>1, <1>2, <1>3 DEF HandlersOK, HandlerOK, OthersKept

\* A handler at op for tab t that has not generated a run.
At(x, op, t, act, r) ==
    /\ x \in Handler
    /\ x.op = op /\ x.tab = t /\ x.act = act /\ x.run = r /\ x.made = None

LEMMA InOK ==
    ASSUME NEW t \in Tabs, NEW op \in {"open", "context", "select", "resolve", "switch"},
           NEW r \in Runs \cup {None},
           NEW act \in {"", "approve", "unlock", "depart", "complete", "delete", "generate"}
    PROVE  /\ At(In(t, op), op, t, "", None)
           /\ At([In(t, op) EXCEPT !.run = r], op, t, "", r)
           /\ At([In(t, op) EXCEPT !.act = act], op, t, act, None)
           /\ At([In(t, op) EXCEPT !.act = act, !.run = r], op, t, act, r)
<1>1. /\ Idle \in Handler /\ Idle.act = "" /\ Idle.run = None /\ Idle.made = None
    BY DEF Idle, Handler, None
<1>2. At(In(t, op), op, t, "", None)
    BY <1>1 DEF In, At, Handler
<1> DEFINE x == In(t, op)
<1> HIDE DEF x
<1>3. /\ At([x EXCEPT !.run = r], op, t, "", r)
      /\ At([x EXCEPT !.act = act], op, t, act, None)
    BY <1>2 DEF x, At, Handler
<1>4. At([x EXCEPT !.act = act, !.run = r], op, t, act, r)
    BY <1>2 DEF x, At, Handler
<1> QED BY <1>2, <1>3, <1>4 DEF x

\* A handler that ends.
LEMMA EndOK ==
    ASSUME Typed, NEW h \in Handlers, End(h)
    PROVE  /\ handler' \in [Handlers -> Handler] /\ HandlersOK'
           /\ handler'[h] = Idle /\ OthersKept(h)
<1>1. Idle \in Handler /\ HandlerOK(Idle)
    BY DEF Idle, Handler, HandlerOK, None
<1> QED BY <1>1, GoOK DEF End

\* A handler that refreshes its tab.
LEMMA RefreshOK ==
    ASSUME Typed, NEW h \in Handlers, handler[h].op # "none", NEW r \in Runs \cup {None},
           Refresh(h, r)
    PROVE  /\ handler' \in [Handlers -> Handler] /\ HandlersOK' /\ OthersKept(h)
           /\ handler'[h].op = "context" /\ handler'[h].tab = handler[h].tab
           /\ handler'[h].run = r /\ handler'[h].made = handler[h].made
<1> DEFINE y == In(handler[h].tab, "context")
           m == handler[h].made
           x == [y EXCEPT !.run = r, !.made = m]
<1>1. Go(h, x)
    BY DEF Refresh
<1>2. handler[h].tab \in Tabs /\ m \in Runs \cup {None}
    BY DEF Typed, TypeOK, HandlersOK, HandlerOK, Handler
<1>3. At(y, "context", handler[h].tab, "", None)
    BY <1>2, InOK DEF None
<1> HIDE DEF y, m
<1>4. x \in Handler /\ x.op = "context" /\ x.tab = y.tab /\ x.run = r /\ x.made = m
    BY <1>2, <1>3 DEF At, Handler
<1> HIDE DEF x
<1>5. HandlerOK(x)
    BY <1>2, <1>3, <1>4 DEF At, HandlerOK
<1>6. /\ handler' \in [Handlers -> Handler] /\ HandlersOK' /\ OthersKept(h)
      /\ handler'[h] = x
    BY <1>1, <1>4, <1>5, GoOK
<1> QED BY <1>3, <1>4, <1>6 DEF At, m

\* A handler that begins, at op for tab t.
Begins(h, t, op) ==
    /\ handler[h].op = "none"
    /\ handler'[h].op = op /\ handler'[h].tab = t /\ handler'[h].made = None
    /\ Patient => ~Busy(t)
    /\ OthersKept(h)

LEMMA BeginOK ==
    ASSUME Typed, NEW h \in Handlers, NEW t \in Tabs, Start(h, t),
           NEW op \in {"open", "context", "select", "resolve", "switch"},
           op = "open" => t \in PlanTabs,
           NEW act, op = "select" => act \in RouteActions,
           op = "resolve" => act \in {"approve", "unlock", "delete", "generate"},
           NEW r, NEW x, At(x, op, t, act, r), Go(h, x)
    PROVE  /\ handler' \in [Handlers -> Handler] /\ HandlersOK' /\ Begins(h, t, op)
           /\ handler'[h].run = r
<1>1. x \in Handler /\ HandlerOK(x)
    BY DEF At, HandlerOK
<1>2. x.op = op /\ x.tab = t /\ x.run = r /\ x.made = None
    BY DEF At
<1>3. /\ handler' \in [Handlers -> Handler] /\ HandlersOK' /\ OthersKept(h)
      /\ handler'[h] = x
    BY <1>1, GoOK
<1>4. handler[h].op = "none" /\ (Patient => ~Busy(t))
    BY DEF Start
<1> QED BY <1>2, <1>3, <1>4 DEF Begins

-----------------------------------------------------------------------------
(* The clicks, one lemma for what all of them come to. *)

PageOK == page \in [Tabs -> Page]

LEMMA NoPageOK == ASSUME NEW r \in Runs \cup {None} PROVE [NoPage EXCEPT !.ctx = r] \in Page /\ NoPage \in Page
BY DEF NoPage, Page, NoRoutes, None

LEMMA SetPageOK ==
    ASSUME PageOK, NEW t \in Tabs, NEW p \in Page, SetPage(t, p)
    PROVE  PageOK' /\ page'[t] = p /\ \A u \in Tabs : u # t => page'[u] = page[u]
BY DEF PageOK, SetPage

\* A click begins a handler.  It changes at most which run is active, adds an
\* empty run, or empties the page that is being opened.
ClickShape(h, t) ==
    /\ \E op \in {"open", "context", "select", "resolve", "switch"} : Begins(h, t, op)
    /\ RunsKept
    /\ page' = page \/ (page'[t] = NoPage /\ \A u \in Tabs : u # t => page'[u] = page[u])
    /\ handler'[h].op = "select" /\ t \in GridTabs =>
          handler'[h].run = page[t].ctx /\ page[t].ctx # None

LEMMA ClickOK ==
    ASSUME Typed, NEW h \in Handlers, NEW t \in Tabs, Click(h, t)
    PROVE  Typed' /\ ClickShape(h, t)
<1>0. /\ DatabaseOK /\ PageOK /\ stored \in Runs \cup {None}
      /\ page[t] \in Page /\ page[t].ctx \in Runs \cup {None}
    BY DEF Typed, TypeOK, DatabaseOK, PageOK, Page
<1> SUFFICES /\ DatabaseOK' /\ PageOK' /\ stored' \in Runs \cup {None}
             /\ handler' \in [Handlers -> Handler] /\ HandlersOK' /\ ClickShape(h, t)
    BY DEF Typed, TypeOK, DatabaseOK, PageOK
<1>1. ASSUME UNCHANGED database
      PROVE  DatabaseOK' /\ RunsKept
    BY <1>0, <1>1 DEF database, DatabaseOK, RunsKept, Existing
<1>2. CASE OpenPage(h, t)
    <2>1. /\ Start(h, t) /\ t \in PlanTabs /\ Go(h, In(t, "open")) /\ SetPage(t, NoPage)
          /\ UNCHANGED <<database, stored>>
        BY <1>2 DEF OpenPage
    <2>2. /\ handler' \in [Handlers -> Handler] /\ HandlersOK' /\ Begins(h, t, "open")
        BY <2>1, InOK, BeginOK DEF None
    <2>3. PageOK' /\ page'[t] = NoPage /\ \A u \in Tabs : u # t => page'[u] = page[u]
        BY <1>0, <2>1, NoPageOK, SetPageOK DEF None
    <2> QED BY <1>0, <1>1, <2>1, <2>2, <2>3 DEF ClickShape, Begins
<1>3. CASE ClickRefresh(h, t) \/ ClickRefreshWarehouse(h, t)
    <2>1. /\ Start(h, t) /\ Go(h, [In(t, "context") EXCEPT !.run = stored])
          /\ UNCHANGED <<database, stored, page>>
        BY <1>3 DEF ClickRefresh, ClickRefreshWarehouse
    <2>2. At([In(t, "context") EXCEPT !.run = stored], "context", t, "", stored)
        BY <1>0, InOK DEF RouteActions, None
    <2>3. /\ handler' \in [Handlers -> Handler] /\ HandlersOK' /\ Begins(h, t, "context")
        BY <1>0, <2>1, <2>2, BeginOK
    <2> QED BY <1>0, <1>1, <2>1, <2>3 DEF ClickShape, Begins, PageOK
<1>4. CASE OpenDashboard(h, t)
    <2>1. /\ Start(h, t) /\ Go(h, In(t, "context")) /\ SetPage(t, NoPage)
          /\ UNCHANGED <<database, stored>>
        BY <1>4 DEF OpenDashboard
    <2>2. /\ handler' \in [Handlers -> Handler] /\ HandlersOK' /\ Begins(h, t, "context")
        BY <2>1, InOK, BeginOK DEF None
    <2>3. PageOK' /\ page'[t] = NoPage /\ \A u \in Tabs : u # t => page'[u] = page[u]
        BY <1>0, <2>1, NoPageOK, SetPageOK DEF None
    <2> QED BY <1>0, <1>1, <2>1, <2>2, <2>3 DEF ClickShape, Begins
<1>5. CASE NewPlan(h, t)
    <2>1. PICK r \in Runs : SaveNew(r, {}) /\ Go(h, [In(t, "switch") EXCEPT !.run = r])
        BY <1>5 DEF NewPlan
    <2>2. Start(h, t) /\ UNCHANGED <<stored, page>>
        BY <1>5 DEF NewPlan
    <2>3. At([In(t, "switch") EXCEPT !.run = r], "switch", t, "", r)
        BY <1>0, InOK DEF RouteActions, None
    <2>4. /\ handler' \in [Handlers -> Handler] /\ HandlersOK' /\ Begins(h, t, "switch")
        BY <2>1, <2>2, <2>3, BeginOK
    <2>5. DatabaseOK' /\ RunsKept
        BY <1>0, <2>1, SaveNewOK
    <2> QED BY <1>0, <2>2, <2>4, <2>5 DEF ClickShape, Begins, PageOK
<1>6. CASE \E r \in Runs : SelectRun(h, t, r)
    <2>1. PICK r \in Runs : SelectRun(h, t, r)
        BY <1>6
    <2>2. /\ Start(h, t) /\ stored' = r /\ Go(h, [In(t, "context") EXCEPT !.run = r])
          /\ UNCHANGED <<database, page>>
        BY <2>1 DEF SelectRun
    <2>3. At([In(t, "context") EXCEPT !.run = r], "context", t, "", r)
        BY <1>0, InOK DEF RouteActions, None
    <2>4. /\ handler' \in [Handlers -> Handler] /\ HandlersOK' /\ Begins(h, t, "context")
        BY <2>2, <2>3, BeginOK
    <2> QED BY <1>0, <1>1, <2>2, <2>4 DEF ClickShape, Begins, PageOK
<1>7. CASE \E act \in RouteActions : ClickRoutes(h, t, act)
    <2>1. PICK act \in RouteActions : ClickRoutes(h, t, act)
        BY <1>7
    <2>2. PICK r \in Runs \cup {None} : r = page[t].ctx
        BY <1>0
    <2>3. /\ Start(h, t) /\ r # None /\ Go(h, [In(t, "select") EXCEPT !.act = act, !.run = r])
          /\ UNCHANGED <<database, stored, page>>
        BY <2>1, <2>2 DEF ClickRoutes, RunOfClick
    <2>4. At([In(t, "select") EXCEPT !.act = act, !.run = r], "select", t, act, r)
        BY InOK DEF RouteActions
    <2>5. /\ handler' \in [Handlers -> Handler] /\ HandlersOK' /\ Begins(h, t, "select")
          /\ handler'[h].run = r
        BY <2>3, <2>4, BeginOK DEF RouteActions
    <2> QED BY <1>0, <1>1, <2>2, <2>3, <2>5 DEF ClickShape, Begins, PageOK
<1>8. CASE \E act \in RouteActions : ClickTransit(h, t, act)
    <2>1. PICK act \in RouteActions : ClickTransit(h, t, act)
        BY <1>8
    <2>2. /\ Start(h, t) /\ t \in WarehouseTabs /\ Go(h, [In(t, "select") EXCEPT !.act = act])
          /\ UNCHANGED <<database, stored, page>>
        BY <2>1 DEF ClickTransit
    <2>3. At([In(t, "select") EXCEPT !.act = act], "select", t, act, None)
        BY <1>0, InOK DEF RouteActions, None
    <2>4. /\ handler' \in [Handlers -> Handler] /\ HandlersOK' /\ Begins(h, t, "select")
        BY <2>2, <2>3, BeginOK DEF RouteActions
    <2>5. t \notin GridTabs
        BY <2>2, TabsAssumption DEF GridTabs
    <2> QED BY <1>0, <1>1, <2>2, <2>4, <2>5 DEF ClickShape, Begins, PageOK
<1>9. CASE \E act \in {"approve", "unlock", "delete", "generate"} : ClickPlan(h, t, act)
    <2>1. PICK act \in {"approve", "unlock", "delete", "generate"} : ClickPlan(h, t, act)
        BY <1>9
    <2>2. /\ Start(h, t) /\ Go(h, [In(t, "resolve") EXCEPT !.act = act, !.run = stored])
          /\ UNCHANGED <<database, stored, page>>
        BY <2>1 DEF ClickPlan
    <2>3. At([In(t, "resolve") EXCEPT !.act = act, !.run = stored], "resolve", t, act, stored)
        BY <1>0, InOK DEF RouteActions, None
    <2>4. /\ handler' \in [Handlers -> Handler] /\ HandlersOK' /\ Begins(h, t, "resolve")
        BY <1>0, <2>2, <2>3, BeginOK
    <2> QED BY <1>0, <1>1, <2>2, <2>4 DEF ClickShape, Begins, PageOK
<1> QED BY <1>2, <1>3, <1>4, <1>5, <1>6, <1>7, <1>8, <1>9 DEF Click

\* Asking for the selection leaves the page alone.
LEMMA ClickKeepsPage ==
    ASSUME Typed, NEW h \in Handlers, NEW t \in Tabs, Click(h, t), handler'[h].op = "select"
    PROVE  page' = page
<1>1. CASE OpenPage(h, t) \/ OpenDashboard(h, t)
    <2>1. PICK op \in {"open", "context"} : Go(h, In(t, op)) /\ Start(h, t) /\ (op = "open" => t \in PlanTabs)
        BY <1>1 DEF OpenPage, OpenDashboard
    <2>2. At(In(t, op), op, t, "", None)
        BY InOK DEF None
    <2>3. Begins(h, t, op)
        BY <2>1, <2>2, BeginOK
    <2> QED BY <2>3 DEF Begins
<1>2. CASE ~(OpenPage(h, t) \/ OpenDashboard(h, t))
    BY <1>2 DEF Click, ClickRefresh, ClickRefreshWarehouse, NewPlan, SelectRun, ClickRoutes,
                ClickTransit, ClickPlan
<1> QED BY <1>1, <1>2

-----------------------------------------------------------------------------
(* A handler that goes on.  Other tabs keep what they show, and note the run   *)
(* that is deleted.                                                            *)

PageAges(u) ==
    /\ page'[u].ctx = page[u].ctx /\ page'[u].shown = page[u].shown /\ page'[u].rows = page[u].rows
    /\ page[u].doubt \cup (Existing(plan) \ Existing(plan')) \subseteq page'[u].doubt

PagesAge == \A u \in Tabs : PageAges(u)

\* What IInv says of one handler h and its tab t.
OwnAgrees(h, t) ==
    /\ RunAgrees(handler[h])
    /\ t \in GridTabs => handler[h].op = "view" \/ Agrees(page[t])

Continues(h, t) ==
    /\ handler[h].op # "none" /\ OthersKept(h)
    /\ handler'[h].op = "none" \/ handler'[h].tab = t
    /\ \A u \in Tabs \ {t} : PageAges(u)
    /\ OwnAgrees(h, t) => OwnAgrees(h, t)'
    /\ MadeIsShown(handler[h]) => MadeIsShown(handler[h])'
    /\ handler[h].op = "routes" => \A r \in Runs \ {handler[h].run} : route'[r] = route[r]
    /\ handler[h].op = "context" /\ handler'[h].op = "view" =>
          page'[t].ctx = Resolved(handler[h].run)

LEMMA TypedParts ==
    /\ Typed <=> /\ DatabaseOK /\ PageOK /\ stored \in Runs \cup {None}
                 /\ handler \in [Handlers -> Handler] /\ HandlersOK
    /\ Typed => /\ \A h \in Handlers : handler[h] \in Handler /\ HandlerOK(handler[h])
                /\ \A t \in Tabs : page[t] \in Page
BY DEF Typed, TypeOK, DatabaseOK, PageOK, HandlersOK

LEMMA TypedNext ==
    ASSUME DatabaseOK', PageOK', stored' \in Runs \cup {None},
           handler' \in [Handlers -> Handler], HandlersOK'
    PROVE  Typed'
BY DEF PageOK, Typed, TypeOK, DatabaseOK

LEMMA UnchangedAges ==
    ASSUME RunsKept, UNCHANGED page
    PROVE  PagesAge
BY DEF RunsKept, PagesAge, PageAges

LEMMA DatabaseKept ==
    ASSUME DatabaseOK, UNCHANGED database
    PROVE  DatabaseOK' /\ RunsKept
BY DEF database, DatabaseOK, RunsKept, Existing

LEMMA DeletingAges ==
    ASSUME DatabaseOK, PageOK, NEW r \in Runs, Deleting(r)
    PROVE  PagesAge
<1>1. /\ Existing(plan) \subseteq Existing(plan') \cup {r}
      /\ \A u \in Tabs : page'[u] = [page[u] EXCEPT !.doubt = @ \cup {r}]
    BY DeletingOK DEF PageOK
<1> SUFFICES ASSUME NEW u \in Tabs PROVE PageAges(u)
    BY DEF PagesAge
<1>2. page[u] \in Page /\ page'[u] = [page[u] EXCEPT !.doubt = @ \cup {r}]
    BY <1>1 DEF PageOK
<1>3. /\ page'[u].ctx = page[u].ctx /\ page'[u].shown = page[u].shown
      /\ page'[u].rows = page[u].rows /\ page'[u].doubt = page[u].doubt \cup {r}
    BY <1>2 DEF Page
<1> QED BY <1>1, <1>3 DEF PageAges

\* While pages only age, a handler that does not come to the rows of its tab
\* leaves everything agreeing.
LEMMA QuietlyContinues ==
    ASSUME Typed, NEW h \in Handlers, NEW t \in Tabs, handler[h].tab = t,
           handler[h].op \notin {"none", "view"}, handler'[h].op \notin {"view", "select", "routes"},
           OthersKept(h), handler'[h].op = "none" \/ handler'[h].tab = t,
           MadeIsShown(handler[h]) => MadeIsShown(handler[h])',
           handler[h].op = "routes" => route' = route, PagesAge
    PROVE  Continues(h, t)
<1>1. \A u \in Tabs \ {t} : PageAges(u)
    BY DEF PagesAge
<1>2. ASSUME OwnAgrees(h, t)
      PROVE  OwnAgrees(h, t)'
    <2>1. RunAgrees(handler[h])'
        BY DEF RunAgrees
    <2>2. t \in GridTabs => Agrees(page[t])
        BY <1>2 DEF OwnAgrees
    <2>3. PageAges(t)
        BY DEF PagesAge
    <2>4. t \in GridTabs => Agrees(page[t])'
        BY <2>2, <2>3 DEF Agrees, PageAges
    <2> QED BY <2>1, <2>4 DEF OwnAgrees
<1> QED BY <1>1, <1>2 DEF Continues

LEMMA EndContinues ==
    ASSUME Typed, NEW h \in Handlers, NEW t \in Tabs, handler[h].tab = t,
           handler[h].op \notin {"none", "view"}, End(h), UNCHANGED <<database, stored, page>>
    PROVE  Typed' /\ Continues(h, t)
<1>1. /\ handler' \in [Handlers -> Handler] /\ HandlersOK'
      /\ handler'[h] = Idle /\ OthersKept(h)
    BY EndOK
<1>2. DatabaseOK' /\ RunsKept /\ PagesAge /\ route' = route
    BY TypedParts, DatabaseKept, UnchangedAges DEF database
<1>3. Typed'
    <2>1. PageOK' /\ stored' \in Runs \cup {None}
        BY TypedParts DEF PageOK
    <2> QED BY <1>1, <1>2, <2>1, TypedNext
<1>4. handler'[h].op = "none" /\ handler'[h].made = None
    <2>1. Idle.op = "none" /\ Idle.made = None
        BY DEF Idle
    <2> QED BY <1>1, <2>1
<1>5. Continues(h, t)
    BY <1>1, <1>2, <1>4, QuietlyContinues DEF MadeIsShown
<1> QED BY <1>3, <1>5

LEMMA RefreshContinues ==
    ASSUME Typed, NEW h \in Handlers, NEW t \in Tabs, handler[h].tab = t,
           handler[h].op \notin {"none", "view"}, NEW r \in Runs \cup {None}, Refresh(h, r),
           MadeIsShown(handler[h]) => handler[h].made \in {None, r},
           handler[h].op = "routes" => route' = route,
           DatabaseOK', RunsKept, UNCHANGED page, stored' \in Runs \cup {None}
    PROVE  Typed' /\ Continues(h, t)
<1>1. /\ handler' \in [Handlers -> Handler] /\ HandlersOK' /\ OthersKept(h)
      /\ handler'[h].op = "context" /\ handler'[h].tab = t
      /\ handler'[h].run = r /\ handler'[h].made = handler[h].made
    BY RefreshOK
<1>2. PagesAge
    BY UnchangedAges
<1>3. Typed'
    BY <1>1, TypedParts DEF PageOK, Typed, TypeOK, DatabaseOK
<1>4. MadeIsShown(handler[h]) => MadeIsShown(handler[h])'
    BY <1>1 DEF MadeIsShown
<1>5. Continues(h, t)
    BY <1>1, <1>2, <1>4, QuietlyContinues
<1> QED BY <1>3, <1>5

\* A handler goes on to x, within its tab.
LEMMA GoContinues ==
    ASSUME Typed, NEW h \in Handlers, NEW t \in Tabs, handler[h].tab = t,
           handler[h].op \notin {"none", "view", "routes"}, NEW x \in Handler, HandlerOK(x), Go(h, x),
           x.tab = t, x.op \notin {"view", "select", "routes"}, MadeIsShown(handler[h]) => MadeIsShown(x),
           DatabaseOK', PageOK', PagesAge, stored' \in Runs \cup {None}
    PROVE  Typed' /\ Continues(h, t)
<1>1. /\ handler' \in [Handlers -> Handler] /\ HandlersOK'
      /\ handler'[h] = x /\ OthersKept(h)
    BY GoOK
<1>2. Typed'
    BY <1>1 DEF PageOK, Typed, TypeOK, DatabaseOK
<1>3. MadeIsShown(handler[h]) => MadeIsShown(handler[h])'
    BY <1>1 DEF MadeIsShown
<1>4. Continues(h, t)
    BY <1>1, <1>3, QuietlyContinues
<1> QED BY <1>2, <1>4

-----------------------------------------------------------------------------
(* The actions of a handler that only age the pages. *)

LEMMA RaiseOK ==
    ASSUME Typed, NEW h \in Handlers, NEW t \in Tabs, handler[h].tab = t, Raise(h)
    PROVE  Typed' /\ Continues(h, t)
<1>1. /\ handler[h].op \in {"open", "context", "view", "resolve"} /\ End(h)
      /\ UNCHANGED <<database, stored>>
    BY DEF Raise
<1>2. CASE handler[h].op # "view"
    <2>1. UNCHANGED page
        BY <1>2 DEF Raise
    <2> QED BY <1>1, <1>2, <2>1, EndContinues
<1>3. CASE handler[h].op = "view"
    <2>1. SetPage(t, [page[t] EXCEPT !.doubt = Runs])
        BY <1>3 DEF Raise
    <2>2. [page[t] EXCEPT !.doubt = Runs] \in Page
        BY TypedParts DEF Page
    <2>3. /\ PageOK' /\ page'[t] = [page[t] EXCEPT !.doubt = Runs]
          /\ \A u \in Tabs : u # t => page'[u] = page[u]
        BY <2>1, <2>2, TypedParts, SetPageOK
    <2>4. /\ handler' \in [Handlers -> Handler] /\ HandlersOK'
          /\ handler'[h] = Idle /\ OthersKept(h)
        BY <1>1, EndOK
    <2>5. DatabaseOK' /\ RunsKept /\ stored' \in Runs \cup {None}
        BY <1>1, TypedParts, DatabaseKept DEF database
    <2>6. Typed'
        BY <2>3, <2>4, <2>5, TypedNext
    <2>7. \A u \in Tabs \ {t} : PageAges(u)
        BY <2>3, <2>5 DEF PageAges, RunsKept
    <2>8. handler'[h].op = "none" /\ handler'[h].made = None
        <3>1. Idle.op = "none" /\ Idle.made = None
            BY DEF Idle
        <3> QED BY <2>4, <3>1
    <2>9. RunAgrees(handler[h])' /\ MadeIsShown(handler[h])'
        BY <2>8 DEF RunAgrees, MadeIsShown
    <2>10. Agrees(page[t])'
        <3>1. page[t] \in Page
            BY TypedParts
        <3>2. page'[t].doubt = Runs /\ page'[t].ctx \in Runs \cup {None}
            BY <2>3, <3>1 DEF Page
        <3> QED BY <3>2 DEF Agrees
    <2> QED BY <1>3, <2>4, <2>6, <2>7, <2>8, <2>9, <2>10 DEF Continues, OwnAgrees
<1> QED BY <1>2, <1>3

LEMMA RoutesDoneOK ==
    ASSUME Typed, NEW h \in Handlers, NEW t \in Tabs, handler[h].tab = t, RoutesDone(h)
    PROVE  Typed' /\ Continues(h, t)
<1>1. handler[h].op = "routes" /\ UNCHANGED <<database, stored, page>>
    BY DEF RoutesDone
<1>2. End(h) \/ Refresh(h, stored)
    BY DEF RoutesDone
<1>3. /\ DatabaseOK' /\ RunsKept /\ stored \in Runs \cup {None} /\ stored' \in Runs \cup {None}
      /\ route' = route
    BY <1>1, TypedParts, DatabaseKept DEF database
<1>4. MadeIsShown(handler[h]) => handler[h].made \in {None, stored}
    BY <1>1 DEF MadeIsShown
<1>5. CASE End(h)
    BY <1>1, <1>5, EndContinues
<1>6. CASE Refresh(h, stored)
    BY <1>1, <1>3, <1>4, <1>6, RefreshContinues
<1> QED BY <1>2, <1>5, <1>6

LEMMA ResolvePlanOK ==
    ASSUME Typed, NEW h \in Handlers, NEW t \in Tabs, handler[h].tab = t, ResolvePlan(h)
    PROVE  Typed' /\ Continues(h, t)
<1> DEFINE r == Resolved(handler[h].run)
           act == handler[h].act
           op == IF act = "delete" THEN "decide" ELSE IF act = "generate" THEN "generate" ELSE "job"
           x == [handler[h] EXCEPT !.run = r, !.op = op]
<1>1. handler[h].op = "resolve" /\ UNCHANGED <<database, stored, page>>
    BY DEF ResolvePlan
<1>2. End(h) \/ (Accepts(act, r) /\ Go(h, x))
    BY DEF ResolvePlan
<1>3. CASE End(h)
    BY <1>1, <1>3, EndContinues
<1>4. CASE Accepts(act, r) /\ Go(h, x)
    <2>1. handler[h] \in Handler /\ handler[h].run \in Runs \cup {None}
          /\ act \in {"approve", "unlock", "delete", "generate"}
        BY <1>1, TypedParts DEF Handler, HandlerOK
    <2>2. r \in Runs \cup {None}
        BY <2>1, ResolvedIsRun
    <2>3. op \in {"decide", "generate"} \/ (op = "job" /\ r # None)
        BY <1>4, <2>1 DEF Accepts
    <2> HIDE DEF r, op
    <2>4. x \in Handler /\ x.op = op /\ x.run = r /\ x.tab = t /\ x.made = handler[h].made
        BY <2>1, <2>2, <2>3 DEF Handler
    <2> HIDE DEF x
    <2>5. HandlerOK(x)
        BY <2>3, <2>4 DEF HandlerOK
    <2>6. MadeIsShown(handler[h]) => MadeIsShown(x)
        BY <1>1, <2>4 DEF MadeIsShown
    <2>7. DatabaseOK' /\ PageOK' /\ PagesAge /\ stored' \in Runs \cup {None}
        BY <1>1, TypedParts, DatabaseKept, UnchangedAges DEF PageOK
    <2> QED BY <1>1, <1>4, <2>3, <2>4, <2>5, <2>6, <2>7, GoContinues
<1> QED BY <1>2, <1>3, <1>4

LEMMA PlanJobOK ==
    ASSUME Typed, NEW h \in Handlers, NEW t \in Tabs, handler[h].tab = t, PlanJob(h)
    PROVE  Typed' /\ Continues(h, t)
<1>1. /\ handler[h].op = "job" /\ Refresh(h, stored) /\ UNCHANGED <<stored, page>>
      /\ ApprovePlan(handler[h].run) \/ UnlockPlan(handler[h].run)
    BY DEF PlanJob
<1>2. handler[h].run \in Runs
    BY <1>1, TypedParts DEF Handler, HandlerOK
<1>3. DatabaseOK' /\ RunsKept
    BY <1>1, <1>2, TypedParts, ApprovePlanOK, UnlockPlanOK
<1>4. MadeIsShown(handler[h]) => handler[h].made \in {None, stored}
    BY <1>1 DEF MadeIsShown
<1>5. stored \in Runs \cup {None} /\ stored' \in Runs \cup {None}
    BY <1>1, TypedParts
<1> QED BY <1>1, <1>3, <1>4, <1>5, RefreshContinues

LEMMA ConfirmDeleteOK ==
    ASSUME Typed, NEW h \in Handlers, NEW t \in Tabs, handler[h].tab = t, ConfirmDelete(h)
    PROVE  Typed' /\ Continues(h, t)
<1> DEFINE l == Latest(plan')
           x == [handler[h] EXCEPT !.op = "switch", !.run = l]
           d == handler[h].run
<1>1. /\ handler[h].op = "decide" /\ CanDelete(d) /\ Deleting(d) /\ Go(h, x) /\ UNCHANGED stored
    BY DEF ConfirmDelete
<1>2. d \in Runs
    BY <1>1 DEF CanDelete, Existing
<1> HIDE DEF d
<1>3. /\ DatabaseOK' /\ PageOK'
      /\ Existing(plan) \subseteq Existing(plan') \cup {d}
      /\ \A u \in Tabs : page'[u] = [page[u] EXCEPT !.doubt = @ \cup {d}]
    BY <1>1, <1>2, TypedParts, DeletingOK DEF PageOK
<1>4. PagesAge
    BY <1>1, <1>2, TypedParts, DeletingAges
<1>5. l \in Runs \cup {None}
    BY LatestIsRun
<1> HIDE DEF l
<1>6. /\ x \in Handler /\ x.op = "switch" /\ x.run = l /\ x.tab = t
      /\ x.made = handler[h].made
    BY <1>5, TypedParts DEF Handler
<1> HIDE DEF x
<1>7. HandlerOK(x) /\ (MadeIsShown(handler[h]) => MadeIsShown(x))
    BY <1>1, <1>6 DEF HandlerOK, MadeIsShown
<1>8. stored' \in Runs \cup {None}
    BY <1>1, TypedParts
<1> QED BY <1>1, <1>3, <1>4, <1>6, <1>7, <1>8, GoContinues

LEMMA SwitchRunOK ==
    ASSUME Typed, NEW h \in Handlers, NEW t \in Tabs, handler[h].tab = t,
           SwitchRun(h) \/ AfterGenerate(h) \/ Refused(h)
    PROVE  Typed' /\ Continues(h, t)
<1>1. PICK r \in Runs \cup {None} :
          /\ Refresh(h, r) /\ stored' \in Runs \cup {None} /\ UNCHANGED <<database, page>>
          /\ handler[h].op \in {"switch", "job", "generate", "solve", "decide"}
              \/ (handler[h].op = "saved" /\ r = handler[h].made)
    <2>1. stored \in Runs \cup {None} /\ handler[h].run \in Runs \cup {None}
          /\ handler[h].made \in Runs \cup {None}
        BY TypedParts DEF Handler
    <2> QED BY <2>1 DEF SwitchRun, AfterGenerate, Refused
<1>2. DatabaseOK' /\ RunsKept
    BY <1>1, TypedParts, DatabaseKept
<1>3. MadeIsShown(handler[h]) => handler[h].made \in {None, r}
    BY <1>1 DEF MadeIsShown
<1> QED BY <1>1, <1>2, <1>3, RefreshContinues

LEMMA GenerateOK ==
    ASSUME Typed, NEW h \in Handlers, NEW t \in Tabs, handler[h].tab = t,
           PrepareGenerate(h) \/ PersistGenerate(h)
    PROVE  Typed' /\ Continues(h, t)
<1>0. handler[h] \in Handler /\ stored \in Runs \cup {None} /\ DatabaseOK
    BY TypedParts
<1>1. CASE PrepareGenerate(h)
    <2>1. PICK r \in Runs \cup {None} : Go(h, [handler[h] EXCEPT !.op = "solve", !.run = r])
        BY <1>0, <1>1 DEF PrepareGenerate, Handler
    <2>2. handler[h].op = "generate" /\ UNCHANGED <<database, stored, page>>
        BY <1>1 DEF PrepareGenerate
    <2> DEFINE x == [handler[h] EXCEPT !.op = "solve", !.run = r]
    <2>3. x \in Handler /\ x.op = "solve" /\ x.tab = t /\ x.made = handler[h].made
        BY <1>0 DEF Handler
    <2>4. Go(h, x)
        BY <2>1
    <2> HIDE DEF x
    <2>5. HandlerOK(x) /\ (MadeIsShown(handler[h]) => MadeIsShown(x))
        BY <2>2, <2>3 DEF HandlerOK, MadeIsShown
    <2>6. DatabaseOK' /\ PageOK' /\ PagesAge /\ stored' \in Runs \cup {None}
        BY <2>2, TypedParts, DatabaseKept, UnchangedAges DEF PageOK
    <2> QED BY <2>2, <2>3, <2>4, <2>5, <2>6, GoContinues
<1>2. CASE PersistGenerate(h)
    <2>1. PICK used \in SUBSET Vehicles, r \in Runs :
              /\ SaveNew(r, used) \/ SaveInto(r, used)
              /\ Go(h, [handler[h] EXCEPT !.op = "saved", !.made = r])
        BY <1>2 DEF PersistGenerate
    <2>2. handler[h].op = "solve" /\ UNCHANGED <<stored, page>>
        BY <1>2 DEF PersistGenerate
    <2> DEFINE x == [handler[h] EXCEPT !.op = "saved", !.made = r]
    <2>3. x \in Handler /\ x.op = "saved" /\ x.tab = t
        BY <1>0 DEF Handler
    <2>4. Go(h, x)
        BY <2>1
    <2> HIDE DEF x
    <2>5. HandlerOK(x) /\ MadeIsShown(x)
        BY <2>3 DEF HandlerOK, MadeIsShown
    <2>6. DatabaseOK' /\ RunsKept
        BY <1>0, <2>1, SaveNewOK, SaveIntoOK
    <2>7. PageOK' /\ PagesAge /\ stored' \in Runs \cup {None}
        BY <1>0, <2>2, <2>6, TypedParts, UnchangedAges DEF PageOK
    <2> QED BY <2>2, <2>3, <2>4, <2>5, <2>6, <2>7, GoContinues
<1> QED BY <1>1, <1>2

-----------------------------------------------------------------------------
(* The actions of a handler that read a context or rows, or move routes.       *)

LEMMA OpenedOK ==
    ASSUME Typed, NEW h \in Handlers, NEW t \in Tabs, handler[h].tab = t, Opened(h)
    PROVE  Typed' /\ Continues(h, t)
<1> DEFINE l == Latest(plan)
           p == [NoPage EXCEPT !.ctx = l]
<1>1. /\ handler[h].op = "open" /\ SetPage(t, p) /\ stored' = l /\ Refresh(h, l)
      /\ UNCHANGED database
    BY DEF Opened
<1>2. l \in Runs \cup {None}
    BY LatestIsRun
<1> HIDE DEF l
<1>3. p \in Page /\ p.rows = NoRoutes
    BY <1>2, NoPageOK DEF NoPage, NoRoutes
<1> HIDE DEF p
<1>4. PageOK' /\ page'[t] = p /\ \A u \in Tabs : u # t => page'[u] = page[u]
    BY <1>1, <1>3, TypedParts, SetPageOK
<1>5. /\ handler' \in [Handlers -> Handler] /\ HandlersOK' /\ OthersKept(h)
      /\ handler'[h].op = "context" /\ handler'[h].tab = t
      /\ handler'[h].made = handler[h].made
    BY <1>1, <1>2, RefreshOK
<1>6. DatabaseOK' /\ RunsKept
    BY <1>1, TypedParts, DatabaseKept
<1>7. Typed'
    BY <1>1, <1>2, <1>4, <1>5, <1>6, TypedNext
<1>8. \A u \in Tabs \ {t} : PageAges(u)
    BY <1>4, <1>6 DEF PageAges, RunsKept
<1>9. RunAgrees(handler[h])' /\ Agrees(page[t])'
    BY <1>3, <1>4, <1>5 DEF RunAgrees, Agrees
<1>10. MadeIsShown(handler[h]) => MadeIsShown(handler[h])'
    BY <1>1, <1>5 DEF MadeIsShown
<1> QED BY <1>1, <1>5, <1>7, <1>8, <1>9, <1>10 DEF Continues, OwnAgrees

LEMMA LoadContextOK ==
    ASSUME Typed, NEW h \in Handlers, NEW t \in Tabs, handler[h].tab = t, LoadContext(h)
    PROVE  Typed' /\ Continues(h, t)
<1> DEFINE r == Resolved(handler[h].run)
           p == [page[t] EXCEPT !.ctx = r, !.doubt = {}]
           x == [handler[h] EXCEPT !.op = "view", !.run = r]
<1>1. /\ handler[h].op = "context" /\ t \in PlanTabs /\ SetPage(t, p) /\ stored' = r
      /\ Go(h, x) /\ UNCHANGED database
    BY DEF LoadContext
<1>2. handler[h] \in Handler /\ page[t] \in Page
    BY TypedParts
<1>3. r \in Runs \cup {None} /\ r \in Existing(plan) \cup {None}
    BY <1>2, ResolvedIsRun DEF Handler
<1>4. r = Resolved(handler[h].run)
    OBVIOUS
<1> HIDE DEF r
<1>5. p \in Page /\ p.ctx = r
    BY <1>2, <1>3 DEF Page
<1>6. /\ x \in Handler /\ x.op = "view" /\ x.run = r /\ x.tab = t
      /\ x.made = handler[h].made
    BY <1>2, <1>3 DEF Handler
<1> HIDE DEF p, x
<1>7. HandlerOK(x)
    BY <1>1, <1>6 DEF HandlerOK
<1>8. PageOK' /\ page'[t] = p /\ \A u \in Tabs : u # t => page'[u] = page[u]
    BY <1>1, <1>5, TypedParts, SetPageOK
<1>9. /\ handler' \in [Handlers -> Handler] /\ HandlersOK'
      /\ handler'[h] = x /\ OthersKept(h)
    BY <1>1, <1>6, <1>7, GoOK
<1>10. DatabaseOK' /\ RunsKept
    BY <1>1, TypedParts, DatabaseKept
<1>11. Typed'
    BY <1>1, <1>3, <1>8, <1>9, <1>10, TypedNext
<1>12. \A u \in Tabs \ {t} : PageAges(u)
    BY <1>8, <1>10 DEF PageAges, RunsKept
<1>13. /\ handler'[h].op = "view" /\ handler'[h].run = r /\ handler'[h].tab = t
       /\ handler'[h].made = handler[h].made /\ page'[t].ctx = r
    BY <1>5, <1>6, <1>8, <1>9
<1>14. RunAgrees(handler[h])'
    BY <1>3, <1>10, <1>13 DEF RunAgrees, RunsKept
<1>15. MadeIsShown(handler[h]) => MadeIsShown(handler[h])'
    BY <1>13 DEF MadeIsShown
<1> QED BY <1>1, <1>4, <1>9, <1>11, <1>12, <1>13, <1>14, <1>15 DEF Continues, OwnAgrees

LEMMA LoadViewOK ==
    ASSUME Typed, NEW h \in Handlers, NEW t \in Tabs, handler[h].tab = t, LoadView(h)
    PROVE  Typed' /\ Continues(h, t)
<1> DEFINE r == Resolved(handler[h].run)
           rows == [v \in Vehicles |-> IF r # None /\ route[r][v] # "none" THEN "any" ELSE "none"]
           p == [page[t] EXCEPT !.shown = r, !.rows = rows]
<1>1. handler[h].op = "view" /\ SetPage(t, p) /\ End(h) /\ UNCHANGED <<database, stored>>
    BY DEF LoadView, ViewOf
<1>2. handler[h] \in Handler /\ page[t] \in Page
    BY TypedParts
<1>3. /\ r \in Runs \cup {None}
      /\ handler[h].run \in Existing(plan) => r = handler[h].run
    BY <1>2, ResolvedIsRun DEF Handler
<1>4. rows \in [Vehicles -> {"none", "any", "approved", "in_transit"}]
    OBVIOUS
<1> HIDE DEF r, rows
<1>5. /\ p \in Page /\ p.ctx = page[t].ctx /\ p.shown = r /\ p.doubt = page[t].doubt
    BY <1>2, <1>3, <1>4 DEF Page
<1> HIDE DEF p
<1>6. PageOK' /\ page'[t] = p /\ \A u \in Tabs : u # t => page'[u] = page[u]
    BY <1>1, <1>5, TypedParts, SetPageOK
<1>7. /\ handler' \in [Handlers -> Handler] /\ HandlersOK'
      /\ handler'[h] = Idle /\ OthersKept(h)
    BY <1>1, EndOK
<1>8. DatabaseOK' /\ RunsKept /\ stored' \in Runs \cup {None}
    BY <1>1, TypedParts, DatabaseKept DEF database
<1>9. Typed'
    BY <1>6, <1>7, <1>8, TypedNext
<1>10. \A u \in Tabs \ {t} : PageAges(u)
    BY <1>6, <1>8 DEF PageAges, RunsKept
<1>11. handler'[h].op = "none" /\ handler'[h].made = None
    <2>1. Idle.op = "none" /\ Idle.made = None
        BY DEF Idle
    <2> QED BY <1>7, <2>1
<1>12. RunAgrees(handler[h])' /\ MadeIsShown(handler[h])'
    BY <1>11 DEF RunAgrees, MadeIsShown
\* The rows are those of the run that was resolved, unless it has gone.
<1>13. ASSUME OwnAgrees(h, t)
       PROVE  Agrees(page[t])'
    <2>1. /\ handler[h].run = page[t].ctx
          /\ handler[h].run \in {None} \cup Existing(plan) \cup page[t].doubt
        BY <1>1, <1>13 DEF OwnAgrees, RunAgrees
    <2>2. p.ctx \in {None, p.shown} \cup p.doubt
        BY <1>3, <1>5, <2>1
    <2> QED BY <1>6, <2>2 DEF Agrees
<1> QED BY <1>1, <1>7, <1>9, <1>10, <1>11, <1>12, <1>13 DEF Continues, OwnAgrees

\* What the warehouse page and the dashboard have in common: context and rows
\* are read at once.
LEMMA LoadBoardOK ==
    ASSUME Typed, NEW h \in Handlers, NEW t \in Tabs, handler[h].tab = t,
           handler[h].op = "context", End(h), NEW p \in Page, SetPage(t, p),
           t \in GridTabs => p.ctx = p.shown,
           UNCHANGED database, stored' \in Runs \cup {None}
    PROVE  Typed' /\ Continues(h, t)
<1>1. PageOK' /\ page'[t] = p /\ \A u \in Tabs : u # t => page'[u] = page[u]
    BY TypedParts, SetPageOK
<1>2. /\ handler' \in [Handlers -> Handler] /\ HandlersOK'
      /\ handler'[h] = Idle /\ OthersKept(h)
    BY EndOK
<1>3. DatabaseOK' /\ RunsKept
    BY TypedParts, DatabaseKept
<1>4. Typed'
    BY <1>1, <1>2, <1>3, TypedNext
<1>5. \A u \in Tabs \ {t} : PageAges(u)
    BY <1>1, <1>3 DEF PageAges, RunsKept
<1>6. handler'[h].op = "none" /\ handler'[h].made = None
    <2>1. Idle.op = "none" /\ Idle.made = None
        BY DEF Idle
    <2> QED BY <1>2, <2>1
<1>7. RunAgrees(handler[h])' /\ MadeIsShown(handler[h])'
    BY <1>6 DEF RunAgrees, MadeIsShown
<1>8. t \in GridTabs => Agrees(page[t])'
    BY <1>1 DEF Agrees
<1> QED BY <1>2, <1>4, <1>5, <1>6, <1>7, <1>8 DEF Continues, OwnAgrees

LEMMA LoadWarehouseOK ==
    ASSUME Typed, NEW h \in Handlers, NEW t \in Tabs, handler[h].tab = t, LoadWarehouse(h)
    PROVE  Typed' /\ Continues(h, t)
<1> DEFINE r == Resolved(handler[h].run)
           board == [v \in Vehicles |-> IF r # None /\ route[r][v] \in {"approved", "in_transit"}
                                        THEN route[r][v] ELSE "none"]
           p == [NoPage EXCEPT !.shown = r, !.rows = board]
<1>1. /\ handler[h].op = "context" /\ t \in WarehouseTabs /\ SetPage(t, p) /\ End(h)
      /\ UNCHANGED <<database, stored>>
    BY DEF LoadWarehouse
<1>2. r \in Runs \cup {None}
    BY TypedParts, ResolvedIsRun DEF Handler
<1>3. board \in [Vehicles -> {"none", "any", "approved", "in_transit"}]
    OBVIOUS
<1> HIDE DEF r, board
<1>4. p \in Page
    BY <1>2, <1>3, NoPageOK DEF Page, None
<1> HIDE DEF p
<1>5. t \notin GridTabs
    BY <1>1, TabsAssumption DEF GridTabs
<1>6. UNCHANGED database /\ stored' \in Runs \cup {None}
    BY <1>1, TypedParts
<1> QED BY <1>1, <1>4, <1>5, <1>6, LoadBoardOK

LEMMA LoadDashboardOK ==
    ASSUME Typed, NEW h \in Handlers, NEW t \in Tabs, handler[h].tab = t, LoadDashboard(h)
    PROVE  Typed' /\ Continues(h, t)
<1> DEFINE r == Latest(plan)
           road == [v \in Vehicles |-> IF r # None /\ route[r][v] = "in_transit"
                                       THEN "in_transit" ELSE "none"]
           p == [NoPage EXCEPT !.ctx = r, !.shown = r, !.rows = road]
<1>1. /\ handler[h].op = "context" /\ stored' = r /\ SetPage(t, p) /\ End(h)
      /\ UNCHANGED database
    BY DEF LoadDashboard
<1>2. r \in Runs \cup {None}
    BY LatestIsRun
<1>3. road \in [Vehicles -> {"none", "any", "approved", "in_transit"}]
    OBVIOUS
<1> HIDE DEF r, road
<1>4. p \in Page /\ p.ctx = p.shown
    BY <1>2, <1>3, NoPageOK DEF Page, None
<1> HIDE DEF p
<1> QED BY <1>1, <1>2, <1>4, LoadBoardOK

\* Rows that can be selected are rows of the run the context is for.
LEMMA SelectedOK ==
    ASSUME Typed, NEW h \in Handlers, NEW t \in Tabs, handler[h].tab = t,
           NEW S \in SUBSET Vehicles, Selected(h, S)
    PROVE  Typed' /\ Continues(h, t)
<1> DEFINE run == IF t \in WarehouseTabs THEN stored ELSE handler[h].run
           x == [handler[h] EXCEPT !.op = "routes", !.todo = S, !.run = run]
<1>1. handler[h].op = "select" /\ S \subseteq Selectable(h) /\ UNCHANGED <<database, stored, page>>
    BY DEF Selected
<1>2. End(h) \/ (S # {} /\ run # None /\ Go(h, x))
    BY DEF Selected
<1>3. CASE End(h)
    BY <1>1, <1>3, EndContinues
<1>4. CASE S # {} /\ run # None /\ Go(h, x)
    <2>1. handler[h] \in Handler /\ HandlerOK(handler[h]) /\ run \in Runs \cup {None}
        BY TypedParts DEF Handler
    <2>2. t \in GridTabs => run = handler[h].run
        BY TabsAssumption DEF GridTabs
    <2> HIDE DEF run
    <2>3. /\ x \in Handler /\ x.op = "routes" /\ x.run = run /\ x.tab = t
          /\ x.made = handler[h].made /\ x.act = handler[h].act
        BY <2>1 DEF Handler
    <2>4. Go(h, x)
        BY <1>4
    <2> HIDE DEF x
    <2>5. HandlerOK(x)
        BY <1>1, <1>4, <2>1, <2>3 DEF HandlerOK
    <2>6. /\ handler' \in [Handlers -> Handler] /\ HandlersOK'
          /\ handler'[h] = x /\ OthersKept(h)
        BY <2>3, <2>4, <2>5, GoOK
    <2>7. DatabaseOK' /\ RunsKept /\ PageOK' /\ PagesAge /\ stored' \in Runs \cup {None}
        BY <1>1, TypedParts, DatabaseKept, UnchangedAges DEF PageOK
    <2>8. Typed'
        BY <2>6, <2>7, TypedNext
    <2>9. /\ handler'[h].op = "routes" /\ handler'[h].run = run /\ handler'[h].tab = t
          /\ handler'[h].made = handler[h].made
        BY <2>3, <2>6
    <2>10. ASSUME OwnAgrees(h, t)
           PROVE  OwnAgrees(h, t)'
        <3>1. CASE t \notin GridTabs
            BY <2>9, <3>1 DEF OwnAgrees, RunAgrees
        <3>2. CASE t \in GridTabs
            <4>1. Agrees(page[t]) /\ run = page[t].ctx /\ run # None
                BY <1>1, <2>2, <2>10, <3>2 DEF OwnAgrees, RunAgrees
            <4>2. page[t].rows # NoRoutes
                <5>1. PICK v \in S : v \in Selectable(h)
                    BY <1>1, <1>4
                <5>2. v \in Vehicles /\ page[t].rows[v] # "none"
                    <6>1. handler[h].act \in RouteActions
                        BY <1>1, <2>1 DEF HandlerOK
                    <6>2. Before(handler[h].act) # "none"
                        BY <6>1 DEF Before, RouteActions
                    <6> QED BY <5>1, <6>2 DEF Selectable
                <5> QED BY <5>2 DEF NoRoutes
            <4>3. run \in {page[t].shown} \cup page[t].doubt
                BY <4>1, <4>2 DEF Agrees
            <4>4. page' = page
                BY <1>1
            <4> QED BY <2>9, <4>1, <4>3, <4>4 DEF OwnAgrees, RunAgrees, Agrees
        <3> QED BY <3>1, <3>2
    <2>11. MadeIsShown(handler[h]) => MadeIsShown(handler[h])'
        BY <1>1, <2>9 DEF MadeIsShown
    <2> QED BY <1>1, <2>6, <2>7, <2>8, <2>9, <2>10, <2>11 DEF Continues, PagesAge
<1> QED BY <1>2, <1>3, <1>4

LEMMA NextRouteOK ==
    ASSUME Typed, NEW h \in Handlers, NEW t \in Tabs, handler[h].tab = t,
           NEW v \in Vehicles, NextRoute(h, v)
    PROVE  Typed' /\ Continues(h, t)
<1>1. PICK hit \in BOOLEAN :
          Go(h, [handler[h] EXCEPT !.todo = @ \ {v}, !.hit = hit])
    <2>1. handler[h] \in Handler
        BY TypedParts
    <2>2. [handler[h] EXCEPT !.todo = @ \ {v}] =
              [handler[h] EXCEPT !.todo = @ \ {v}, !.hit = handler[h].hit]
        BY <2>1 DEF Handler
    <2>3. handler[h].hit \in BOOLEAN
        BY <2>1 DEF Handler
    <2> QED BY <2>2, <2>3 DEF NextRoute
<1>2. /\ handler[h].op = "routes" /\ UNCHANGED <<stored, page>>
      /\ MoveRoute(handler[h].act, handler[h].run, v) \/ UNCHANGED database
    BY DEF NextRoute
<1> DEFINE x == [handler[h] EXCEPT !.todo = @ \ {v}, !.hit = hit]
<1>3. handler[h] \in Handler /\ HandlerOK(handler[h]) /\ handler[h].act \in RouteActions
    BY <1>2, TypedParts DEF HandlerOK
<1>4. /\ x \in Handler /\ x.op = "routes" /\ x.run = handler[h].run /\ x.tab = t
      /\ x.made = handler[h].made /\ x.act = handler[h].act
    BY <1>2, <1>3 DEF Handler
<1>5. Go(h, x)
    BY <1>1
<1> HIDE DEF x
<1>6. HandlerOK(x)
    BY <1>2, <1>3, <1>4 DEF HandlerOK
<1>7. /\ handler' \in [Handlers -> Handler] /\ HandlersOK'
      /\ handler'[h] = x /\ OthersKept(h)
    BY <1>4, <1>5, <1>6, GoOK
<1>8. DatabaseOK' /\ RunsKept
    BY <1>2, <1>3, TypedParts, DatabaseKept, MoveRouteOK
<1>9. PageOK' /\ PagesAge /\ stored' \in Runs \cup {None}
    BY <1>2, <1>8, TypedParts, UnchangedAges DEF PageOK
<1>10. Typed'
    BY <1>7, <1>8, <1>9, TypedNext
<1>11. /\ handler'[h].op = "routes" /\ handler'[h].run = handler[h].run /\ handler'[h].tab = t
       /\ handler'[h].made = handler[h].made
    BY <1>4, <1>7
<1>12. ASSUME OwnAgrees(h, t)
       PROVE  OwnAgrees(h, t)'
    <2>1. page' = page
        BY <1>2
    <2> QED BY <1>2, <1>11, <1>12, <2>1 DEF OwnAgrees, RunAgrees, Agrees
<1>13. MadeIsShown(handler[h]) => MadeIsShown(handler[h])'
    BY <1>2, <1>11 DEF MadeIsShown
<1>14. \A r \in Runs \ {handler[h].run} : route'[r] = route[r]
    BY <1>2, TypedParts DEF MoveRoute, WriteRoutes, DatabaseOK, database
<1> QED BY <1>2, <1>7, <1>9, <1>10, <1>11, <1>12, <1>13, <1>14 DEF Continues, PagesAge

LEMMA ContinueOK ==
    ASSUME Typed, NEW h \in Handlers, Continue(h)
    PROVE  Typed' /\ handler[h].tab \in Tabs /\ Continues(h, handler[h].tab)
<1>1. handler[h].op # "none"
    BY DEF Continue, Opened, LoadContext, LoadView, LoadWarehouse, LoadDashboard, Raise, Selected,
           NextRoute, RoutesDone, ResolvePlan, PlanJob, ConfirmDelete, Cancel, SwitchRun,
           PrepareGenerate, PersistGenerate, AfterGenerate, Refused
<1>2. PICK t \in Tabs : handler[h].tab = t
    BY <1>1, TypedParts DEF HandlerOK
<1>3. CASE Cancel(h)
    BY <1>1, <1>2, <1>3, EndContinues DEF Cancel
<1>4. CASE \E S \in SUBSET Vehicles : Selected(h, S)
    BY <1>2, <1>4, SelectedOK
<1>5. CASE \E v \in Vehicles : NextRoute(h, v)
    BY <1>2, <1>5, NextRouteOK
<1> QED BY <1>2, <1>3, <1>4, <1>5, OpenedOK, LoadContextOK, LoadViewOK, LoadWarehouseOK,
           LoadDashboardOK, RaiseOK, RoutesDoneOK, ResolvePlanOK, PlanJobOK, ConfirmDeleteOK,
           SwitchRunOK, GenerateOK
        DEF Continue

-----------------------------------------------------------------------------
(* Types, and the run that was generated. *)

\* Other pages and users only age the pages.
LEMMA OtherOK ==
    ASSUME Typed, (\E r \in Runs \cup {None} : OtherPage(r)) \/ OtherUser
    PROVE  Typed' /\ PagesAge /\ UNCHANGED handler
<1>0. handler' = handler
    BY DEF OtherPage, OtherUser
<1>1. handler' \in [Handlers -> Handler] /\ HandlersOK'
    BY <1>0, TypedParts DEF HandlersOK
<1>2. CASE \E r \in Runs \cup {None} : OtherPage(r)
    <2>1. UNCHANGED database /\ UNCHANGED page /\ stored' \in Runs \cup {None}
        BY <1>2 DEF OtherPage
    <2>2. DatabaseOK' /\ RunsKept /\ PageOK' /\ PagesAge
        BY <2>1, TypedParts, DatabaseKept, UnchangedAges DEF PageOK
    <2> QED BY <1>0, <1>1, <2>1, <2>2, TypedNext
<1>3. CASE OtherUser
    <2>1. stored' \in Runs \cup {None}
        BY <1>3, TypedParts DEF OtherUser
    <2>2. CASE UNCHANGED page /\ \/ \E r \in Runs, v \in Vehicles, act \in RouteActions :
                                        MoveRoute(act, r, v)
                                 \/ \E r \in Runs, used \in SUBSET Vehicles :
                                        SaveNew(r, used) \/ SaveInto(r, used)
                                 \/ \E r \in Runs : ApprovePlan(r) \/ UnlockPlan(r)
        <3>1. DatabaseOK' /\ RunsKept
            BY <2>2, TypedParts, MoveRouteOK, SaveNewOK, SaveIntoOK, ApprovePlanOK, UnlockPlanOK
        <3>2. PageOK' /\ PagesAge
            BY <2>2, <3>1, TypedParts, UnchangedAges DEF PageOK
        <3> QED BY <1>0, <1>1, <2>1, <3>1, <3>2, TypedNext
    <2>3. CASE \E r \in Runs : CanDelete(r) /\ Deleting(r)
        <3>1. PICK r \in Runs : Deleting(r)
            BY <2>3
        <3>2. DatabaseOK' /\ PageOK' /\ PagesAge
            BY <3>1, TypedParts, DeletingOK, DeletingAges DEF PageOK
        <3> QED BY <1>0, <1>1, <2>1, <3>2, TypedNext
    <2> QED BY <1>3, <2>2, <2>3 DEF OtherUser
<1> QED BY <1>2, <1>3

LEMMA InitTyped == Init => Typed /\ MadeAreShown
<1> SUFFICES ASSUME Init PROVE Typed /\ MadeAreShown
    OBVIOUS
<1>1. Idle \in Handler /\ HandlerOK(Idle) /\ MadeIsShown(Idle)
    BY DEF Idle, Handler, HandlerOK, MadeIsShown, None
<1>2. NoPage \in Page
    BY NoPageOK DEF None
<1>3. NoRoutes \in [Vehicles -> RouteStatus]
    BY DEF NoRoutes, RouteStatus
<1>4. DatabaseOK /\ PageOK /\ stored \in Runs \cup {None} /\ handler \in [Handlers -> Handler]
    BY <1>1, <1>2, <1>3 DEF Init, DatabaseOK, PageOK
<1>5. \A h \in Handlers : handler[h] = Idle
    BY DEF Init
<1> QED BY <1>1, <1>4, <1>5, TypedParts DEF HandlersOK, MadeAreShown

\* Every step keeps the types, and that a handler which has generated a run is
\* about to show it.
LEMMA TypedStep ==
    ASSUME Typed, [Next]_vars
    PROVE  Typed' /\ (MadeAreShown => MadeAreShown')
<1>1. CASE UNCHANGED vars
    BY <1>1 DEF vars, database, Typed, TypeOK, HandlersOK, MadeAreShown
<1>2. CASE \E h \in Handlers : Continue(h)
    <2>1. PICK h \in Handlers : Continue(h)
        BY <1>2
    <2>2. /\ Typed' /\ OthersKept(h)
          /\ MadeIsShown(handler[h]) => MadeIsShown(handler[h])'
        BY <2>1, ContinueOK DEF Continues
    <2> QED BY <2>2 DEF MadeAreShown, OthersKept, MadeIsShown
<1>3. CASE \E h \in Handlers, t \in Tabs : Click(h, t)
    <2>1. PICK h \in Handlers, t \in Tabs : Click(h, t)
        BY <1>3
    <2>2. Typed' /\ OthersKept(h) /\ handler'[h].made = None
        BY <2>1, ClickOK DEF ClickShape, Begins
    <2> QED BY <2>2 DEF MadeAreShown, OthersKept, MadeIsShown
<1>4. CASE (\E r \in Runs \cup {None} : OtherPage(r)) \/ OtherUser
    BY <1>4, OtherOK DEF MadeAreShown
<1> QED BY <1>1, <1>2, <1>3, <1>4 DEF Next

\* TypeOK holds in every state, however many tabs and handlers there are and
\* whether or not a tab waits for its last click.
THEOREM TypeCorrect == Spec => []TypeOK
<1>1. Init => Typed
    BY InitTyped
<1>2. Typed /\ [Next]_vars => Typed'
    BY TypedStep
<1>3. Typed => TypeOK
    BY DEF Typed
<1> QED BY <1>1, <1>2, <1>3, PTL DEF Spec

\* What reaches the context of a generating tab is the run it generated, not
\* what another tab has stored meanwhile.
LEMMA GeneratedStep ==
    ASSUME Typed, MadeAreShown, [Next]_vars,
           NEW h \in Handlers, handler[h].op = "context", handler[h].made # None,
           handler'[h].op = "view"
    PROVE  \/ page'[handler[h].tab].ctx = handler[h].made
           \/ handler[h].made \notin Existing(plan)
<1>1. handler'[h] # handler[h]
    OBVIOUS
<1>2. Continue(h)
    <2>1. CASE UNCHANGED vars
        BY <1>1, <2>1 DEF vars
    <2>2. ASSUME NEW g \in Handlers, Continue(g) PROVE g = h
        BY <1>1, <2>2, ContinueOK DEF Continues, OthersKept
    <2>3. ASSUME NEW g \in Handlers, NEW t \in Tabs, Click(g, t) PROVE FALSE
        BY <1>1, <2>3, ClickOK DEF ClickShape, Begins, OthersKept
    <2>4. CASE (\E r \in Runs \cup {None} : OtherPage(r)) \/ OtherUser
        BY <1>1, <2>4, OtherOK
    <2> QED BY <2>1, <2>2, <2>3, <2>4 DEF Next
<1>3. page'[handler[h].tab].ctx = Resolved(handler[h].run)
    BY <1>2, ContinueOK DEF Continues
<1>4. handler[h].run = handler[h].made /\ handler[h].run \in Runs \cup {None}
    BY TypedParts DEF MadeAreShown, MadeIsShown, Handler
<1> QED BY <1>3, <1>4, ResolvedIsRun

\* After generating, the tab goes over to the run that was generated, whatever
\* the other tabs do and even if clicks overlap.
THEOREM GeneratedIsAlwaysShown == Spec => GeneratedIsShown
<1> DEFINE Shown == \A h \in Handlers :
        handler[h].op = "context" /\ handler[h].made # None /\ handler'[h].op = "view" =>
            \/ page'[handler[h].tab].ctx = handler[h].made
            \/ handler[h].made \notin Existing(plan)
<1>1. Init => Typed /\ MadeAreShown
    BY InitTyped
<1>2. Typed /\ MadeAreShown /\ [Next]_vars => Typed' /\ MadeAreShown'
    BY TypedStep
<1>3. Typed /\ MadeAreShown /\ [Next]_vars => Shown
    BY GeneratedStep
<1> QED BY <1>1, <1>2, <1>3, PTL DEF Spec, GeneratedIsShown

-----------------------------------------------------------------------------
(* The run of the rows. *)

\* Whoever works for a tab alone may change what it shows, if it leaves its own
\* page agreeing.
LEMMA AgreementKept ==
    ASSUME IInv, Typed', NEW h \in Handlers, NEW t \in Tabs, OthersKept(h),
           handler[h].op = "none" \/ handler[h].tab = t,
           handler'[h].op = "none" \/ handler'[h].tab = t,
           \A g \in Handlers : g # h /\ handler[g].op # "none" => handler[g].tab # t,
           \A u \in Tabs \ {t} : PageAges(u), OwnAgrees(h, t)'
    PROVE  IInv'
<1>1. OneHandlerPerTab'
    BY DEF IInv, OneHandlerPerTab, OthersKept
<1>2. ASSUME NEW g \in Handlers
      PROVE  RunAgrees(handler[g])'
    <2>1. CASE g = h
        BY <2>1 DEF OwnAgrees
    <2>2. CASE g # h /\ handler[g].op \notin {"view", "select", "routes"}
        BY <2>2 DEF OthersKept, RunAgrees
    <2>3. CASE g # h /\ handler[g].op \in {"view", "select", "routes"}
        <3>1. handler'[g] = handler[g] /\ handler[g].tab \in Tabs \ {t} /\ handler[g].run \in Runs \cup {None}
            BY <2>3, TypedParts DEF IInv, OthersKept, HandlerOK, Handler
        <3>2. PageAges(handler[g].tab) /\ RunAgrees(handler[g])
            BY <3>1 DEF IInv, RunsAgree
        <3> QED BY <3>1, <3>2 DEF RunAgrees, PageAges
    <2> QED BY <2>1, <2>2, <2>3
<1>3. ASSUME NEW u \in GridTabs
      PROVE  (Viewing(u) \/ Agrees(page[u]))'
    <2>1. CASE u = t
        BY <1>3, <2>1 DEF OwnAgrees, Viewing
    <2>2. CASE u # t
        <3>1. u \in Tabs /\ PageAges(u)
            BY <1>3, <2>2 DEF GridTabs, Tabs
        <3>2. CASE Viewing(u)
            <4>1. PICK g \in Handlers : handler[g].op = "view" /\ handler[g].tab = u
                BY <3>2 DEF Viewing
            <4>2. g # h
                BY <2>2, <4>1
            <4> QED BY <4>1, <4>2 DEF OthersKept, Viewing
        <3>3. CASE Agrees(page[u])
            BY <3>1, <3>3 DEF Agrees, PageAges
        <3> QED BY <1>3, <3>2, <3>3 DEF IInv, PagesAgree
    <2> QED BY <2>1, <2>2
<1> QED BY <1>1, <1>2, <1>3 DEF IInv, RunsAgree, PagesAgree

LEMMA InitAgrees == Init => IInv
<1> SUFFICES ASSUME Init PROVE IInv
    OBVIOUS
<1>1. \A h \in Handlers : handler[h].op = "none"
    BY DEF Init, Idle
<1>2. \A t \in GridTabs : Agrees(page[t])
    BY DEF Init, Agrees, NoPage, GridTabs, Tabs
<1> QED BY <1>1, <1>2, InitTyped DEF IInv, OneHandlerPerTab, PagesAgree, RunsAgree, RunAgrees

LEMMA AgreementStep ==
    ASSUME Patient, IInv, [Next]_vars
    PROVE  IInv'
<1>1. CASE UNCHANGED vars
    BY <1>1 DEF vars, database, IInv, Typed, TypeOK, HandlersOK, OneHandlerPerTab, PagesAgree, Viewing,
                RunsAgree, RunAgrees, Agrees, Existing
<1>2. CASE \E h \in Handlers : Continue(h)
    <2>1. PICK h \in Handlers : Continue(h)
        BY <1>2
    <2>2. PICK t \in Tabs : t = handler[h].tab /\ Typed' /\ Continues(h, t)
        BY <2>1, ContinueOK DEF IInv
    <2>3. \A g \in Handlers : g # h /\ handler[g].op # "none" => handler[g].tab # t
        BY <2>2 DEF IInv, OneHandlerPerTab, Continues
    <2>4. OwnAgrees(h, t)
        <3>1. Viewing(t) => handler[h].op = "view"
            BY <2>2, <2>3 DEF Viewing
        <3> QED BY <2>2, <3>1 DEF IInv, RunsAgree, PagesAgree, OwnAgrees
    <2> QED BY <2>2, <2>3, <2>4, AgreementKept DEF Continues
<1>3. CASE \E h \in Handlers, t \in Tabs : Click(h, t)
    <2>1. PICK h \in Handlers, t \in Tabs : Click(h, t)
        BY <1>3
    <2>2. Typed' /\ ClickShape(h, t)
        BY <2>1, ClickOK DEF IInv
    <2>3. \A g \in Handlers : handler[g].op # "none" => handler[g].tab # t
        BY <2>2 DEF ClickShape, Begins, Busy
    <2>4. handler[h].op = "none" /\ handler'[h].tab = t /\ OthersKept(h)
          /\ handler'[h].op \in {"open", "context", "select", "resolve", "switch"}
        BY <2>2 DEF ClickShape, Begins
    <2>5. \A u \in Tabs \ {t} : PageAges(u)
        BY <2>2 DEF ClickShape, PageAges, RunsKept
    <2>6. t \in GridTabs => Agrees(page[t])
        BY <2>3 DEF IInv, PagesAgree, Viewing
    <2>7. t \in GridTabs => Agrees(page[t])'
        <3>1. NoPage.rows = NoRoutes
            BY DEF NoPage
        <3> QED BY <2>2, <2>6, <3>1 DEF ClickShape, Agrees
    <2>8. RunAgrees(handler[h])'
        <3>1. CASE handler'[h].op = "select" /\ t \in GridTabs
            <4>1. handler'[h].run = page[t].ctx /\ page[t].ctx # None
                BY <2>2, <3>1 DEF ClickShape
            <4>2. page' = page
                BY <2>1, <3>1, ClickKeepsPage DEF IInv
            <4> QED BY <2>4, <3>1, <4>1, <4>2 DEF RunAgrees
        <3>2. CASE ~(handler'[h].op = "select" /\ t \in GridTabs)
            BY <2>4, <3>2 DEF RunAgrees
        <3> QED BY <3>1, <3>2
    <2> QED BY <2>2, <2>3, <2>4, <2>5, <2>7, <2>8, AgreementKept DEF OwnAgrees
<1>4. CASE (\E r \in Runs \cup {None} : OtherPage(r)) \/ OtherUser
    <2>1. Typed' /\ PagesAge /\ handler' = handler
        BY <1>4, OtherOK DEF IInv
    <2>2. ASSUME NEW h \in Handlers
          PROVE  RunAgrees(handler[h])'
        <3>1. CASE handler[h].op \notin {"view", "select", "routes"}
            BY <2>1, <3>1 DEF RunAgrees
        <3>2. CASE handler[h].op \in {"view", "select", "routes"}
            <4>1. handler[h].tab \in Tabs /\ handler[h].run \in Runs \cup {None}
                BY <3>2, TypedParts DEF IInv, HandlerOK, Handler
            <4>2. PageAges(handler[h].tab) /\ RunAgrees(handler[h])
                BY <2>1, <4>1 DEF IInv, RunsAgree, PagesAge
            <4> QED BY <2>1, <4>1, <4>2 DEF RunAgrees, PageAges
        <3> QED BY <3>1, <3>2
    <2>3. ASSUME NEW t \in GridTabs
          PROVE  (Viewing(t) \/ Agrees(page[t]))'
        <3>1. PageAges(t)
            BY <2>1, <2>3 DEF PagesAge, GridTabs, Tabs
        <3> QED BY <2>1, <2>3, <3>1 DEF IInv, PagesAgree, Viewing, Agrees, PageAges
    <2> QED BY <2>1, <2>2, <2>3 DEF IInv, OneHandlerPerTab, RunsAgree, PagesAgree
<1> QED BY <1>1, <1>2, <1>3, <1>4 DEF Next

\* A handler at its routes that moves changes the run of the rows alone.
LEMMA RoutesStep ==
    ASSUME IInv, [Next]_vars, NEW t \in GridTabs
    PROVE  HitBy(t) \subseteq {page[t].shown} \cup page[t].doubt
<1> SUFFICES ASSUME NEW r \in Runs, NEW h \in Handlers, handler[h].op = "routes",
                    handler[h].tab = t, handler'[h] # handler[h], route'[r] # route[r]
             PROVE  r \in {page[t].shown} \cup page[t].doubt
    BY DEF HitBy
<1>1. Continue(h)
    <2>1. CASE UNCHANGED vars
        BY <2>1 DEF vars
    <2>2. ASSUME NEW g \in Handlers, Continue(g) PROVE g = h
        BY <2>2, ContinueOK DEF Continues, OthersKept, IInv
    <2>3. ASSUME NEW g \in Handlers, NEW u \in Tabs, Click(g, u) PROVE FALSE
        BY <2>3, ClickOK DEF ClickShape, Begins, OthersKept, IInv
    <2>4. CASE (\E q \in Runs \cup {None} : OtherPage(q)) \/ OtherUser
        BY <2>4, OtherOK DEF IInv
    <2> QED BY <2>1, <2>2, <2>3, <2>4 DEF Next
<1>2. r = handler[h].run
    BY <1>1, ContinueOK DEF Continues, IInv
<1>3. RunAgrees(handler[h])
    BY DEF IInv, RunsAgree
<1> QED BY <1>2, <1>3 DEF RunAgrees

\* A route approved, unlocked, sent off or closed in a planning tab or on the
\* dashboard belongs to the run whose rows the dispatcher selected from,
\* whatever is stored meanwhile: of a program whose tabs answer no click while
\* the last one is being handled.
THEOREM RouteActionsAlwaysHitShown ==
    ASSUME Patient
    PROVE  Spec => RouteActionsHitShown
<1> DEFINE Hit == \A t \in PlanTabs \cup DashTabs : HitBy(t) \subseteq {page[t].shown} \cup page[t].doubt
<1>1. Init => IInv
    BY InitAgrees
<1>2. IInv /\ [Next]_vars => IInv'
    BY AgreementStep
<1>3. IInv /\ [Next]_vars => Hit
    BY RoutesStep DEF GridTabs
<1> QED BY <1>1, <1>2, <1>3, PTL DEF Spec, RouteActionsHitShown
=============================================================================
