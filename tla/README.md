# A verification project for Crossdock

Crossdock plans the day of a cross-docking warehouse: orders are imported from
Excel, a solver puts them on vehicles, a dispatcher approves the routes, trucks
depart and come back, and what does not go waits in a warehouse queue. It is one
Python process: NiceGUI pages that call services in worker threads, over one
SQLite file through SQLAlchemy. This directory models its state and operations
in TLA+, checks the model with TLC and proves properties of it with TLAPS.

Paths below are relative to `src/crossdock/`.

## Inventory

| Component | State | Operations | Interacts with | Modules |
|---|---|---|---|---|
| Planning and dispatch: `services/planning.py`, `storage/repositories.py` | `orders.status`, `assignment_runs.plan_status`, `assignment_items`, `assignment_routes.route_status`, `vehicles.is_busy` | prepare, solve and persist a plan; create, approve, unlock and delete a run; approve, unlock, depart and complete a route | queue (dequeues what leaves), fleet (reads `is_active`, writes `is_busy`), solvers | `Planning` |
| Solvers: `optimization/assignment.py`, `optimization/routing.py` and the stages of `planning.py` around them | none | choose what must ship, CP-SAT assignment, drops, trimming, OR-Tools routing, assembling rows | run between two planning transactions | `PlanSolve`, `Placement` |
| Plan view: `services/plan_view.py`, `domain/sla.py` | none | which routes are worth sending, what waits, what needs attention | decides what "approve plan" approves | `PlanView` |
| Reports, dashboard, map: `services/reports.py`, `generation_kpi.py`, `warehouse_stock.py`, `dashboard.py`, `map_view.py` | none | count and list what the view shows | plan view | `PlanView` |
| Planning page: `ui/pages.py` | active run (shared by all tabs), context and grid of each tab | generate, approve, unlock, depart, complete, delete, select, refresh | all services | `PlansPage` |
| Warehouse queue: `services/warehouse_queue.py` | `warehouse_queue` (order, position, waiting or held) | enqueue, dequeue, move up and down, hold and release | orders (only new ones enter), planning (held orders are not planned) | `WarehouseQueue`, `QueueOrder` |
| Buffering: `services/buffering.py`, `optimization/buffering.py` | none | propose (pure), accept: enqueue as held | queue | `Buffering` |
| Order import: `services/import_orders.py`, `ingest/` | none | read, split and merge rows, skip duplicates, insert, add coordinates | orders, locations | `OrderFile`, `ImportOrders` |
| Orders: `services/orders.py` | `orders`, `shipments` | delete some or all, edit pallets of approved orders | queue rows go by cascade; items of runs keep the id | several |
| Fleet: `services/fleet.py`, vehicle form | `vehicles` | edit one vehicle; bring a type to a wanted count | planning | `SettingsPage` |
| Settings: `services/app_settings.py`, `config.py` | override file, cached settings | save a form or the planning day, read | everything reads them | `SettingsPage` |
| Backup: `services/backup.py`, `services/runtime_locks.py`, `storage/database.py`, `__main__.py` | backup files, the engine, one "solver is running" flag | daily backup, prune, restore | generations in progress, every open session | `Backup` |
| Locations: `services/locations.py` | dictionary of coordinates | apply to orders; the editing jobs always fail | import | `ImportOrders` |
| Distances, authentication, layout | a cache; a session; none | | | none |

What is hard here:

* **Generating overlaps everything.** `on_generate` reads a snapshot in one
  session, solves for minutes with no session at all, and writes in another.
  Approving, departing, deleting, a second user's generation: all of it may
  happen in between, and nothing is locked.
* **Three ideas of "the" run.** The storage all tabs share, the context a tab
  has read, and the rows on its screen each name a run, and a handler is a
  coroutine that picks one of them after an await.
* **Derived state.** `plan_status` is derived from the route statuses, `is_busy`
  from all runs together, and an order's status from the route it rides. Eight
  operations change the first cause and each updates the rest by hand.
* **Ids come back.** SQLite gives the id of a deleted row out again (the tables
  have no AUTOINCREMENT) and items hold bare order ids, so a stale snapshot or
  an old run may come to name another run or order.
* **Sessions do not isolate reads.** The SQLite driver begins a transaction at
  the first write: what a handler read before it may have changed.
* **Files beside the database**: backups, restore and the override file are not
  part of any transaction.
* **The same orders, counted nine times.** View, KPI, report, sheets, map,
  dashboard, stock and departures board each sort the items again.
* **Running sums at a boundary** decide which order leaves early, which truck
  leaves half empty, which drop is thrown off, whether holding pays.

What makes each component correct is listed, hazard by hazard, in
`PROJECT.json`.

## Modules

| Module | What it is |
|---|---|
| `Planning` | The planning and dispatch component with the orders, queue and fleet it works on; its properties |
| `MCPlanning` | Symmetry and a second initial state for TLC |
| `PlanningHints` | What the page promises of unlocking a plan; violated |
| `PlanningProofs` | Lemmas on the operators, the type invariant, the safety theorems |
| `Placement` | What solving a plan promises: an answer that fits, with nothing lost |
| `PlanSolve` | The four stages between the two transactions of a generation, refining `Placement` |
| `PlanSolveProofs` | Type invariant, the four properties of a generation, and that it refines `Placement` |
| `PlanView` | The view of a plan, everything that is made of it, and acting on it while days pass |
| `PlanViewProofs` | Type invariant; what is urgent leaves, overflow, what is shown is sent, the books agree |
| `PlansPage` | The coroutines of the planning tab, the departures board and the dashboard |
| `PlansPageProofs` | Type invariant; buttons hit what is shown, a generation is shown |
| `QueueOrder` | What the queue promises: a line, told by who is ahead of whom |
| `WarehouseQueue` | The queue's table and the handlers of several browser sessions, each a read and a write, refining `QueueOrder` |
| `Buffering` | Ship now or hold: the comparison of costs, a pure operator |
| `WarehouseQueueProofs` | Lemmas on tables, the type invariant, positions, the refinement of `QueueOrder`; the decision of `Buffering` |
| `OrderFile` | Reading the shipper's file: rows, references, weights, merging; pure operators |
| `ImportOrders` | Importers, tabs that show and delete orders, deliveries, coordinates |
| `SettingsPage` | The fleet and parameters tabs, the override file and the settings in force |
| `SettingsPageProofs` | Type invariant; the settings in force are never a mix, a fleet job reaches its target |
| `Backup` | Backup files, restores step by step, the flag that is to keep them away from a generation |
| `FileProofs` | What is proved of the two components that deal in files, `Backup` and `ImportOrders`: type invariants and three safety theorems each |
| `SumLemmas` | Sums over finite sets, first and last elements of a strict order, what is taken until a sum is reached |

The `MC*` modules hold what TLC needs: symmetry, inputs and tabs. The components
compose through what they share: `Planning` holds orders, routes, vehicles and
the queue's membership together, and takes the solvers' answer and the view's
choice as free choices; `PlanSolve` and `PlanView` say which answers and choices
there are; `PlansPage` calls the route operations with a run each handler has to
choose; `WarehouseQueue` has the overlap of sessions that `Planning` leaves out.

### Planning

| Variable | Code |
|---|---|
| `status` | `orders.status`; `"absent"` when there is no row |
| `queue` | `warehouse_queue.status` of the order's row; `"none"` when there is none |
| `plan` | `assignment_runs.plan_status`; `"none"` when there is no row |
| `riding` | items of the run with a sequence, as pairs of order and vehicle |
| `left` | orders of its UNASSIGNED and UNROUTED items |
| `route` | `route_status` of the run's routes; `Slots` tells several routes of one vehicle apart |
| `active`, `busy` | `vehicles.is_active`, `is_busy` |
| `job` | per browser session, the `PlanSolveRequest` of the generation in progress |

Every public operation of `PlanningService` that writes is one action with the
operation's name, its guard made of the operation's early returns. `Prepare` and
`Persist` are the two ends of `on_generate`; the page keeps what it solves, so
the state between them is the snapshot, and the solver's answer is chosen when
it is written: any placement of the snapshot's pool on the snapshot's fleet.
`AbandonGenerate` covers a solver failure, a stopped server and a refused
`Persist`. `RunPlan` is the service's own `run_plan`, which does both in one
session.

What is abstract: weights, dates and coordinates (they decide what the solver
answers and which routes `build_plan_view` calls worth sending), queue positions,
delivery codes, distances and costs, the audit log.

**Atomicity.** A service call is one action. Writes are: they are made in one
SQLite transaction. Reads that come before the first write of a call are not
part of it, because the driver begins the transaction with the write; two
calls of two users, both within the same few milliseconds, could both
read before either writes. `Planning` leaves that out, and so do its theorems:
they are about calls that do not overlap, and generations that do.
`WarehouseQueue` and `ImportOrders` model the overlap for their handlers.

### PlanSolve and Placement

| Variable | Code |
|---|---|
| `stage` | which of the four stages is done |
| `order` | the `SolverOrder`s and `OrderGeoSnapshot`s of the request: weight, place, slack, queue row |
| `forced` | `must_ship` of the request |
| `verdict`, `load` | `AssignmentResult`: status and loads |
| `tour`, `trimmed` | `RoutingResult`: drops in order, rejected orders |
| `item` | the items of the assembled plan: kind, vehicle, sequence, reason |

`Prepare` leaves held orders out and pushes overflow into what must ship.
`SolveAssignment` is CP-SAT as its model in the code describes it: any assignment
within capacities and drop limits, and one of the greatest objective when the
verdict is OPTIMAL. `SolveRoutes` groups orders into drops, trims them to the
limit by distance and takes any order of what is left. `Assemble` sorts every
order into routed, unrouted and unassigned and collects warnings. A place stands
for a drop key; places without coordinates are known by name or not at all.
`ImplementsPlacement` maps the assembled items to an answer.

### PlanView

| Variable | Code |
|---|---|
| `item` | `assignment_items` of one run, as `PlanSolve` leaves them |
| `status`, `route`, `capacity` | `orders.status`, `route_status`, `weight_capacity_kg` |
| `today` | `effective_planning_date` |

`build_plan_view` is a set of operators: which routes are listed, thin, sent,
held, and flipped from held to sent for want of room in the warehouse
(`Flipped`). The KPI, the report and each of its sheets, the map's markers and
alerts, the warehouse snapshot, the dashboard and the two departure lists are
operators over the same state, each translated from its own function, and
`BooksAgree` says what they have in common. Actions approve the plan (with the
view computed again, as the code does), approve, depart and complete routes,
delete orders, edit capacities and let a day pass.

### PlansPage

| Variable | Code |
|---|---|
| `plan`, `route` | `plan_status`, `route_status`, as far as buttons look at them |
| `stored` | `app.storage.user["active_run_id"]` |
| `page` | per tab, the run of `ctx`, the run its rows come from, the rows |
| `handler` | handlers under way: which await they are at, the run in hand |

A database job and what the handler does with its result, up to the next await,
are one step. Every click of the planning tab (select, refresh, new plan,
generate, approve, unlock, delete, the four route buttons), of the departures
board and of the dashboard (its load and the closing of routes on the road) is
an action, with its continuation after each await; jobs may raise. The dashboard
makes the latest run the active one and keeps its own snapshot's run for the
button. `OtherPage` is the storage being changed by the map or a tab that is not
modelled, `OtherUser` a plan operation or a deletion by somebody else. `Patient`
says that a tab is not clicked while it still handles the last click; see Known
behaviour for what happens without.

### WarehouseQueue

| Variable | Code |
|---|---|
| `table` | `warehouse_queue`: order, position, held or waiting, by row id |
| `stage` | `orders.status` as far as the queue looks at it: new, further, or no row |
| `task` | per browser session, what its handler has read and is about to write |

A handler of the warehouse page runs in a worker thread (`run.io_bound`), so two
of them may overlap. Each is two actions. `ReadX` is everything up to the first
write: the checks, the row id, the positions. `WriteX` is the transaction from
the first write to the commit, with the values read before; what the code reads
again inside it (the second order of `enqueue_many`, the rows that
`_repack_positions` numbers) it sees as they are. A row is found again by its
id, and SQLite gives the highest id out again, so a late `WriteDequeue` may meet
another order's row. An `UPDATE` that finds no row, a violated constraint and a
locked database end in `Fail`. Moving up and moving down are one swap asked for
from either side. Approving, completing, deleting and importing orders are other
components' transactions and one action each.

Two specifications: `Spec` lets the steps of all sessions interleave;
`SerialSpec` lets a handler write before anyone else acts. `QueueOrder` is the
line the queue is meant to be: who is listed, who is ahead of whom, who is held.
`ImplementsList` maps the table to it, an order being ahead of another if its
position is smaller: adding goes last, a move swaps two neighbours, renumbering
after orders left and the gaps that deleted orders leave change nothing.

### Buffering

`DecideOne` is `decide_one`: the fewest days of storage that, with a full truck's
roundtrip, cost less than a part load now by the threshold, within the slack and
the tariff's number of days; `proposal` is a row of the grid that shows it, with
what it was made from. Costs are integers in which no comparison is rounded.
What is accepted is enqueued as held, by the actions of the queue. `BufferDecisionSound` compares it with a definition by cases; it also
records that a stay is never longer than a day.

### OrderFile and ImportOrders

A row is its references, shipment numbers, weights and dates; spelling is left
out. `OrderFile` translates how a row is refused, how numbers and weights are
dealt out over references (`ShipmentsOf`) and how rows of one code are merged
(`Merge`). Where the code appends in a loop, `InOrder` says what comes out: the
element at each place is the one with that many before it. Positions in the file
order rows and shipments, first rows order codes.

| Variable | Code |
|---|---|
| `orders` | `orders` with their shipments, dates, coordinates, by id |
| `importer` | an `import_path` under way: its file, the codes it found new |
| `outcome` | the `ImportOutcome` shown afterwards |
| `shown` | per tab, the rows of the orders grid |

An import is `ReadFile` (up to the lookup of existing codes) and `StoreOrders`
(from the first insert to the commit), or `FailImport`. Tabs delete what they
show, orders are delivered, and `ApplyCoords` fills in what the dictionary knows.
The names of this module differ from those of `Backup` (`ImportSpec`,
`ImportTypeOK`) because one module proves things about both.

### SettingsPage

| Variable | Code |
|---|---|
| `vehicle` | `vehicles`: type, code, active, busy |
| `file` | `runtime_settings.json`; `Torn` while it is not whole |
| `cache` | the `lru_cache` of `get_settings` |
| `job` | per fleet job or thread, what it has read and what it does next |
| `saved` | the changes whose file was written (history) |

`sync_fleet_units` is a read and a write; the vehicle form and `set_busy` change
rows beside it. Saving settings is four steps (read and merge, truncate, write,
clear the cache), reading them two (read the file, fill the cache unless it is
filled). A form saves all parameters, the planning page saves the day alone, or
advances the one in force. `Restart` may come between any two. Three settings
stand for all: an ordinary number, one more so that a mix can be told, and the
planning day, the one that may be empty.

### Backup

| Variable | Code |
|---|---|
| `live`, `commits` | content of the database file: the commit that made it, or `Torn` |
| `files` | `crossdock_*.db` in the backup directory, by modification time |
| `staged` | the `.restore` copies that `restore_backup` sets aside |
| `job` | per thread, how far its `run_backup` or `restore_backup` is |
| `generating`, `solver_running` | users inside `on_generate`; `_solver_running` |
| `now` | the clock, in the seconds that file names are made of |

`run_backup` is three steps (choose the name, copy, prune), `restore_backup` sets
the source aside, runs the same three as its safety copy, and then copies over
the live file in two steps with `Torn` between them: a copy that fails or a
server that stops there leaves the file torn. `FailJob` and `Restart` may come
between any two steps. A name is a second and whether the process id was added.
A restore remembers what it was asked for (`selected`, `asked`, `since`) only so
that the properties can speak of it.

What is abstract: the content of a database is the number of the commit that made
it, which tells all contents apart; a torn file takes no commits; a backup that
fails half way leaves no file; the page's selection is made when the restore
begins. Connections that stay open across a restore, and SQLite's write-ahead
log, are left out.

## Runs

| Run | Bounds | Shows |
|---|---|---|
| `planning` | all operations; 2 vehicles, 2 orders of which one has no weight, 2 runs, 1 generation in progress | `TypeOK`, `PlanStatusSound`, `BusyVehicleHasRoute`, `QueueOnlyUndispatched` |
| `serial` | all operations, no overlapping generations; 2 vehicles, 2 orders, 1 run, room for 2 routes of one vehicle | `NoOrderStranded`, `OneRoutePerVehicle`, `PlannedIsOnOffer`, `ClosedRoutesKept`, `DeliveredIsFinal` |
| `solve` | 3 orders over a few weights, places and dates, 2 vehicles of capacity 3 and 2, 2 drops, stock 2 | `TypeOK`, `OverflowPushesUrgent`, `NothingTrimmed`, `ImplementsPlacement`, `MustShipReported` |
| `view` | 4 orders, 2 vehicles, days 0 to 2, stock 2, capacities 2 and 4 | `TypeOK`, `OverflowRelieved`, `BooksAgree`, `UrgentLeaves`, `ShownIsSent`, and `HeldRouteLeaves` under fairness |
| `page` | one tab, of the planning page, the warehouse page or the dashboard, 1 handler, 2 runs, 1 vehicle, everyone else at every await | `TypeOK`, `RouteActionsHitShown`, `GeneratedIsShown` |
| `queue` | serial; 3 orders, 3 rows, positions to 4; every small order, day and tariff | `TypeOK`, `PositionsDistinct`, `ImplementsList`, `DequeueRenumbers`, `BufferDecisionSound` |
| `imports` | 1 importer, 1 tab, 5 files of up to 3 rows, 4 places, 3 order ids | `ImportTypeOK`, `OneOrderPerCode`, `CoordsNearest`, `FileKept` |
| `settings` | 3 vehicles of 2 types, 1 fleet job; 2 threads, 2 forms, 2 days | `TypeOK`, `InForceIsWhole`, `SyncReachesTarget` |
| `backup` | a scheduler, an administrator, 2 users; 2 copies kept, 2 contents and the torn one, 2 seconds | `TypeOK`, `FlagMeansGenerating`, `RestoreGivesSelected`, `OverwrittenIsSaved`, and `FlagIsCleared` under fairness |
| `hint_unlock` | dispatching only, 1 run | `DepartedOrdersAreNotReleased` is violated, see Findings |
| `import_twice` | 2 importers | `OneOrderPerCode` is violated, see Findings |
| `depart_stored` | as `page` | `TransitActionsHitShown` is violated, see Findings |

Why the bounds are enough to be interesting.

* Planning: with two vehicles a run can be partial (one route closed, one not);
  with two orders one can be routed and the other left over, or each ride its
  own vehicle; with two runs a vehicle and an order can belong to both, and an
  id can be used again. `MaxRoutes` is a bound on how many routes of one vehicle
  a run may hold: with overlapping generations there is no limit in the code, so
  `planning` stops at the bound, and `serial`, where a second one must not come
  up, has room for two. Generations of two users overtaking each other are left
  to the theorems, which hold for any number of them. Vehicles and users are
  interchangeable, which makes the symmetry sound: the `CHOOSE` in `AddProposed`
  is over `Slots`, never over vehicles, and no liveness is checked under it.
* Solving: three orders are what it takes to overfill the warehouse with two and
  a choice left, to overload a vehicle, and to have two drops at one distance;
  one weighs more than any vehicle carries, one has no weight, one place has no
  coordinates and one no name. The `CHECK_DEADLOCK FALSE` there is the end of a
  generation.
* View: a route of two orders with different dates, a route of one, and one
  order that is left over or has no place; a stock of two forces a choice; each
  route is thin with one capacity and full with the other, or due on one day and
  not the day before.
* Page: one tab at a time, because what the other tabs do to the storage and to
  the database is done by `OtherPage` and `OtherUser` as well.
* Queue: three orders are what it takes to have a gap in the middle, a neighbour
  that is not the only other row, and an id given out again below the top;
  positions to 4 let the highest position exceed the number of rows. Orders and
  sessions are interchangeable: the `CHOOSE`s are over row ids, and the one over
  orders (the second order of `WriteEnqueue`) is over a set of at most one.
* Imports: the files repeat codes within and across files, list up to three
  references against fewer or more numbers and weights, list one reference
  twice, and lack dates; of the places one is known, one only through its city, one not at all.
* Settings: a type can be short of, at and above its target with busy and idle
  vehicles; the two tabs share no state, so each is explored by itself.
* Backup: two kept copies are fewer than a restore and another thread make
  together, so that the selected file and the safety copy can both be pruned
  under way; within one second two backups take both names and a third
  overwrites; one commit is enough to tell old from new content.

**Fairness.** `backup` assumes weak fairness of `EndGenerate`: the solvers and
the OSRM client have time limits, the other stages of `on_generate` are bounded,
and its `finally` runs after an error too. `view` assumes weak fairness of
`NextDay`: time passes. Nobody has to click anything for either property, and no
symmetry is used in those runs.

## Findings

* `hint_unlock`: depart one of two approved routes, unlock the plan: the orders
  on the road are back in the pool, although the hint of the button
  (`text_pl.py:90`) says that departed routes are left alone.
* `import_twice`: codes that exist are looked up before the insert takes the
  write lock and nothing in the schema makes a code unique, so two imports of one
  file at once insert its orders twice; the page (`ui/pages.py:709`) says that
  codes that exist are skipped. With one importer at a time `imports` shows that
  they are, whatever fails or is deleted in between.
* `depart_stored`: the departures board looks the active run up again on a click.
  If another tab has made another run the active one, the truck marked as
  departed is that of the other run. The planning tab, which keeps its context,
  is right (`RouteActionsHitShown`).

## Known behaviour

What came up while modelling, is in the modules where they cover it, and has no
run of its own.

* Planning: unlock a route and approve it again: the route is approved, its
  orders stay new (`planning.py:1176`). Approving a plan approves its departed
  and completed routes again (1093). Saving a generation marks its orders planned
  whatever they have become (925). Deleting a run frees its vehicles even if they
  are on the road for another run (1390). That is why `BusyVehicleHasRoute` is
  stated only in the direction the code keeps, and `DeliveredIsFinal`,
  `PlannedIsOnOffer` and `OneRoutePerVehicle` only for generations that do not
  overlap.
* Queue: two overlapping enqueues read the same highest position; moving one of
  the two then swaps equal numbers (`repositories.py:805`). It heals when an order
  is taken out by hand, which `DequeueRenumbers` says.
* Restore is refused while the flag of `runtime_locks.py` is set, but the first of
  two generations to end clears it for both, and a generation that starts after
  the restore was confirmed does not look. It errs in this direction only
  (`FlagMeansGenerating`).
* Solving: a must-ship kilogram counts 101 times an optional one, so an optional
  order of more than 101 times the weight still wins (`assignment.py:23`). The one
  left behind is reported (`MustShipReported`).
* View: thin routes that have departed or been completed, and deleted orders,
  still count as stock that waits (`plan_view.py:308`).
* Buffering: longer stays only cost more, so `max_buffer_days` beyond 1 changes
  nothing; a held order is not released when its day comes; a proposal may be
  accepted long after it was made.
* Import: a single weight given for several references counts for each of them
  (`row_mapper.py:137`). A cell that lists a reference or a number twice becomes two
  shipments of one number (`row_mapper.py:99`), of which merging keeps the first:
  the weight of the second is lost (`excel_import.py:36`). `FileKept` therefore
  counts the shipments of rows that name nothing twice (`NoneTwice`).
* Orders page: a tab deletes the ids it shows, which may by then be those of
  other orders.
* Fleet: editing the type of a vehicle leaves its code behind, and the next code of
  that prefix then exists already, so growing that type fails until it is renamed
  (`fleet.py:87`); two overlapping jobs each create what is missing; the vehicle
  form deactivates a busy vehicle, though the page says it is not done.
* Settings: a form saves all fields, and so overwrites what others changed since
  it was opened; two clicks on the next day at once advance by one; a torn file
  counts as no overrides, and the next save starts from none; the backup hour is
  read at startup only.
* Locations: the page's save and delete jobs pass arguments that the services do
  not take, and always raise (`ui/pages.py:3741`, `3754`).
* Planning tab: with clicks during a refresh (`Patient = FALSE`), a route button may
  act on a run whose rows are not on the screen yet, because the context is set
  before the view is awaited (`ui/pages.py:1537`). Approving or unlocking a whole
  plan goes by the stored run, not by the one shown.

## Proofs

Every theorem is of the form `Spec => ...` and holds for all values of the
constants that satisfy the named assumptions of its module. These say what the
code's types say (bounds and counts are naturals, what stands for "none" is none
of the others, weights and capacities are not negative, the inputs have the
fields they have) and TLC evaluates them on the values of the runs. Some
need more, which their statement then says: `Users = {}`, `Patient`,
`OneRestorer`, `OneImporter` and `SerialSpec`, explained below.

`Planning`, for every fleet, set of users and bounds:

1. `TypeCorrect`. `TypeStep` has one step per action; what the writes have in
   common (`AddProposed`, `KeptRoutes`, `Synced`, `MoveRows`, saving a plan) are
   lemmas.
2. `PlanStatusAlwaysSound`. `PlanStatusSound` is inductive on top of `TypeOK`.
   Three arguments carry it: what `Synced` returns describes its routes
   (`SyncedSound`), saving keeps exactly the closed routes (`AddedToKept`), and
   approving a plan without a route on hold leaves none proposed
   (`ApprovedAllSent`). It is the strengthening the others stand on, because it
   says that a deleted run has left nothing behind.
3. `BusyVehicleAlwaysHasRoute` and `QueueAlwaysUndispatched`: inductive relative
   to the two above.
4. `ClosedRoutesAlwaysKept`: an action property, from the same invariant.
5. `NoOrderEverStranded`: inductive relative to 1 and 2. The work is in
   `Persist`: an order that a dropped route carried is reset, one the new answer
   places rides again (`ReachableSaved`).
6. `OneRouteAlwaysPerVehicle`, `PlannedIsAlwaysOnOffer` and
   `DeliveredIsAlwaysFinal`, for `Users = {}`: every generation is `RunPlan`, which
   saves into the state it has read. With a generation that is overtaken they are
   false (Known behaviour), which is why the run `serial` has no users either. An
   answer to the state it is saved into uses no vehicle the run keeps and places
   only orders that are new or planned (`SaveInTime`); the second theorem rests on
   the first, because a proposed route must not hide behind a closed one.

`PlanSolve`, for any pool, fleet, places and limits:

1. `TypeCorrect`, with the claim that every order without a route has a known
   reason: an assigned order that is not routed has no coordinates or was trimmed.
2. `NothingEverTrimmed`: the drops of a vehicle are an image of its keys, so no
   more than the assignment counted; what `trim_drops` ranks below the limit is
   then all of them. That covers the two computations agreeing, whatever the
   distances and ties.
3. `PushesTheUrgent`: the orders by which overflow is pushed are taken from a strict
   order (`PushOrderStrict`) until their weight reaches the excess, and
   `TakenIsEnough` says of any such taking that it is enough, closed under what
   comes first, and not enough without its last member.
4. `MustShipAlwaysReported` and `AnswersAsPromised` share the invariant `AInv`:
   items are written from the solved state and not before, nothing is trimmed
   before the routing. The second is the refinement of `Placement`. The weight an
   answer puts on a vehicle is the weight of a subset of what the assignment put
   there (`CarriesWithin`), and its drops are among those counted.

`PlanView`, for any plan, fleet, thresholds and days:

1. `TypeCorrect`.
2. `UrgentAlwaysLeaves`: an order that is due makes its route's least slack due,
   a route that is due is neither thin-and-held nor left over by the room in the
   warehouse, so approving the plan reaches it.
3. `OverflowAlwaysRelieved`: again `TakenIsEnough`, for routes ordered by urgency.
4. `ShownIsAlwaysSent`: listing completed routes as well can only make more routes
   leave for want of room (`ListingMoreSendsMore`).
5. `BooksAlwaysAgree`: each book's sum is taken apart into the view's classes, which
   are disjoint and count every order once (`CountedOnce`, `WeighedOnce`). Only one
   part needs the history: the orders of a completed route are delivered, unless they
   were deleted (`CompletedDelivered`).

`PlansPage`, for any tabs, handlers, runs and vehicles:

1. `TypeCorrect` and `GeneratedIsAlwaysShown`, with overlapping clicks. A handler
   that has generated a run has it in hand until it has shown it (`MadeAreShown`).
2. `RouteActionsAlwaysHitShown`, for `Patient`: no tab is clicked while it handles
   the last click. The invariant says that a tab has at most one handler under
   way, that the context of a tab is the run of its rows unless a view is being
   loaded (`PagesAgree`), and that a handler has the run of the context in hand
   while it loads or selects, and that of the rows when it acts (`RunsAgree`).

`WarehouseQueue`, for any orders, rows and sessions:

1. `TypeCorrect`. Adding is the interesting part: the next row id is free and the
   next position is behind all others, because a finite set of numbers has a
   greatest element (`MaxExists`).
2. `DequeueAlwaysRenumbers`, for overlapping sessions. `RepackedTable`: the ranks
   are an injection of the n rows into 1..n, hence onto it.
3. `PositionsStayDistinct`, for `SerialSpec`. Distinctness alone is not inductive:
   a pending enqueue carries a position and a pending move two, read earlier.
   `SerialInv` adds that only one handler is pending (`OneAtATime`) and that what
   it read still holds (`Fresh`). `EnqueueLeaves`, `MoveLeaves` and the other
   lemmas on what a transaction leaves serve both this proof and the first.
4. `TableIsALine`, for `SerialSpec`: the table implements `QueueOrder`. To
   `SerialInv` come that no order has two rows (`Unique`) and that the rows of a
   pending move are neighbours still (`StillNeighbours`). Then who is ahead of
   whom can be read off row by row (`AheadIsByPosition`), and each transaction is
   one step of the line: rows that enter join it (`InsertedJoins`), rows that stay
   keep their places, renumbered or not (`KeptTakesOut`, `RepackedKeepsLine`), two
   rows that exchange positions swap (`SwappedLine`).

`Buffering`: `BufferDecisionAlwaysSound`, for any orders, days and tariffs. Storage
grows with the days (`CostGrows`), so if any day saves enough the first one does.

`SettingsPage`, for any jobs, threads, vehicles, forms and days:

1. `InForceAlwaysWhole`. The settings in force are what some thread read some time
   ago, so the invariant has to follow every value on its way: the file is torn or
   whole with respect to what was saved (`WholeOverrides`), a pending save carries
   whole overrides once its own change is counted in, a pending read carries whole
   settings. Saving a form to whole overrides keeps them whole (`MergedWhole`),
   because a form has all fields; more saved changes take nothing away
   (`JobsStayWhole`).
2. `TypeCorrect`: `TInv` gives the jobs of each kind what they hold at each step.
3. `SyncAlwaysReachesTarget`: the first k of a finite strictly ordered set are k
   (`FirstCount`), vehicles are such a set because their codes differ
   (`CodesOrdered`), so what a job activates, creates or deactivates makes up the
   difference between what it read and its target (`SizeAfterWrite`).

`Backup`, for any users, threads, number of kept copies, commits and seconds:

1. `FlagAlwaysMeansGenerating` is inductive by itself.
2. `TypeCorrect`: the steps of a job are told apart by kind (`BackupSteps`,
   `RestoreSteps`), because a record may change its place but not its fields.
3. `RestoreAlwaysGivesSelected` assumes `OneRestorer`: two restores of one source
   share one `.restore` file. Its strengthening `StagedIsSelected` says that the
   copy set aside is what was selected until it is used, and that the content on
   its way into the live file is too.
4. `OverwrittenAlwaysSaved`, for `OneRestorer` as well: a second restore could write
   over the live file between the first one's safety copy and its own writing.
   `AllBacked` says that until a restore writes, the live file holds what it held
   when the restore was asked for or a later commit, and that the newest backup
   does once the safety copy is made; pruning keeps the newest (`NewestIsKept`).

`ImportOrders`, for any files, importers, tabs, places and dictionary:

1. `FileAlwaysKept`. In a finite strict order the ranks are 0 up to the size less
   one, each of one element (`RanksOnto`), so `InOrder` lists a set from end to end,
   each element once (`InOrderOnto`). For shipments that gives that every number is
   kept once, where it comes first (`EachNumberOnce`); the numbers of one row differ
   unless it names something twice (`NumbersDiffer`). For rows it gives that merging
   sees all rows of a code and no other (`RowsType`), and for codes that storing adds
   exactly the new ones, each at an id of its own (`StoredIsAdded`). `OrderInRead`
   puts together what is then stored of a code.
2. `ImportTypeCorrect`. What is inserted is a row of the table (`NewRowRight`) at ids
   that are free (`LastIdIsLast`), and the codes an import holds are codes of its file.
3. `CoordsAlwaysNearest`: the import and the coordinates job look a place up in the
   same way (`CoordsType`), so an order has either its place's coordinates or its
   city's, and none only if it came without.
4. `OneOrderAlwaysPerCode` assumes `OneImporter`, that no two imports are under way
   at once; with two it is false (`import_twice`). That no code is stored twice is
   not inductive: an import stores codes it read some time ago. `CodesInv` adds that
   no order has a code an import has found new (`NoneOf`), which nobody but an
   importer could undo.

`SumLemmas` proves what the others need of `SumFunctionOnSet` and of strict orders
over finite sets. The proofs about finite sets go by a smallest counterexample
(`SmallestCounterexample`), from the well-foundedness of strict inclusion: that
is induction without an operator as parameter, which no prover here can instantiate.

Only model-checked:

* liveness (`FlagIsCleared`, `HeldRouteLeaves`), which is out of the prover's reach
  with the fairness it rests on;
* the violations, which are counterexamples.

The other way round, `DequeueRenumbers` is checked for calls that do not overlap
and proved for those that do, and `ClosedRoutesKept` and `NoOrderStranded` are
checked without overlapping generations and proved with them.

## Not modelled

* The reads and writes of the route handlers of two users as separate steps; the
  theorems about `Planning` are about calls that do not overlap.
* The search inside CP-SAT and OR-Tools: every answer their constraints allow is
  possible. Distances: a stateless client with a cache whose values never change;
  a cell OSRM leaves out counts as no distance.
* `run_assignment` (called by tests only), `rename_plan` (a label), the pallets of
  approved orders (no decision reads them), notes on queue rows, the audit log.
* The dictionary of coordinates changing: no working operation of the page edits it.
* Lines and arrows on the map, comparing generations, system status: display.
* Page layout, texts, filters, authentication: no state other components look at.
* SQLite's write-ahead log and connections left open across a restore.
