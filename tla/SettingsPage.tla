---------------------------- MODULE SettingsPage ----------------------------
(***************************************************************************)
(* The settings page: the fleet tab, which brings the number of active     *)
(* vehicles of a type to a wanted one, and the parameters tab, which keeps *)
(* overrides of the settings in a file and the settings in force in a      *)
(* cache.                                                                  *)
(*                                                                         *)
(* Jobs run in threads.  A fleet job reads the vehicles, then writes; the  *)
(* write lock starts with its first write.  Saving parameters reads the    *)
(* file, truncates it, writes it and clears the cache, one after another,  *)
(* and any thread that finds the cache empty reads the file and then fills *)
(* the cache.  The planning page saves one of them, the planning day, in    *)
(* the same way.                                                           *)
(***************************************************************************)
EXTENDS Integers, FiniteSetsExt, SequencesExt

CONSTANTS
    FleetJobs,       \* jobs of the fleet tab that run at the same time
    Threads,         \* threads that save or read the settings
    Types,           \* vehicle types, numbers in the order of their code prefixes
    MaxVehicle,      \* bound: vehicle ids are 1..MaxVehicle
    Seed,            \* the vehicles of seed_placeholder_fleet
    FormCodes,       \* codes typed in for a new vehicle: a prefix and a number
    Targets,         \* numbers of vehicles the page may be asked for
    Env,             \* the settings without overrides
    Forms,           \* what the parameters tab may hold
    Today,           \* the day by the calendar
    LastDay          \* bound: planning days are up to LastDay

Vehicles == 1..MaxVehicle
NoVehicle == [type |-> 0, code |-> <<0, 0>>, active |-> FALSE, busy |-> FALSE]

ASSUME TypesAssumption == Types \subseteq Nat \ {0} /\ Targets \subseteq Nat
ASSUME MaxVehicleAssumption == MaxVehicle \in Nat

\* The first vehicles have codes of their own; a code that is typed in has any
\* prefix and number.
ASSUME SeedAssumption ==
    /\ Seed \in Seq([type : Types, code : Nat \X Nat, active : BOOLEAN, busy : BOOLEAN])
    /\ \A i, j \in DOMAIN Seed : Seed[i].code = Seed[j].code => i = j
ASSUME FormCodesAssumption == FormCodes \subseteq Nat \X Nat

\* The only parameter that may be empty: the planning day.
NoDay == 0

Settings == [fill : Nat, drops : Nat, day : 0..LastDay]

ASSUME FormsAssumption == Env \in Settings /\ Forms \subseteq Settings
ASSUME DaysAssumption == LastDay \in Nat /\ Today \in 1..LastDay

VARIABLES
    vehicle,    \* vehicles: a row for each id in use
    file,       \* runtime_settings.json
    cache,      \* the cache of get_settings, empty or one value
    job,        \* what a job or a thread has read
    saved       \* history: the changes whose file was written

fleetVars == <<vehicle>>
settingsVars == <<file, cache, saved>>
vars == <<vehicle, file, cache, job, saved>>

Idle == [do |-> "nothing"]
Begin(u, task) == job[u] = Idle /\ job' = [job EXCEPT ![u] = task]
Continue(u, task) == job' = [job EXCEPT ![u] = task]

-----------------------------------------------------------------------------
(* The fleet: sync_fleet_units. *)

Fleet(v) == {i \in Vehicles : v[i] # NoVehicle}
OfType(v, t) == {i \in Fleet(v) : v[i].type = t}
ListByType(v, t) == [i \in Vehicles |-> IF i \in OfType(v, t) THEN v[i] ELSE NoVehicle]
Active(v, t) == {i \in OfType(v, t) : v[i].active}
Busy(v, t) == {i \in OfType(v, t) : v[i].busy}

\* Codes are ordered by prefix and number.
Before(v, i, j) ==
    \/ v[i].code[1] < v[j].code[1]
    \/ v[i].code[1] = v[j].code[1] /\ v[i].code[2] < v[j].code[2]

\* The first n of a set of vehicles in the order of their codes, and the last.
FirstOf(v, S, n) == {i \in S : Cardinality({j \in S : Before(v, j, i)}) < n}
LastOf(v, S, n) == {i \in S : Cardinality({j \in S : Before(v, i, j)}) < n}

\* Inactive vehicles that are made active again.
Reactivated(v, t, n) ==
    FirstOf(v, OfType(v, t) \ Active(v, t), n - Cardinality(Active(v, t)))

\* How many vehicles are created.
Missing(v, t, n) == n - Cardinality(OfType(v, t))

\* Faulty variant: busy vehicles use up the number to deactivate.
DeactivatedAmongLast(v, t, n) ==
    LastOf(v, Active(v, t), Cardinality(Active(v, t)) - n) \ Busy(v, t)

\* Active vehicles that are not busy, from the highest code down.
Deactivated(v, t, n) ==
    LastOf(v, Active(v, t) \ Busy(v, t), Cardinality(Active(v, t)) - n)

\* _next_code looks at the vehicles of the type only.
LastNumber(v, t) ==
    Max({v[i].code[2] : i \in {i \in OfType(v, t) : v[i].code[1] = t}} \cup {0})

Codes(v) == {v[i].code : i \in Fleet(v)}
LastVehicle == Max(Fleet(vehicle) \cup {0})

\* The vehicles of the type are read.
ReadFleet(u, t, n) ==
    /\ Begin(u, [do |-> "sync", type |-> t, target |-> n,
                 seen |-> ListByType(vehicle, t)])
    /\ UNCHANGED <<vehicle, settingsVars>>

\* The k-th vehicle that is created; its code follows those in use by then.
Created(t, k) ==
    [type |-> t, code |-> <<t, LastNumber(vehicle, t) + k>>, active |-> TRUE, busy |-> FALSE]

\* Activity is decided from what was read, codes from what is there.
WriteFleet(u) ==
    LET t == job[u].type  n == job[u].target  seen == job[u].seen
        new == [i \in (LastVehicle + 1)..(LastVehicle + Missing(seen, t, n)) |->
                   Created(t, i - LastVehicle)]
        off == Deactivated(seen, t, n)
        on == Reactivated(seen, t, n)
    IN  /\ job[u].do = "sync"
        /\ DOMAIN new \subseteq Vehicles
        /\ \A i \in DOMAIN new : new[i].code \notin Codes(vehicle)
        /\ vehicle' = [i \in Vehicles |->
               IF i \in DOMAIN new THEN new[i]
               ELSE [vehicle[i] EXCEPT !.active = (@ \/ i \in on) /\ i \notin off]]
        /\ Continue(u, Idle)
        /\ UNCHANGED settingsVars

\* A code that exists, a database that is locked: nothing is written.
FailFleet(u) ==
    /\ job[u].do = "sync"
    /\ Continue(u, Idle)
    /\ UNCHANGED <<vehicle, settingsVars>>

\* _save_vehicle: a vehicle that is edited becomes what the form holds.  (Codes
\* that are edited are left out: only those of new vehicles are typed.)
SaveVehicle(i, t, on) ==
    /\ i \in Fleet(vehicle)
    /\ vehicle' = [vehicle EXCEPT ![i].type = t, ![i].active = on]
    /\ UNCHANGED <<job, settingsVars>>

\* _save_vehicle without a row being edited: the form is a new vehicle.
AddVehicle(t, code, on) ==
    LET i == LastVehicle + 1
    IN  /\ i \in Vehicles
        /\ code \notin Codes(vehicle)
        /\ vehicle' = [vehicle EXCEPT ![i] =
                          [type |-> t, code |-> code, active |-> on, busy |-> FALSE]]
        /\ UNCHANGED <<job, settingsVars>>

\* set_busy: routes are approved, released and completed.
SetBusy(i, b) ==
    /\ i \in Fleet(vehicle)
    /\ vehicle[i].busy # b
    /\ vehicle' = [vehicle EXCEPT ![i].busy = b]
    /\ UNCHANGED <<job, settingsVars>>

FleetNext ==
    \/ \E u \in FleetJobs : \/ \E t \in Types, n \in Targets : ReadFleet(u, t, n)
                            \/ WriteFleet(u)
                            \/ FailFleet(u)
    \/ \E t \in Types, on \in BOOLEAN :
          \/ \E code \in FormCodes : AddVehicle(t, code, on)
          \/ \E i \in Vehicles : SaveVehicle(i, t, on)
    \/ \E i \in Vehicles, b \in BOOLEAN : SetBusy(i, b)

-----------------------------------------------------------------------------
(* The parameters: save_runtime_overrides and get_settings. *)

\* Overrides: a value for some of the settings.  A file that cannot be parsed
\* has none.
None == [k \in {} |-> 0]
Torn == [k \in {"torn"} |-> 0]
Overrides(content) == IF content = Torn THEN None ELSE content

\* What a save changes: all fields of a form, or the planning day alone.
DayOnly(day) == [k \in {"day"} |-> day]

Changed(current, updates, k) == IF k \in DOMAIN updates THEN updates[k] ELSE current[k]

\* Faulty variant: an empty field is written as an override too.
MergedWithEmpty(current, updates) ==
    [k \in DOMAIN current \cup DOMAIN updates |-> Changed(current, updates, k)]

\* Faulty variant: a value that is the default leaves the override as it was.
MergedUnlessDefault(current, updates) ==
    LET new == {k \in DOMAIN updates : updates[k] # Env[k]}
    IN  [k \in DOMAIN current \cup new |-> IF k \in new THEN updates[k] ELSE current[k]]

\* The overrides after a save: an empty day takes its override away.
Merged(current, updates) ==
    [k \in {k \in DOMAIN current \cup DOMAIN updates :
               k # "day" \/ Changed(current, updates, k) # NoDay} |-> Changed(current, updates, k)]

\* _apply_runtime_overrides.
Overlaid(content) ==
    [k \in DOMAIN Env |-> IF k \in DOMAIN Overrides(content) THEN content[k] ELSE Env[k]]

\* save_runtime_overrides, as far as reading what there is.
ReadOverrides(u, updates) ==
    /\ Begin(u, [do |-> "save", updates |-> updates, next |-> Merged(Overrides(file), updates)])
    /\ UNCHANGED <<fleetVars, settingsVars>>

SaveForm(u, form) == ReadOverrides(u, form)
SaveDay(u, day) == ReadOverrides(u, DayOnly(day))

\* The next day is that after the day in force.
AdvanceDay(u) ==
    \E s \in cache :
        LET day == IF s.day = NoDay THEN Today ELSE s.day
        IN  day < LastDay /\ ReadOverrides(u, DayOnly(day + 1))

\* write_text: the file is truncated when it is opened, and whole when it is
\* closed.
Truncate(u) ==
    /\ job[u].do = "save"
    /\ file' = Torn
    /\ Continue(u, [do |-> "write", updates |-> job[u].updates, next |-> job[u].next])
    /\ UNCHANGED <<fleetVars, cache, saved>>

\* Two that write at once may leave a file that cannot be parsed.
WriteFile(u) ==
    /\ job[u].do = "write"
    /\ file' \in {job[u].next} \cup (IF file = Torn THEN {} ELSE {Torn})
    /\ saved' = saved \cup {job[u].updates}
    /\ Continue(u, [do |-> "clear"])
    /\ UNCHANGED <<fleetVars, cache>>

\* cache_clear; the audit record fails or is written, the file stays.
ClearCache(u) ==
    /\ job[u].do = "clear"
    /\ cache' = {}
    /\ Continue(u, Idle)
    /\ UNCHANGED <<fleetVars, file, saved>>

\* get_settings with an empty cache reads the file...
ReadFile(u) ==
    /\ cache = {}
    /\ Begin(u, [do |-> "get", settings |-> Overlaid(file)])
    /\ UNCHANGED <<fleetVars, settingsVars>>

\* ...and keeps what it has read unless another call has come first.
FillCache(u) ==
    /\ job[u].do = "get"
    /\ cache' = IF cache = {} THEN {job[u].settings} ELSE cache
    /\ Continue(u, Idle)
    /\ UNCHANGED <<fleetVars, file, saved>>

\* The program stops, at whatever moment, and is started again.
Restart ==
    /\ job' = [u \in FleetJobs \cup Threads |-> Idle]
    /\ cache' = {}
    /\ UNCHANGED <<fleetVars, file, saved>>

SettingsNext ==
    \/ \E u \in Threads : \/ \E form \in Forms : SaveForm(u, form)
                          \/ \E day \in 0..LastDay : SaveDay(u, day)
                          \/ AdvanceDay(u)
                          \/ Truncate(u)
                          \/ WriteFile(u)
                          \/ ClearCache(u)
                          \/ ReadFile(u)
                          \/ FillCache(u)
    \/ Restart

-----------------------------------------------------------------------------

Init ==
    /\ vehicle = [i \in Vehicles |-> IF i \in DOMAIN Seed THEN Seed[i] ELSE NoVehicle]
    /\ file = None
    /\ cache = {}
    /\ job = [u \in FleetJobs \cup Threads |-> Idle]
    /\ saved = {}

Next == FleetNext \/ SettingsNext

Spec == Init /\ [][Next]_vars

-----------------------------------------------------------------------------
(* Properties. *)

\* The type invariant.  No two vehicles have the same code, the file has no
\* override for an empty field, and the settings in force are one value.
TypeOK ==
    /\ \A i \in Vehicles :
          /\ vehicle[i] # NoVehicle => vehicle[i].type \in Types
          /\ vehicle[i].active \in BOOLEAN /\ vehicle[i].busy \in BOOLEAN
    /\ Cardinality(Codes(vehicle)) = Cardinality(Fleet(vehicle))
    /\ file # Torn => /\ DOMAIN file \subseteq DOMAIN Env
                      /\ \A k \in DOMAIN file : file[k] \in Nat /\ (k = "day" => file[k] # NoDay)
    /\ Cardinality(cache) <= 1
    /\ saved \subseteq Forms \cup {DayOnly(day) : day \in 0..LastDay}

\* A fleet job that nobody interferes with leaves as many active vehicles of the
\* type as were asked for, and more only if they are all busy; busy vehicles stay
\* active, other types are left alone, and a vehicle is created only when all of
\* the type are active.
SyncReachesTarget ==
    [][\A u \in FleetJobs :
           (WriteFleet(u) /\ job[u].seen = ListByType(vehicle, job[u].type)) =>
           LET t == job[u].type  n == job[u].target
           IN  /\ Cardinality(Active(vehicle', t)) =
                     Max({n, Cardinality(Active(vehicle, t) \cap Busy(vehicle, t))})
               /\ \A i \in Fleet(vehicle) :
                     (vehicle[i].type # t \/ (vehicle[i].busy /\ vehicle[i].active)) =>
                         vehicle'[i] = vehicle[i]
               /\ Fleet(vehicle') # Fleet(vehicle) => OfType(vehicle, t) \subseteq Active(vehicle', t)]_vars

\* The settings in force are those of the environment or of one saved form as a
\* whole, whatever is written, read, torn or restarted in between: never a mix
\* of two forms.  Only the planning day, which is saved by itself as well, may
\* be another saved one.
InForceIsWhole ==
    \A s \in cache :
        /\ \E form \in {Env} \cup (saved \cap Forms) : s.fill = form.fill /\ s.drops = form.drops
        /\ s.day = Env.day \/ \E updates \in saved : s.day = updates["day"]
=============================================================================
