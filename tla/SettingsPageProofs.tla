-------------------------- MODULE SettingsPageProofs --------------------------
(* What TLAPS proves of SettingsPage, for any forms, days, threads and         *)
(* vehicles.                                                                   *)
EXTENDS SettingsPage, SumLemmas

\* What a thread saves: a form, or a day alone.
IsChange(updates) == updates \in Forms \/ DOMAIN updates = {"day"}

Users == FleetJobs \cup Threads

\* Overrides or settings that come from a set S of changes: all fields but the
\* day from one form, the day from any change.
FromForm(c, S) == \E form \in S \cap Forms : c["fill"] = form.fill /\ c["drops"] = form.drops
FromDay(c, S) == \E updates \in S : c["day"] = updates["day"]

WholeOverrides(c, S) ==
    /\ "fill" \in DOMAIN c <=> "drops" \in DOMAIN c
    /\ "fill" \in DOMAIN c => FromForm(c, S)
    /\ "day" \in DOMAIN c => FromDay(c, S)

WholeSettings(s, S) ==
    /\ (s.fill = Env.fill /\ s.drops = Env.drops) \/ FromForm(s, S)
    /\ s.day = Env.day \/ FromDay(s, S)

\* What a job is about to write comes from what was saved and its own change,
\* what it has read from what was saved.
JobWhole(j, S) ==
    /\ j.do \in {"save", "write"} =>
          IsChange(j.updates) /\ WholeOverrides(j.next, S \cup {j.updates})
    /\ j.do = "get" => WholeSettings(j.settings, S)

\* The inductive invariant: the file, unless it is torn, every job, and the
\* cache.
IInv ==
    /\ file = Torn \/ WholeOverrides(file, saved)
    /\ job = [u \in Users |-> job[u]]
    /\ \A u \in Users : JobWhole(job[u], saved)
    /\ \A s \in cache : WholeSettings(s, saved)

-----------------------------------------------------------------------------
(* More saved changes take nothing away. *)

LEMMA OverridesStayWhole ==
    ASSUME NEW c, NEW S, NEW T, S \subseteq T, WholeOverrides(c, S)
    PROVE  WholeOverrides(c, T)
BY DEF WholeOverrides, FromForm, FromDay

LEMMA SettingsStayWhole ==
    ASSUME NEW s, NEW S, NEW T, S \subseteq T, WholeSettings(s, S)
    PROVE  WholeSettings(s, T)
BY DEF WholeSettings, FromForm, FromDay

LEMMA JobsStayWhole ==
    ASSUME NEW j, NEW S, NEW T, S \subseteq T, JobWhole(j, S)
    PROVE  JobWhole(j, T)
<1>1. ASSUME j.do \in {"save", "write"}
      PROVE  IsChange(j.updates) /\ WholeOverrides(j.next, T \cup {j.updates})
    BY <1>1, OverridesStayWhole, S \cup {j.updates} \subseteq T \cup {j.updates} DEF JobWhole
<1>2. ASSUME j.do = "get"
      PROVE  WholeSettings(j.settings, T)
    BY <1>2, SettingsStayWhole DEF JobWhole
<1> QED BY <1>1, <1>2 DEF JobWhole

-----------------------------------------------------------------------------
(* Saving and reading. *)

LEMMA NoneWhole == ASSUME NEW S PROVE WholeOverrides(None, S)
BY DEF WholeOverrides, None

\* What the file is taken to hold is whole.
LEMMA ReadWhole == ASSUME IInv PROVE WholeOverrides(Overrides(file), saved)
BY NoneWhole DEF IInv, Overrides

\* Saving a form or a day to whole overrides keeps them whole.
LEMMA MergedWhole ==
    ASSUME NEW c, NEW S, WholeOverrides(c, S), NEW updates, IsChange(updates)
    PROVE  WholeOverrides(Merged(c, updates), S \cup {updates})
<1> DEFINE m == Merged(c, updates)
<1>1. DOMAIN m = {k \in DOMAIN c \cup DOMAIN updates :
                     k # "day" \/ Changed(c, updates, k) # NoDay}
    BY DEF Merged
<1>2. \A k \in DOMAIN m : m[k] = IF k \in DOMAIN updates THEN updates[k] ELSE c[k]
    BY DEF Merged, Changed
<1> HIDE DEF m
<1>3. "day" \in DOMAIN m => FromDay(m, S \cup {updates})
    BY <1>1, <1>2 DEF WholeOverrides, FromDay
<1>4. CASE updates \in Forms
    <2>1. DOMAIN updates = {"fill", "drops", "day"}
        BY <1>4, FormsAssumption DEF Settings
    <2>2. /\ "fill" \in DOMAIN m /\ m["fill"] = updates.fill
          /\ "drops" \in DOMAIN m /\ m["drops"] = updates.drops
        BY <1>1, <1>2, <2>1
    <2>3. FromForm(m, S \cup {updates})
        BY <1>4, <2>2 DEF FromForm
    <2> QED BY <1>3, <2>2, <2>3 DEF WholeOverrides, m
<1>5. CASE DOMAIN updates = {"day"}
    <2>1. /\ "fill" \in DOMAIN m <=> "fill" \in DOMAIN c
          /\ "drops" \in DOMAIN m <=> "drops" \in DOMAIN c
          /\ "fill" \in DOMAIN m => m["fill"] = c["fill"]
          /\ "drops" \in DOMAIN m => m["drops"] = c["drops"]
        BY <1>1, <1>2, <1>5
    <2>2. "fill" \in DOMAIN m => FromForm(m, S \cup {updates})
        BY <2>1 DEF WholeOverrides, FromForm
    <2> QED BY <1>3, <2>1, <2>2 DEF WholeOverrides, m
<1> QED BY <1>4, <1>5 DEF IsChange

\* Settings with whole overrides are whole.
LEMMA OverlaidWhole ==
    ASSUME IInv PROVE WholeSettings(Overlaid(file), saved)
<1> DEFINE s == Overlaid(file)
<1>1. WholeOverrides(Overrides(file), saved)
    BY ReadWhole
<1>2. DOMAIN Env = {"fill", "drops", "day"}
    BY FormsAssumption DEF Settings
<1>3. CASE file = Torn
    <2>1. DOMAIN Overrides(file) = {}
        BY <1>3 DEF Overrides, None
    <2>2. s.fill = Env.fill /\ s.drops = Env.drops /\ s.day = Env.day
        BY <1>2, <2>1 DEF Overlaid
    <2> QED BY <2>2 DEF WholeSettings
<1>4. CASE file # Torn
    <2>1. Overrides(file) = file
        BY <1>4 DEF Overrides
    <2>2. \A k \in {"fill", "drops", "day"} :
             s[k] = IF k \in DOMAIN file THEN file[k] ELSE Env[k]
        BY <1>2, <2>1 DEF Overlaid
    <2> HIDE DEF s
    <2>3. (s.fill = Env.fill /\ s.drops = Env.drops) \/ FromForm(s, saved)
        BY <1>1, <2>1, <2>2 DEF WholeOverrides, FromForm
    <2>4. s.day = Env.day \/ FromDay(s, saved)
        BY <1>1, <2>1, <2>2 DEF WholeOverrides, FromDay
    <2> QED BY <2>3, <2>4 DEF WholeSettings, s
<1> QED BY <1>3, <1>4

-----------------------------------------------------------------------------
(* The steps. *)

\* A step of one job that writes neither file nor cache.
LEMMA JobStep ==
    ASSUME IInv, NEW u \in Users, NEW task, JobWhole(task, saved),
           job' = [job EXCEPT ![u] = task], UNCHANGED settingsVars
    PROVE  IInv'
BY DEF IInv, settingsVars

LEMMA IdleWhole == ASSUME NEW S PROVE JobWhole(Idle, S)
BY DEF JobWhole, Idle

LEMMA FleetStep == ASSUME IInv, FleetNext PROVE IInv'
<1>1. ASSUME NEW u \in FleetJobs, NEW t \in Types, NEW n \in Targets, ReadFleet(u, t, n)
      PROVE  IInv'
    <2> DEFINE task == [do |-> "sync", type |-> t, target |-> n, seen |-> ListByType(vehicle, t)]
    <2>1. JobWhole(task, saved)
        BY DEF JobWhole
    <2> QED BY <1>1, <2>1, JobStep DEF ReadFleet, Begin, Users
<1>2. ASSUME NEW u \in FleetJobs, WriteFleet(u) \/ FailFleet(u)
      PROVE  IInv'
    <2>1. Continue(u, Idle) /\ UNCHANGED settingsVars
        BY <1>2 DEF WriteFleet, FailFleet
    <2> QED BY <2>1, IdleWhole, JobStep DEF Continue, Users
<1>3. ASSUME UNCHANGED <<job, settingsVars>>
      PROVE  IInv'
    BY <1>3 DEF IInv, settingsVars
<1> QED BY <1>1, <1>2, <1>3 DEF FleetNext, SaveVehicle, AddVehicle, SetBusy

LEMMA ReadOverridesStep ==
    ASSUME IInv, NEW u \in Threads, NEW updates, IsChange(updates), ReadOverrides(u, updates)
    PROVE  IInv'
<1> DEFINE task == [do |-> "save", updates |-> updates, next |-> Merged(Overrides(file), updates)]
<1>1. JobWhole(task, saved)
    BY ReadWhole, MergedWhole DEF JobWhole
<1> QED BY <1>1, JobStep DEF ReadOverrides, Begin, Users

LEMMA TruncateStep ==
    ASSUME IInv, NEW u \in Threads, Truncate(u)
    PROVE  IInv'
<1> DEFINE task == [do |-> "write", updates |-> job[u].updates, next |-> job[u].next]
<1>1. JobWhole(job[u], saved) /\ job[u].do = "save"
    BY DEF IInv, Truncate, Users
<1>2. JobWhole(task, saved)
    BY <1>1 DEF JobWhole
<1>3. job' = [job EXCEPT ![u] = task] /\ file' = Torn /\ UNCHANGED <<cache, saved>>
    BY DEF Truncate, Continue
<1> QED BY <1>2, <1>3 DEF IInv, Users

\* What is written is whole once the change counts as saved.
LEMMA WriteFileStep ==
    ASSUME IInv, NEW u \in Threads, WriteFile(u)
    PROVE  IInv'
<1> DEFINE task == [do |-> "clear"]
<1>1. /\ job' = [job EXCEPT ![u] = task]
      /\ saved' = saved \cup {job[u].updates}
      /\ cache' = cache
      /\ file' = job[u].next \/ file' = Torn
    BY DEF WriteFile, Continue
<1>2. saved \subseteq saved'
    BY <1>1
<1>3. WholeOverrides(job[u].next, saved')
    BY <1>1 DEF IInv, JobWhole, WriteFile, Users
<1>4. (file = Torn \/ WholeOverrides(file, saved))'
    BY <1>1, <1>3
<1>5. JobWhole(task, saved')
    BY DEF JobWhole
<1>6. \A w \in Users : JobWhole(job[w], saved')
    BY <1>2, JobsStayWhole DEF IInv
<1>7. (job = [w \in Users |-> job[w]])' /\ \A w \in Users : JobWhole(job'[w], saved')
    BY <1>1, <1>5, <1>6 DEF IInv
<1>8. \A s \in cache' : WholeSettings(s, saved')
    BY <1>1, <1>2, SettingsStayWhole DEF IInv
<1> QED BY <1>4, <1>7, <1>8 DEF IInv

LEMMA ReadFileStep ==
    ASSUME IInv, NEW u \in Threads, ReadFile(u)
    PROVE  IInv'
<1> DEFINE task == [do |-> "get", settings |-> Overlaid(file)]
<1>1. JobWhole(task, saved)
    BY OverlaidWhole DEF JobWhole
<1> QED BY <1>1, JobStep DEF ReadFile, Begin, Users

LEMMA CacheStep ==
    ASSUME IInv, NEW u \in Threads, ClearCache(u) \/ FillCache(u)
    PROVE  IInv'
<1>1. job' = [job EXCEPT ![u] = Idle] /\ UNCHANGED <<file, saved>>
    BY DEF ClearCache, FillCache, Continue
<1>2. \A s \in cache' : WholeSettings(s, saved)
    <2>1. CASE ClearCache(u)
        BY <2>1 DEF ClearCache
    <2>2. CASE FillCache(u)
        <3>1. WholeSettings(job[u].settings, saved)
            BY <2>2 DEF FillCache, IInv, JobWhole, Users
        <3> QED BY <2>2, <3>1 DEF FillCache, IInv
    <2> QED BY <2>1, <2>2
<1> QED BY <1>1, <1>2, IdleWhole DEF IInv, Users

LEMMA RestartStep == ASSUME IInv, Restart PROVE IInv'
<1>1. job' = [u \in Users |-> Idle] /\ cache' = {} /\ UNCHANGED <<file, saved>>
    BY DEF Restart, Users
<1> QED BY <1>1, IdleWhole DEF IInv

\* The planning page's changes are changes of the day.
LEMMA SettingsStep == ASSUME IInv, SettingsNext PROVE IInv'
<1>1. ASSUME NEW u \in Threads, NEW form \in Forms, SaveForm(u, form)
      PROVE  IInv'
    BY <1>1, ReadOverridesStep DEF SaveForm, IsChange
<1>2. ASSUME NEW u \in Threads, NEW day, ReadOverrides(u, DayOnly(day))
      PROVE  IInv'
    BY <1>2, ReadOverridesStep DEF DayOnly, IsChange
<1>3. ASSUME NEW u \in Threads, (\E day \in 0..LastDay : SaveDay(u, day)) \/ AdvanceDay(u)
      PROVE  IInv'
    BY <1>2, <1>3 DEF SaveDay, AdvanceDay
<1> QED
    BY <1>1, <1>2, <1>3, TruncateStep, WriteFileStep, ReadFileStep, CacheStep, RestartStep
    DEF SettingsNext

-----------------------------------------------------------------------------

\* Initially there are no overrides, no jobs and no settings in force.
LEMMA InitWhole == ASSUME Init PROVE IInv
<1>1. job = [u \in Users |-> Idle] /\ file = None /\ cache = {} /\ saved = {}
    BY DEF Init, Users
<1> QED BY <1>1, NoneWhole, IdleWhole DEF IInv

\* The settings in force are those of the environment or of one saved form, and
\* the day is that of the environment or a saved one: for any number of threads,
\* whatever saves, reads, tears and restarts overlap.
THEOREM InForceAlwaysWhole == Spec => []InForceIsWhole
<1>1. Init => IInv
    BY InitWhole
<1>2. IInv /\ [Next]_vars => IInv'
    <2>1. ASSUME IInv, Next PROVE IInv'
        BY <2>1, FleetStep, SettingsStep DEF Next
    <2>2. ASSUME IInv, UNCHANGED vars PROVE IInv'
        BY <2>2 DEF IInv, vars
    <2> QED BY <2>1, <2>2
<1>3. IInv => InForceIsWhole
    BY DEF IInv, InForceIsWhole, WholeSettings, FromForm, FromDay
<1> QED BY <1>1, <1>2, <1>3, PTL DEF Spec

-----------------------------------------------------------------------------
(* The types of both tabs, which are proved by themselves. *)

Row == [type : Types, code : Nat \X Nat, active : BOOLEAN, busy : BOOLEAN]

RowsOK(v) == v \in [Vehicles -> Row \cup {NoVehicle}]
CodesDistinct(v) == \A i, j \in Fleet(v) : v[i].code = v[j].code => i = j

Changes == Forms \cup {DayOnly(day) : day \in 0..LastDay}

OverridesOK(c) ==
    /\ DOMAIN c \subseteq {"fill", "drops", "day"}
    /\ \A k \in DOMAIN c : c[k] \in Nat
    /\ "day" \in DOMAIN c => c["day"] \in 1..LastDay

\* What a fleet job has read are vehicles, and vehicles do not go.
SyncTyped(j, v) ==
    j.do = "sync" =>
        /\ j.type \in Types /\ j.target \in Nat
        /\ RowsOK(j.seen) /\ Fleet(j.seen) \subseteq Fleet(v)

JobTyped(j) ==
    /\ j.do \in {"save", "write"} => j.updates \in Changes /\ OverridesOK(j.next)
    /\ j.do = "get" => j.settings.day \in 0..LastDay

InForceOK(c) == c = {} \/ \E s : c = {s} /\ s.day \in 0..LastDay

FleetTyped ==
    /\ RowsOK(vehicle) /\ CodesDistinct(vehicle)
    /\ \A u \in Users : SyncTyped(job[u], vehicle)

ParametersTyped ==
    /\ file = Torn \/ OverridesOK(file)
    /\ saved \subseteq Changes
    /\ InForceOK(cache)
    /\ \A u \in Users : JobTyped(job[u])

JobsTyped == job = [u \in Users |-> job[u]]

TInv == JobsTyped /\ FleetTyped /\ ParametersTyped

-----------------------------------------------------------------------------
(* Vehicles: what is there, and what comes next. *)

LEMMA NoVehicleIsNoRow == NoVehicle \notin Row /\ \A r \in Row : r.type # NoVehicle.type
BY TypesAssumption DEF NoVehicle, Row

LEMMA VehicleSets ==
    ASSUME NEW S \in SUBSET Vehicles
    PROVE  S \subseteq Int /\ IsFiniteSet(S) /\ Cardinality(S) \in Nat
<1>1. Vehicles \subseteq Int
    BY MaxVehicleAssumption DEF Vehicles
<1>2. IsFiniteSet(Vehicles)
    BY MaxVehicleAssumption, FS_Interval DEF Vehicles
<1>3. IsFiniteSet(S)
    BY <1>2, FS_Subset
<1> QED BY <1>1, <1>3, FS_CardinalityType

LEMMA FleetRows ==
    ASSUME NEW v, RowsOK(v)
    PROVE  \A i \in Vehicles : IF i \in Fleet(v) THEN v[i] \in Row ELSE v[i] = NoVehicle
BY DEF RowsOK, Fleet

LEMMA LastVehicleIsLast ==
    ASSUME RowsOK(vehicle)
    PROVE  LastVehicle \in Nat /\ \A i \in Fleet(vehicle) : i <= LastVehicle
<1> DEFINE S == Fleet(vehicle) \cup {0}
<1>1. Fleet(vehicle) \in SUBSET Vehicles
    BY DEF Fleet
<1>2. S \in SUBSET Nat /\ IsFiniteSet(S) /\ S # {}
    BY <1>1, VehicleSets, MaxVehicleAssumption, FS_AddElement DEF Vehicles
<1>3. Max(S) \in S /\ \A x \in S : x <= Max(S)
    BY <1>2, MaxIsGreatest, Nat \subseteq Int
<1> QED BY <1>2, <1>3 DEF LastVehicle

LEMMA LastNumberIsNumber ==
    ASSUME RowsOK(vehicle), NEW t
    PROVE  LastNumber(vehicle, t) \in Nat
<1> DEFINE I == {i \in OfType(vehicle, t) : vehicle[i].code[1] = t}
           f == [i \in I |-> vehicle[i].code[2]]
           T == {vehicle[i].code[2] : i \in I}
<1>1. I \in SUBSET Vehicles /\ I \subseteq Fleet(vehicle)
    BY DEF OfType, Fleet
<1>2. T \subseteq Nat
    BY <1>1, FleetRows DEF Row
<1>3. f \in Surjection(I, T)
    BY DEF Surjection
<1>4. IsFiniteSet(T)
    BY <1>1, <1>3, VehicleSets, FS_Surjection
<1>5. T \cup {0} \in SUBSET Int /\ IsFiniteSet(T \cup {0}) /\ T \cup {0} # {}
    BY <1>2, <1>4, FS_AddElement
<1>6. Max(T \cup {0}) \in T \cup {0}
    BY <1>5, MaxIsGreatest
<1> QED BY <1>2, <1>6 DEF LastNumber

\* The rows a fleet job writes.
OldRow(u, i) ==
    LET on == Reactivated(job[u].seen, job[u].type, job[u].target)
        off == Deactivated(job[u].seen, job[u].type, job[u].target)
    IN  [vehicle[i] EXCEPT !.active = (@ \/ i \in on) /\ i \notin off]

NewIds(u) ==
    (LastVehicle + 1)..(LastVehicle + Missing(job[u].seen, job[u].type, job[u].target))

LEMMA WrittenRows ==
    ASSUME TInv, NEW u \in FleetJobs, WriteFleet(u)
    PROVE  /\ vehicle' = [i \in Vehicles |-> IF i \in NewIds(u) THEN Created(job[u].type, i - LastVehicle)
                                            ELSE OldRow(u, i)]
           /\ NewIds(u) \subseteq Vehicles /\ NewIds(u) \cap Fleet(vehicle) = {}
           /\ \A i \in NewIds(u) : Created(job[u].type, i - LastVehicle).code \notin Codes(vehicle)
           /\ Fleet(vehicle') = Fleet(vehicle) \cup NewIds(u)
           /\ \A i \in NewIds(u) : vehicle'[i] \in Row
           /\ \A i \in Fleet(vehicle) : vehicle'[i] = OldRow(u, i) /\ vehicle'[i] \in Row
           /\ \A i \in Vehicles \ Fleet(vehicle') : vehicle'[i] = NoVehicle
           /\ job[u].do = "sync" /\ job' = [job EXCEPT ![u] = Idle] /\ UNCHANGED settingsVars
<1> DEFINE t == job[u].type
           n == job[u].target
           seen == job[u].seen
           ids == NewIds(u)
           new == [i \in (LastVehicle + 1)..(LastVehicle + Missing(seen, t, n)) |->
                      Created(t, i - LastVehicle)]
<1>1. /\ job[u].do = "sync" /\ DOMAIN new \subseteq Vehicles
      /\ \A i \in DOMAIN new : new[i].code \notin Codes(vehicle)
      /\ vehicle' = [i \in Vehicles |-> IF i \in DOMAIN new THEN new[i] ELSE OldRow(u, i)]
      /\ job' = [job EXCEPT ![u] = Idle] /\ UNCHANGED settingsVars
    BY DEF WriteFleet, OldRow, Continue
<1>2. DOMAIN new = ids /\ \A i \in ids : new[i] = Created(t, i - LastVehicle)
    BY DEF NewIds
<1> HIDE DEF new
<1>3. /\ vehicle' = [i \in Vehicles |-> IF i \in ids THEN Created(t, i - LastVehicle) ELSE OldRow(u, i)]
      /\ ids \subseteq Vehicles
      /\ \A i \in ids : Created(t, i - LastVehicle).code \notin Codes(vehicle)
    BY <1>1, <1>2
<1>4. RowsOK(vehicle) /\ t \in Types /\ n \in Nat /\ RowsOK(seen) /\ Fleet(seen) \subseteq Fleet(vehicle)
    BY <1>1 DEF TInv, FleetTyped, SyncTyped, Users
<1>5. LastVehicle \in Nat /\ \A i \in Fleet(vehicle) : i <= LastVehicle
    BY <1>4, LastVehicleIsLast
<1>6. Missing(seen, t, n) \in Int
    <2>1. OfType(seen, t) \in SUBSET Vehicles
        BY DEF OfType, Fleet
    <2> QED BY <1>4, <2>1, VehicleSets DEF Missing
<1>7. ids \cap Fleet(vehicle) = {} /\ \A i \in ids : i - LastVehicle \in Nat
    <2>1. \A i \in ids : i \in Int /\ LastVehicle + 1 <= i
        BY <1>5, <1>6 DEF NewIds
    <2> HIDE DEF ids
    <2>2. \A i \in ids : ~(i <= LastVehicle) /\ i - LastVehicle \in Nat
        BY <1>5, <2>1
    <2> QED BY <1>5, <2>2
<1>8. \A i \in ids : vehicle'[i] \in Row
    <2> SUFFICES ASSUME NEW i \in ids PROVE vehicle'[i] \in Row
        OBVIOUS
    <2>1. vehicle'[i] = Created(t, i - LastVehicle)
        BY <1>3
    <2> DEFINE k == i - LastVehicle
    <2>2. k \in Nat
        BY <1>7
    <2>3. LastNumber(vehicle, t) \in Nat /\ t \in Nat
        BY <1>4, LastNumberIsNumber, TypesAssumption
    <2> HIDE DEF k
    <2>4. LastNumber(vehicle, t) + k \in Nat
        BY <2>2, <2>3
    <2>5. Created(t, k) \in Row
        BY <1>4, <2>3, <2>4 DEF Created, Row
    <2> QED BY <2>1, <2>5 DEF k
<1>9. \A i \in Fleet(vehicle) : vehicle'[i] = OldRow(u, i) /\ vehicle'[i] \in Row
    <2> SUFFICES ASSUME NEW i \in Fleet(vehicle) PROVE vehicle'[i] = OldRow(u, i) /\ vehicle'[i] \in Row
        OBVIOUS
    <2>1. i \in Vehicles /\ i \notin ids /\ vehicle[i] \in Row
        BY <1>4, <1>7, FleetRows DEF Fleet
    <2>2. vehicle'[i] = OldRow(u, i)
        BY <1>3, <2>1
    <2>3. OldRow(u, i) \in Row
        BY <2>1 DEF OldRow, Row
    <2> QED BY <2>2, <2>3
<1>10. \A i \in Vehicles \ (Fleet(vehicle) \cup ids) : vehicle'[i] = NoVehicle
    <2> SUFFICES ASSUME NEW i \in Vehicles \ (Fleet(vehicle) \cup ids) PROVE vehicle'[i] = NoVehicle
        OBVIOUS
    <2>1. i \notin Reactivated(seen, t, n)
        BY <1>4 DEF Reactivated, FirstOf, OfType
    <2>2. vehicle[i] = NoVehicle
        BY <1>4, FleetRows
    <2>3. OldRow(u, i) = NoVehicle
        <3> DEFINE on == Reactivated(seen, t, n)
                   off == Deactivated(seen, t, n)
        <3>1. OldRow(u, i) = [NoVehicle EXCEPT !.active = (@ \/ i \in on) /\ i \notin off]
            BY <2>2 DEF OldRow
        <3>2. i \notin on
            BY <2>1
        <3> HIDE DEF on, off
        <3>3. ((NoVehicle.active \/ i \in on) /\ i \notin off) = FALSE
            BY <3>2 DEF NoVehicle
        <3>4. [NoVehicle EXCEPT !.active = FALSE] = NoVehicle
            <4>1. /\ NoVehicle \in [type : {0}, code : {<<0, 0>>}, active : BOOLEAN, busy : BOOLEAN]
                  /\ NoVehicle.active = FALSE
                BY DEF NoVehicle
            <4> QED BY <4>1
        <3> QED BY <3>1, <3>3, <3>4
    <2> QED BY <1>3, <2>3
<1>11. Fleet(vehicle') = Fleet(vehicle) \cup ids
    BY <1>3, <1>8, <1>9, <1>10, NoVehicleIsNoRow DEF Fleet
<1> QED BY <1>1, <1>3, <1>7, <1>8, <1>9, <1>10, <1>11

-----------------------------------------------------------------------------
(* Steps of the fleet tab. *)

LEMMA FleetStays ==
    ASSUME TInv, UNCHANGED vehicle, NEW u \in Users, NEW task, task.do # "sync",
           job' = [job EXCEPT ![u] = task]
    PROVE  JobsTyped' /\ FleetTyped'
<1>1. /\ job'[u] = task /\ job' = [w \in Users |-> job'[w]]
      /\ \A w \in Users : w # u => job'[w] = job[w]
    BY DEF TInv, JobsTyped
<1>2. RowsOK(vehicle') /\ CodesDistinct(vehicle')
    BY DEF TInv, FleetTyped
<1>3. \A w \in Users : SyncTyped(job'[w], vehicle')
    <2> SUFFICES ASSUME NEW w \in Users PROVE SyncTyped(job'[w], vehicle')
        OBVIOUS
    <2>1. CASE w = u
        BY <1>1, <2>1 DEF SyncTyped
    <2>2. CASE w # u
        BY <1>1, <2>2 DEF TInv, FleetTyped
    <2> QED BY <2>1, <2>2
<1> QED BY <1>1, <1>2, <1>3 DEF FleetTyped, JobsTyped

\* The vehicles change, no job goes on.
LEMMA VehicleChange ==
    ASSUME TInv, UNCHANGED <<job, settingsVars>>, RowsOK(vehicle'), CodesDistinct(vehicle'),
           Fleet(vehicle) \subseteq Fleet(vehicle')
    PROVE  TInv'
<1>1. \A w \in Users : SyncTyped(job[w], vehicle')
    BY DEF TInv, FleetTyped, SyncTyped
<1> QED BY <1>1 DEF TInv, FleetTyped, ParametersTyped, JobsTyped, settingsVars

LEMMA JobOfFleet ==
    ASSUME TInv, NEW u \in Users, NEW task, task.do \in {"sync", "nothing"},
           job' = [job EXCEPT ![u] = task], UNCHANGED settingsVars
    PROVE  JobsTyped' /\ ParametersTyped'
<1>1. \A w \in Users : JobTyped(job'[w])
    <2>1. JobTyped(task)
        BY DEF JobTyped
    <2>2. \A w \in Users : job'[w] = IF w = u THEN task ELSE job[w]
        BY DEF TInv, JobsTyped
    <2> QED BY <2>1, <2>2 DEF TInv, ParametersTyped
<1>2. ParametersTyped'
    BY <1>1 DEF TInv, ParametersTyped, settingsVars
<1> QED BY <1>2 DEF TInv, JobsTyped

LEMMA IdleDoes == Idle.do = "nothing"
BY DEF Idle

LEMMA ReadFleetTyped ==
    ASSUME TInv, NEW u \in FleetJobs, NEW t \in Types, NEW n \in Targets, ReadFleet(u, t, n)
    PROVE  TInv'
<1> DEFINE task == [do |-> "sync", type |-> t, target |-> n, seen |-> ListByType(vehicle, t)]
<1>1. /\ job' = [job EXCEPT ![u] = task] /\ UNCHANGED vehicle /\ UNCHANGED settingsVars
    BY DEF ReadFleet, Begin
<1>2. SyncTyped(task, vehicle)
    <2>1. RowsOK(vehicle)
        BY DEF TInv, FleetTyped
    <2>2. \A i \in Vehicles : ListByType(vehicle, t)[i] \in Row \cup {NoVehicle}
        BY <2>1, FleetRows DEF ListByType, RowsOK
    <2>3. RowsOK(ListByType(vehicle, t))
        BY <2>2 DEF RowsOK, ListByType
    <2>4. Fleet(ListByType(vehicle, t)) \subseteq Fleet(vehicle)
        BY DEF Fleet, ListByType, OfType
    <2> QED BY <2>3, <2>4, TypesAssumption DEF SyncTyped
<1>3. \A w \in Users : job'[w] = IF w = u THEN task ELSE job[w]
    BY <1>1 DEF TInv, JobsTyped
<1>4. \A w \in Users : SyncTyped(job'[w], vehicle')
    <2> SUFFICES ASSUME NEW w \in Users PROVE SyncTyped(job'[w], vehicle')
        OBVIOUS
    <2>1. vehicle' = vehicle /\ SyncTyped(job[w], vehicle)
        BY <1>1 DEF TInv, FleetTyped
    <2> HIDE DEF task
    <2>2. SyncTyped(job'[w], vehicle)
        BY <1>2, <1>3, <2>1
    <2> QED BY <2>1, <2>2
<1>5. task.do = "sync" /\ u \in Users
    BY DEF Users
<1> HIDE DEF task
<1>6. task.do \in {"sync", "nothing"}
    BY <1>5
<1>7. JobsTyped' /\ ParametersTyped'
    BY <1>1, <1>5, <1>6, JobOfFleet DEF TInv, JobsTyped
<1>8. RowsOK(vehicle') /\ CodesDistinct(vehicle')
    BY <1>1 DEF TInv, FleetTyped
<1> QED BY <1>4, <1>7, <1>8 DEF TInv, FleetTyped

\* Codes that are given out differ from one another and from those there are.
LEMMA WriteFleetTyped ==
    ASSUME TInv, NEW u \in FleetJobs, WriteFleet(u)
    PROVE  TInv'
<1> DEFINE t == job[u].type
           ids == NewIds(u)
<1>1. /\ ids \subseteq Vehicles /\ ids \cap Fleet(vehicle) = {}
      /\ \A i \in ids : vehicle'[i] = Created(t, i - LastVehicle)
      /\ \A i \in ids : Created(t, i - LastVehicle).code \notin Codes(vehicle)
      /\ Fleet(vehicle') = Fleet(vehicle) \cup ids
      /\ \A i \in ids : vehicle'[i] \in Row
      /\ \A i \in Fleet(vehicle) : vehicle'[i] = OldRow(u, i) /\ vehicle'[i] \in Row
      /\ \A i \in Vehicles \ Fleet(vehicle') : vehicle'[i] = NoVehicle
      /\ vehicle' = [i \in Vehicles |-> vehicle'[i]]
      /\ job' = [job EXCEPT ![u] = Idle] /\ UNCHANGED settingsVars
    BY WrittenRows
<1>2. RowsOK(vehicle) /\ CodesDistinct(vehicle) /\ u \in Users
    BY DEF TInv, FleetTyped, Users
<1>3. \A i \in Fleet(vehicle) : i \in Vehicles /\ vehicle'[i].code = vehicle[i].code
    <2> SUFFICES ASSUME NEW i \in Fleet(vehicle)
                 PROVE  i \in Vehicles /\ vehicle'[i].code = vehicle[i].code
        OBVIOUS
    <2>1. i \in Vehicles /\ vehicle[i] \in Row
        BY <1>2, FleetRows DEF Fleet
    <2>2. OldRow(u, i).code = vehicle[i].code
        BY <2>1 DEF OldRow, Row
    <2> QED BY <1>1, <2>1, <2>2
<1>4. \A i \in ids : vehicle'[i].code = <<t, LastNumber(vehicle, t) + (i - LastVehicle)>>
    <2>1. ASSUME NEW k PROVE Created(t, k).code = <<t, LastNumber(vehicle, t) + k>>
        BY DEF Created
    <2> QED BY <1>1, <2>1
<1> HIDE DEF ids
<1>5. RowsOK(vehicle')
    BY <1>1 DEF RowsOK
<1>6. CodesDistinct(vehicle')
    <2> SUFFICES ASSUME NEW i \in Fleet(vehicle'), NEW j \in Fleet(vehicle'),
                        vehicle'[i].code = vehicle'[j].code
                 PROVE  i = j
        BY DEF CodesDistinct
    <2>1. CASE i \in Fleet(vehicle) /\ j \in Fleet(vehicle)
        BY <1>2, <1>3, <2>1 DEF CodesDistinct
    <2>2. ASSUME NEW k \in ids, NEW o \in Fleet(vehicle)
          PROVE  vehicle'[k].code # vehicle'[o].code
        BY <1>1, <1>3, <2>2 DEF Codes
    <2>3. CASE i \in ids /\ j \in ids
        <3>1. LastNumber(vehicle, t) \in Int /\ LastVehicle \in Int
            BY <1>2, LastNumberIsNumber, LastVehicleIsLast
        <3>2. i \in Int /\ j \in Int
            BY <1>1, <2>3, VehicleSets
        <3>3. LastNumber(vehicle, t) + (i - LastVehicle) = LastNumber(vehicle, t) + (j - LastVehicle)
            BY <1>4, <2>3
        <3> QED BY <3>1, <3>2, <3>3
    <2> QED BY <1>1, <2>1, <2>2, <2>3
<1>7. JobsTyped' /\ ParametersTyped'
    BY <1>1, <1>2, IdleDoes, JobOfFleet DEF TInv, JobsTyped
<1>8. \A w \in Users : SyncTyped(job'[w], vehicle')
    <2> SUFFICES ASSUME NEW w \in Users PROVE SyncTyped(job'[w], vehicle')
        OBVIOUS
    <2>1. CASE w = u
        <3>1. job'[w] = Idle
            BY <1>1, <1>2, <2>1 DEF TInv, JobsTyped
        <3> QED BY <3>1, IdleDoes DEF SyncTyped
    <2>2. CASE w # u
        <3>1. job'[w] = job[w] /\ SyncTyped(job[w], vehicle)
            BY <1>1, <2>2 DEF TInv, JobsTyped, FleetTyped
        <3> QED BY <1>1, <3>1 DEF SyncTyped
    <2> QED BY <2>1, <2>2
<1> QED BY <1>5, <1>6, <1>7, <1>8 DEF TInv, FleetTyped

LEMMA FailFleetTyped ==
    ASSUME TInv, NEW u \in FleetJobs, FailFleet(u)
    PROVE  TInv'
<1>1. /\ job' = [job EXCEPT ![u] = Idle] /\ UNCHANGED vehicle /\ UNCHANGED settingsVars
      /\ u \in Users
    BY DEF FailFleet, Continue, Users
<1>2. Idle.do # "sync" /\ Idle.do \in {"sync", "nothing"}
    BY IdleDoes
<1>3. JobsTyped' /\ FleetTyped'
    BY <1>1, <1>2, FleetStays
<1>4. JobsTyped' /\ ParametersTyped'
    BY <1>1, <1>2, JobOfFleet DEF TInv, JobsTyped
<1> QED BY <1>3, <1>4 DEF TInv

LEMMA EditTyped ==
    ASSUME TInv, NEW i \in Fleet(vehicle),
           NEW t \in Types, NEW on \in BOOLEAN, NEW b \in BOOLEAN,
           \/ vehicle' = [vehicle EXCEPT ![i].type = t, ![i].active = on]
           \/ vehicle' = [vehicle EXCEPT ![i].busy = b],
           UNCHANGED <<job, settingsVars>>
    PROVE  TInv'
<1>1. RowsOK(vehicle) /\ CodesDistinct(vehicle)
    BY DEF TInv, FleetTyped
<1>2. i \in Vehicles /\ vehicle[i] \in Row
    BY <1>1, FleetRows DEF Fleet
<1>3. PICK r \in Row : r.code = vehicle[i].code /\ vehicle' = [vehicle EXCEPT ![i] = r]
    <2>1. /\ [vehicle[i] EXCEPT !.type = t, !.active = on] \in Row
          /\ [vehicle[i] EXCEPT !.type = t, !.active = on].code = vehicle[i].code
          /\ [vehicle[i] EXCEPT !.busy = b] \in Row
          /\ [vehicle[i] EXCEPT !.busy = b].code = vehicle[i].code
        BY <1>2 DEF Row
    <2>2. \/ vehicle' = [vehicle EXCEPT ![i] = [vehicle[i] EXCEPT !.type = t, !.active = on]]
          \/ vehicle' = [vehicle EXCEPT ![i] = [vehicle[i] EXCEPT !.busy = b]]
        BY <1>1, <1>2 DEF RowsOK
    <2> QED BY <2>1, <2>2
<1>4. RowsOK(vehicle') /\ \A j \in Vehicles : vehicle'[j] = IF j = i THEN r ELSE vehicle[j]
    BY <1>1, <1>2, <1>3 DEF RowsOK
<1>5. Fleet(vehicle') = Fleet(vehicle)
    BY <1>1, <1>2, <1>4, NoVehicleIsNoRow DEF Fleet
<1>6. CodesDistinct(vehicle')
    BY <1>1, <1>3, <1>4, <1>5 DEF CodesDistinct, Fleet
<1> QED BY <1>4, <1>5, <1>6, VehicleChange

LEMMA AddVehicleTyped ==
    ASSUME TInv, NEW t \in Types, NEW code \in FormCodes, NEW on \in BOOLEAN, AddVehicle(t, code, on)
    PROVE  TInv'
<1> DEFINE i == LastVehicle + 1
           r == [type |-> t, code |-> code, active |-> on, busy |-> FALSE]
<1>1. /\ i \in Vehicles /\ code \notin Codes(vehicle) /\ vehicle' = [vehicle EXCEPT ![i] = r]
      /\ UNCHANGED <<job, settingsVars>>
    BY DEF AddVehicle
<1>2. RowsOK(vehicle) /\ CodesDistinct(vehicle)
    BY DEF TInv, FleetTyped
<1>3. r \in Row /\ r.code = code
    BY FormCodesAssumption DEF Row
<1>4. i \notin Fleet(vehicle)
    <2>1. LastVehicle \in Nat /\ (LastVehicle + 1 \in Fleet(vehicle) => LastVehicle + 1 <= LastVehicle)
        BY <1>2, LastVehicleIsLast
    <2> QED BY <2>1
<1> HIDE DEF i, r
<1>5. RowsOK(vehicle') /\ \A j \in Vehicles : vehicle'[j] = IF j = i THEN r ELSE vehicle[j]
    BY <1>1, <1>2, <1>3 DEF RowsOK
<1>6. Fleet(vehicle') = Fleet(vehicle) \cup {i}
    BY <1>1, <1>3, <1>5, NoVehicleIsNoRow DEF Fleet
<1>7. CodesDistinct(vehicle')
    BY <1>1, <1>2, <1>3, <1>4, <1>5, <1>6 DEF CodesDistinct, Fleet, Codes
<1> QED BY <1>1, <1>5, <1>6, <1>7, VehicleChange

LEMMA FleetTypedStep == ASSUME TInv, FleetNext PROVE TInv'
<1>1. ASSUME NEW u \in FleetJobs, (\E t \in Types, n \in Targets : ReadFleet(u, t, n)) \/ WriteFleet(u)
             \/ FailFleet(u)
      PROVE  TInv'
    BY <1>1, ReadFleetTyped, WriteFleetTyped, FailFleetTyped
<1>2. ASSUME NEW t \in Types, NEW on \in BOOLEAN, NEW i, SaveVehicle(i, t, on)
      PROVE  TInv'
    <2>1. FALSE \in BOOLEAN
        OBVIOUS
    <2> QED BY <1>2, <2>1, EditTyped DEF SaveVehicle
<1>3. ASSUME NEW i, NEW b \in BOOLEAN, SetBusy(i, b)
      PROVE  TInv'
    <2>1. i \in Fleet(vehicle) /\ vehicle' = [vehicle EXCEPT ![i].busy = b]
          /\ UNCHANGED <<job, settingsVars>>
        BY <1>3 DEF SetBusy
    <2>2. PICK t \in Types : TRUE
        <3>1. vehicle[i] \in Row
            BY <2>1, FleetRows DEF TInv, FleetTyped, Fleet
        <3> QED BY <3>1 DEF Row
    <2>3. FALSE \in BOOLEAN
        OBVIOUS
    <2> QED BY <2>1, <2>2, <2>3, EditTyped
<1> QED BY <1>1, <1>2, <1>3, AddVehicleTyped DEF FleetNext

-----------------------------------------------------------------------------
(* Steps of the parameters tab. *)

LEMMA MergedTyped ==
    ASSUME NEW c, OverridesOK(c), NEW updates \in Changes
    PROVE  OverridesOK(Merged(c, updates))
<1> DEFINE m == Merged(c, updates)
<1>1. DOMAIN m = {k \in DOMAIN c \cup DOMAIN updates :
                     k # "day" \/ Changed(c, updates, k) # NoDay}
    BY DEF Merged
<1>2. \A k \in DOMAIN m : m[k] = IF k \in DOMAIN updates THEN updates[k] ELSE c[k]
    BY DEF Merged, Changed
<1>3. "day" \in DOMAIN m => m["day"] # NoDay
    BY <1>1, <1>2 DEF Changed
<1>4. /\ DOMAIN updates \subseteq {"fill", "drops", "day"}
      /\ \A k \in DOMAIN updates : updates[k] \in Nat
      /\ "day" \in DOMAIN updates => updates["day"] \in 0..LastDay
    <2>1. CASE updates \in Forms
        BY <2>1, FormsAssumption, DaysAssumption DEF Settings
    <2>2. CASE updates \in {DayOnly(day) : day \in 0..LastDay}
        BY <2>2, DaysAssumption DEF DayOnly
    <2> QED BY <2>1, <2>2 DEF Changes
<1>5. \A day \in 0..LastDay : day # NoDay => day \in 1..LastDay
    BY DaysAssumption DEF NoDay
<1> HIDE DEF m
<1>6. \A k \in DOMAIN m : m[k] \in Nat
    BY <1>1, <1>2, <1>4 DEF OverridesOK
<1>7. "day" \in DOMAIN m => m["day"] \in 1..LastDay
    BY <1>1, <1>2, <1>3, <1>4, <1>5 DEF OverridesOK
<1>8. DOMAIN m \subseteq {"fill", "drops", "day"}
    BY <1>1, <1>4 DEF OverridesOK
<1> QED BY <1>6, <1>7, <1>8 DEF OverridesOK, m

LEMMA NoneTyped == OverridesOK(None)
BY DEF OverridesOK, None

LEMMA ReadTyped == ASSUME TInv PROVE OverridesOK(Overrides(file))
BY NoneTyped DEF TInv, ParametersTyped, Overrides

LEMMA OverlaidTyped == ASSUME TInv PROVE Overlaid(file).day \in 0..LastDay
<1> DEFINE s == Overlaid(file)
<1>1. DOMAIN Env = {"fill", "drops", "day"} /\ Env.day \in 0..LastDay
    BY FormsAssumption DEF Settings
<1>2. s.day = IF "day" \in DOMAIN Overrides(file) THEN file["day"] ELSE Env["day"]
    BY <1>1 DEF Overlaid
<1> HIDE DEF s
<1>3. CASE "day" \in DOMAIN Overrides(file)
    <2>1. Overrides(file) = file
        BY <1>3 DEF Overrides, None
    <2>2. file["day"] \in 1..LastDay
        BY <1>3, <2>1, ReadTyped DEF OverridesOK
    <2> QED BY <1>2, <1>3, <2>2, DaysAssumption DEF s
<1>4. CASE "day" \notin DOMAIN Overrides(file)
    BY <1>1, <1>2, <1>4 DEF s
<1> QED BY <1>3, <1>4

\* A step of one job of the parameters tab.
LEMMA ThreadTyped ==
    ASSUME TInv, NEW u \in Threads, NEW task, JobTyped(task), task.do # "sync",
           job' = [job EXCEPT ![u] = task], UNCHANGED vehicle,
           file' = Torn \/ OverridesOK(file'), saved' \subseteq Changes, InForceOK(cache')
    PROVE  TInv'
<1>1. u \in Users
    BY DEF Users
<1>2. JobsTyped' /\ FleetTyped'
    BY <1>1, FleetStays
<1>3. \A w \in Users : JobTyped(job'[w])
    <2>1. \A w \in Users : job'[w] = IF w = u THEN task ELSE job[w]
        BY DEF TInv, JobsTyped
    <2>2. \A w \in Users : JobTyped(job[w])
        BY DEF TInv, ParametersTyped
    <2> QED BY <2>1, <2>2
<1>4. ParametersTyped'
    BY <1>3 DEF ParametersTyped
<1> QED BY <1>2, <1>4 DEF TInv

\* What stays is as it was.
LEMMA StaysTyped ==
    ASSUME TInv
    PROVE  /\ file = Torn \/ OverridesOK(file)
           /\ saved \subseteq Changes /\ InForceOK(cache)
           /\ \A u \in Threads : JobTyped(job[u])
BY DEF TInv, ParametersTyped, Users

LEMMA ReadOverridesTyped ==
    ASSUME TInv, NEW u \in Threads, NEW updates \in Changes, ReadOverrides(u, updates)
    PROVE  TInv'
<1> DEFINE task == [do |-> "save", updates |-> updates, next |-> Merged(Overrides(file), updates)]
<1>1. job' = [job EXCEPT ![u] = task] /\ UNCHANGED vehicle /\ UNCHANGED <<file, cache, saved>>
    BY DEF ReadOverrides, Begin, fleetVars, settingsVars
<1>2. JobTyped(task) /\ task.do # "sync"
    BY ReadTyped, MergedTyped DEF JobTyped
<1> HIDE DEF task
<1> QED BY <1>1, <1>2, StaysTyped, ThreadTyped

LEMMA TruncateTyped ==
    ASSUME TInv, NEW u \in Threads, Truncate(u)
    PROVE  TInv'
<1> DEFINE task == [do |-> "write", updates |-> job[u].updates, next |-> job[u].next]
<1>1. job' = [job EXCEPT ![u] = task] /\ UNCHANGED vehicle /\ file' = Torn
      /\ UNCHANGED <<cache, saved>> /\ job[u].do = "save"
    BY DEF Truncate, Continue, fleetVars
<1>2. JobTyped(task) /\ task.do # "sync"
    BY <1>1, StaysTyped DEF JobTyped
<1> HIDE DEF task
<1> QED BY <1>1, <1>2, StaysTyped, ThreadTyped

LEMMA WriteFileTyped ==
    ASSUME TInv, NEW u \in Threads, WriteFile(u)
    PROVE  TInv'
<1> DEFINE task == [do |-> "clear"]
<1>1. job' = [job EXCEPT ![u] = task] /\ UNCHANGED vehicle /\ job[u].do = "write"
      /\ (file' = job[u].next \/ file' = Torn)
      /\ saved' = saved \cup {job[u].updates} /\ cache' = cache
    BY DEF WriteFile, Continue, fleetVars
<1>2. JobTyped(task) /\ task.do # "sync"
    BY DEF JobTyped
<1>3. job[u].updates \in Changes /\ OverridesOK(job[u].next)
    BY <1>1, StaysTyped DEF JobTyped
<1> HIDE DEF task
<1> QED BY <1>1, <1>2, <1>3, StaysTyped, ThreadTyped

LEMMA ReadFileTyped ==
    ASSUME TInv, NEW u \in Threads, ReadFile(u)
    PROVE  TInv'
<1> DEFINE task == [do |-> "get", settings |-> Overlaid(file)]
<1>1. job' = [job EXCEPT ![u] = task] /\ UNCHANGED vehicle /\ UNCHANGED <<file, cache, saved>>
    BY DEF ReadFile, Begin, fleetVars, settingsVars
<1>2. JobTyped(task) /\ task.do # "sync"
    BY OverlaidTyped DEF JobTyped
<1> HIDE DEF task
<1> QED BY <1>1, <1>2, StaysTyped, ThreadTyped

\* There is never more than one value in the cache.
LEMMA CacheTyped ==
    ASSUME TInv, NEW u \in Threads, ClearCache(u) \/ FillCache(u)
    PROVE  TInv'
<1>1. job' = [job EXCEPT ![u] = Idle] /\ UNCHANGED vehicle /\ UNCHANGED <<file, saved>>
    BY DEF ClearCache, FillCache, Continue, fleetVars
<1>2. JobTyped(Idle) /\ Idle.do # "sync"
    BY DEF JobTyped, Idle
<1>3. InForceOK(cache')
    <2>1. CASE ClearCache(u)
        BY <2>1 DEF ClearCache, InForceOK
    <2>2. CASE FillCache(u)
        BY <2>2, StaysTyped DEF FillCache, InForceOK, JobTyped
    <2> QED BY <2>1, <2>2
<1> QED BY <1>1, <1>2, <1>3, StaysTyped, ThreadTyped

LEMMA RestartTyped == ASSUME TInv, Restart PROVE TInv'
<1>1. job' = [u \in Users |-> Idle] /\ cache' = {} /\ UNCHANGED vehicle /\ UNCHANGED <<file, saved>>
    BY DEF Restart, Users, fleetVars
<1>2. JobTyped(Idle) /\ \A v : SyncTyped(Idle, v)
    BY DEF JobTyped, SyncTyped, Idle
<1>3. FleetTyped'
    BY <1>1, <1>2 DEF TInv, FleetTyped
<1>4. ParametersTyped'
    BY <1>1, <1>2 DEF TInv, ParametersTyped, InForceOK
<1> QED BY <1>1, <1>3, <1>4 DEF TInv, JobsTyped

\* The day after the day in force is one of the days.
LEMMA SettingsTypedStep == ASSUME TInv, SettingsNext PROVE TInv'
<1>1. ASSUME NEW u \in Threads, NEW form \in Forms, SaveForm(u, form)
      PROVE  TInv'
    <2>1. form \in Changes
        BY DEF Changes
    <2> QED BY <1>1, <2>1, ReadOverridesTyped DEF SaveForm
<1>2. ASSUME NEW u \in Threads, NEW day \in 0..LastDay, ReadOverrides(u, DayOnly(day))
      PROVE  TInv'
    <2>1. DayOnly(day) \in Changes
        BY DEF Changes
    <2> QED BY <1>2, <2>1, ReadOverridesTyped
<1>3. ASSUME NEW u \in Threads, AdvanceDay(u)
      PROVE  TInv'
    <2>1. PICK s \in cache :
             LET day == IF s.day = NoDay THEN Today ELSE s.day
             IN  day < LastDay /\ ReadOverrides(u, DayOnly(day + 1))
        BY <1>3 DEF AdvanceDay
    <2> DEFINE day == IF s.day = NoDay THEN Today ELSE s.day
    <2>2. s.day \in 0..LastDay
        BY StaysTyped DEF InForceOK
    <2>3. day \in 0..LastDay
        BY <2>2, DaysAssumption
    <2>4. day < LastDay /\ ReadOverrides(u, DayOnly(day + 1))
        BY <2>1
    <2> HIDE DEF day
    <2>5. day + 1 \in 0..LastDay
        BY <2>3, <2>4, DaysAssumption
    <2> QED BY <1>2, <2>4, <2>5
<1> QED
    BY <1>1, <1>2, <1>3, TruncateTyped, WriteFileTyped, ReadFileTyped, CacheTyped, RestartTyped
    DEF SettingsNext, SaveDay

-----------------------------------------------------------------------------

LEMMA InitTyped == ASSUME Init PROVE TInv
<1>1. /\ vehicle = [i \in Vehicles |-> IF i \in DOMAIN Seed THEN Seed[i] ELSE NoVehicle]
      /\ job = [u \in Users |-> Idle] /\ file = None /\ cache = {} /\ saved = {}
    BY DEF Init, Users
<1>2. RowsOK(vehicle)
    <2>1. Seed \in Seq(Row)
        BY SeedAssumption DEF Row
    <2>2. \A i \in DOMAIN Seed : Seed[i] \in Row
        BY <2>1
    <2> QED BY <1>1, <2>2 DEF RowsOK
<1>3. CodesDistinct(vehicle)
    BY <1>1, SeedAssumption DEF CodesDistinct, Fleet
<1>4. JobTyped(Idle) /\ SyncTyped(Idle, vehicle)
    BY DEF JobTyped, SyncTyped, Idle
<1> QED
    BY <1>1, <1>2, <1>3, <1>4, NoneTyped
    DEF TInv, JobsTyped, FleetTyped, ParametersTyped, InForceOK

LEMMA TypedStep == TInv /\ [Next]_vars => TInv'
<1>1. ASSUME TInv, Next PROVE TInv'
    BY <1>1, FleetTypedStep, SettingsTypedStep DEF Next
<1>2. ASSUME TInv, UNCHANGED vars PROVE TInv'
    BY <1>2 DEF TInv, JobsTyped, FleetTyped, ParametersTyped, vars
<1> QED BY <1>1, <1>2

LEMMA InvariantImpliesTypeOK == ASSUME TInv PROVE TypeOK
<1>1. \A i \in Vehicles : /\ vehicle[i] # NoVehicle => vehicle[i].type \in Types
                          /\ vehicle[i].active \in BOOLEAN /\ vehicle[i].busy \in BOOLEAN
    <2> SUFFICES ASSUME NEW i \in Vehicles
                 PROVE  /\ vehicle[i] # NoVehicle => vehicle[i].type \in Types
                        /\ vehicle[i].active \in BOOLEAN /\ vehicle[i].busy \in BOOLEAN
        OBVIOUS
    <2>1. vehicle[i] \in Row \/ vehicle[i] = NoVehicle
        BY DEF TInv, FleetTyped, RowsOK
    <2>2. NoVehicle.active \in BOOLEAN /\ NoVehicle.busy \in BOOLEAN
        BY DEF NoVehicle
    <2> QED BY <2>1, <2>2 DEF Row
<1>2. Cardinality(Codes(vehicle)) = Cardinality(Fleet(vehicle))
    <2> DEFINE F == Fleet(vehicle)
               C == Codes(vehicle)
               f == [i \in F |-> vehicle[i].code]
    <2>1. f \in Surjection(F, C) /\ f \in Injection(F, C)
        <3>1. \A i, j \in F : vehicle[i].code = vehicle[j].code => i = j
            BY DEF TInv, FleetTyped, CodesDistinct
        <3>2. C = {vehicle[i].code : i \in F}
            BY DEF Codes
        <3> HIDE DEF F, C
        <3>3. f \in [F -> C] /\ \A i \in F : f[i] = vehicle[i].code
            BY <3>2
        <3>4. \A c \in C : \E i \in F : f[i] = c
            BY <3>2
        <3> HIDE DEF f
        <3>5. f \in Injection(F, C)
            BY <3>1, <3>3 DEF Injection, IsInjective
        <3>6. f \in Surjection(F, C)
            BY <3>3, <3>4 DEF Surjection
        <3> QED BY <3>5, <3>6
    <2>2. F \in SUBSET Vehicles
        BY DEF Fleet
    <2>3. IsFiniteSet(F)
        BY <2>2, VehicleSets
    <2> HIDE DEF F, C, f
    <2>4. Cardinality(C) = Cardinality(F)
        BY <2>1, <2>3, FS_Surjection
    <2> QED BY <2>4 DEF F, C
<1>3. file # Torn => /\ DOMAIN file \subseteq DOMAIN Env
                     /\ \A k \in DOMAIN file : file[k] \in Nat /\ (k = "day" => file[k] # NoDay)
    <2>1. DOMAIN Env = {"fill", "drops", "day"}
        BY FormsAssumption DEF Settings
    <2>2. \A day \in 1..LastDay : day # NoDay
        BY DEF NoDay
    <2> QED BY <2>1, <2>2, StaysTyped DEF OverridesOK
<1>4. Cardinality(cache) <= 1
    <2>1. CASE cache = {}
        BY <2>1, FS_EmptySet
    <2>2. CASE cache # {}
        <3>1. PICK s : cache = {s}
            BY <2>2, StaysTyped DEF InForceOK
        <3>2. Cardinality(cache) = 1
            BY <3>1, FS_Singleton
        <3> QED BY <3>2
    <2> QED BY <2>1, <2>2
<1> QED BY <1>1, <1>2, <1>3, <1>4, StaysTyped DEF TypeOK, Changes

\* The vehicles have types, and no two of them the same code, whatever was read
\* before codes are given out; the file overrides no setting with an empty one,
\* and at most one value of the settings is in force: for any numbers of jobs,
\* threads, vehicles, forms and days.
THEOREM TypeCorrect == Spec => []TypeOK
BY InitTyped, TypedStep, InvariantImpliesTypeOK, PTL DEF Spec

-----------------------------------------------------------------------------
(* The size of the fleet. *)

\* Codes that differ are ordered.
LEMMA CodesOrdered ==
    ASSUME NEW v, RowsOK(v), CodesDistinct(v), NEW S \in SUBSET Fleet(v)
    PROVE  LET R == {p \in S \X S : Before(v, p[1], p[2])}
           IN  IsStrictOrder(R, S)
<1> DEFINE R == {p \in S \X S : Before(v, p[1], p[2])}
           a == [i \in S |-> v[i].code[1]]
           b == [i \in S |-> v[i].code[2]]
<1>1. \A i \in S : v[i].code \in Nat \X Nat
    BY FleetRows DEF Fleet, Row
<1>2. \A i \in S : a[i] \in Nat /\ b[i] \in Nat
    BY <1>1
<1>3. \A i, j \in S : a[i] = a[j] /\ b[i] = b[j] => i = j
    BY <1>1 DEF CodesDistinct
<1>4. \A i, j \in S : <<i, j>> \in R <=> a[i] < a[j] \/ (a[i] = a[j] /\ b[i] < b[j])
    BY DEF Before
<1> HIDE DEF R, a, b
<1>5. IsStrictOrder(R, S)
    BY <1>2, <1>3, <1>4 DEF IsStrictOrder
<1> QED BY <1>5 DEF R

\* T is n elements of S, or none or all.
IsCount(T, S, n) ==
    /\ T \subseteq S
    /\ n <= 0 => T = {}
    /\ n >= Cardinality(S) => T = S
    /\ 0 <= n /\ n <= Cardinality(S) => Cardinality(T) = n

LEMMA CountBefore ==
    ASSUME NEW S, IsFiniteSet(S), NEW R, IsStrictOrder(R, S), NEW n \in Int
    PROVE  IsCount({i \in S : Cardinality({j \in S : <<j, i>> \in R}) < n}, S, n)
<1> DEFINE T == {i \in S : Cardinality({j \in S : <<j, i>> \in R}) < n}
<1>1. /\ n <= 0 => T = {}
      /\ n >= Cardinality(S) => T = S
      /\ 0 <= n /\ n <= Cardinality(S) => Cardinality(T) = n
    BY FirstCount
<1>2. T \subseteq S
    OBVIOUS
<1> HIDE DEF T
<1>3. IsCount(T, S, n)
    BY <1>1, <1>2 DEF IsCount
<1> QED BY <1>3 DEF T

LEMMA FirstAndLast ==
    ASSUME NEW v, RowsOK(v), CodesDistinct(v), NEW S \in SUBSET Fleet(v), NEW n \in Int
    PROVE  IsCount(FirstOf(v, S, n), S, n) /\ IsCount(LastOf(v, S, n), S, n)
<1> DEFINE R == {p \in S \X S : Before(v, p[1], p[2])}
           C == {p \in S \X S : Before(v, p[2], p[1])}
           first == {i \in S : Cardinality({j \in S : <<j, i>> \in R}) < n}
           last == {i \in S : Cardinality({j \in S : <<j, i>> \in C}) < n}
<1>1. IsFiniteSet(S)
    <2>1. S \in SUBSET Vehicles
        BY DEF Fleet
    <2> QED BY <2>1, VehicleSets
<1>2. IsStrictOrder(R, S)
    BY CodesOrdered
<1>3. \A i, j \in S : (<<i, j>> \in R <=> Before(v, i, j)) /\ (<<i, j>> \in C <=> Before(v, j, i))
    OBVIOUS
<1> HIDE DEF R, C
<1>4. IsStrictOrder(C, S)
    BY <1>2, <1>3 DEF IsStrictOrder
<1>5. IsCount(first, S, n)
    BY <1>1, <1>2, CountBefore
<1>6. IsCount(last, S, n)
    BY <1>1, <1>4, CountBefore
<1>7. first = FirstOf(v, S, n)
    <2>1. \A i \in S : {j \in S : <<j, i>> \in R} = {j \in S : Before(v, j, i)}
        BY <1>3
    <2> QED BY <2>1 DEF FirstOf
<1>8. last = LastOf(v, S, n)
    <2>1. \A i \in S : {j \in S : <<j, i>> \in C} = {j \in S : Before(v, i, j)}
        BY <1>3
    <2> QED BY <2>1 DEF LastOf
<1> HIDE DEF first, last
<1> QED BY <1>5, <1>6, <1>7, <1>8

\* A fleet job and what it makes of the vehicles of its type.
Kind(u) == job[u].type
On(u) == Reactivated(job[u].seen, Kind(u), job[u].target)
Off(u) == Deactivated(job[u].seen, Kind(u), job[u].target)
IsCurrent(u) == job[u].seen = ListByType(vehicle, Kind(u))

\* It has seen the vehicles of its type.
LEMMA SeenIsCurrent ==
    ASSUME NEW u, IsCurrent(u)
    PROVE  LET seen == job[u].seen
               t == Kind(u)
           IN  /\ OfType(seen, t) = OfType(vehicle, t) /\ Active(seen, t) = Active(vehicle, t)
               /\ Busy(seen, t) = Busy(vehicle, t)
               /\ \A i \in Fleet(seen) : i \in OfType(vehicle, t) /\ seen[i] = vehicle[i]
               /\ OfType(vehicle, t) \subseteq Fleet(seen)
<1> DEFINE seen == job[u].seen
           t == Kind(u)
           O == OfType(vehicle, t)
<1>1. \A i \in Vehicles : seen[i] = IF i \in O THEN vehicle[i] ELSE NoVehicle
    BY DEF IsCurrent, ListByType
<1>2. \A i \in O : i \in Vehicles /\ vehicle[i] # NoVehicle /\ vehicle[i].type = t
    BY DEF OfType, Fleet
<1> HIDE DEF O, t, seen
<1>3. OfType(seen, t) = O /\ O \subseteq Fleet(seen)
    BY <1>1, <1>2 DEF OfType, Fleet
<1>4. \A i \in Fleet(seen) : i \in O /\ seen[i] = vehicle[i]
    BY <1>1 DEF Fleet
<1>5. \A i \in O : seen[i] = vehicle[i]
    BY <1>3, <1>4
<1>6. OfType(vehicle, t) = O
    BY DEF O
<1>7. Active(seen, t) = Active(vehicle, t) /\ Busy(seen, t) = Busy(vehicle, t)
    BY <1>3, <1>5, <1>6 DEF Active, Busy
<1> QED BY <1>3, <1>4, <1>6, <1>7 DEF seen, t

LEMMA ActiveAfterWrite ==
    ASSUME TInv, NEW u \in FleetJobs, WriteFleet(u), IsCurrent(u)
    PROVE  /\ On(u) \subseteq OfType(vehicle, Kind(u)) \ Active(vehicle, Kind(u))
           /\ Off(u) \subseteq Active(vehicle, Kind(u)) \ Busy(vehicle, Kind(u))
           /\ Active(vehicle', Kind(u)) = (Active(vehicle, Kind(u)) \ Off(u)) \cup On(u) \cup NewIds(u)
           /\ \A i \in Fleet(vehicle) : i \notin On(u) \cup Off(u) => vehicle'[i] = vehicle[i]
<1> DEFINE t == Kind(u)
           on == On(u)
           off == Off(u)
<1>1. on \subseteq OfType(vehicle, t) \ Active(vehicle, t) /\ off \subseteq Active(vehicle, t) \ Busy(vehicle, t)
    BY SeenIsCurrent DEF On, Off, Reactivated, Deactivated, FirstOf, LastOf
<1>2. /\ Fleet(vehicle') = Fleet(vehicle) \cup NewIds(u) /\ NewIds(u) \cap Fleet(vehicle) = {}
      /\ \A i \in NewIds(u) : vehicle'[i] = Created(t, i - LastVehicle)
      /\ \A i \in Fleet(vehicle) : vehicle'[i] = OldRow(u, i)
    <2>1. NewIds(u) \subseteq Vehicles
        BY WrittenRows
    <2> QED BY <2>1, WrittenRows DEF Kind
<1>3. \A i \in NewIds(u) : vehicle'[i].type = t /\ vehicle'[i].active = TRUE
    <2>1. ASSUME NEW k PROVE Created(t, k).type = t /\ Created(t, k).active = TRUE
        BY DEF Created
    <2> QED BY <1>2, <2>1
<1>4. ASSUME NEW i \in Fleet(vehicle)
      PROVE  /\ vehicle'[i].type = vehicle[i].type
             /\ vehicle'[i].active <=> (vehicle[i].active \/ i \in on) /\ i \notin off
             /\ i \notin on \cup off => vehicle'[i] = vehicle[i]
    <2>1. vehicle[i] \in Row
        BY FleetRows DEF TInv, FleetTyped, Fleet
    <2>2. vehicle'[i] = [vehicle[i] EXCEPT !.active = (@ \/ i \in on) /\ i \notin off]
        BY <1>2 DEF OldRow, On, Off, Kind
    <2> DEFINE r == vehicle[i]
               act == (r.active \/ i \in on) /\ i \notin off
    <2>3. vehicle'[i] = [r EXCEPT !.active = act] /\ r \in Row /\ act \in BOOLEAN
        BY <2>1, <2>2
    <2>4. (i \notin on \cup off) => act = r.active
        BY <2>1 DEF Row
    <2> HIDE DEF r, act
    <2>5. [r EXCEPT !.active = act].type = r.type /\ [r EXCEPT !.active = act].active = act
        BY <2>3 DEF Row
    <2>6. [r EXCEPT !.active = r.active] = r
        BY <2>3 DEF Row
    <2> QED BY <2>3, <2>4, <2>5, <2>6 DEF r, act
<1>5. Active(vehicle', t) = (Active(vehicle, t) \ off) \cup on \cup NewIds(u)
    <2>1. \A i : i \in Active(vehicle, t) <=>
                    i \in Fleet(vehicle) /\ vehicle[i].type = t /\ vehicle[i].active
        BY DEF Active, OfType
    <2>2. \A i : i \in Active(vehicle', t) <=>
                    i \in Fleet(vehicle') /\ vehicle'[i].type = t /\ vehicle'[i].active
        BY DEF Active, OfType
    <2>3. \A i : i \in on => i \in Fleet(vehicle) /\ vehicle[i].type = t /\ i \notin off
        BY <1>1 DEF OfType
    <2> HIDE DEF t, on, off
    <2> QED BY <1>2, <1>3, <1>4, <2>1, <2>2, <2>3
<1> QED BY <1>1, <1>4, <1>5

\* The sizes: as many as were asked for, or all busy ones if they are more.
LEMMA SizeAfterWrite ==
    ASSUME TInv, NEW u \in FleetJobs, WriteFleet(u), IsCurrent(u)
    PROVE  /\ Cardinality(Active(vehicle', Kind(u))) =
                 Max({job[u].target, Cardinality(Active(vehicle, Kind(u)) \cap Busy(vehicle, Kind(u)))})
           /\ Fleet(vehicle') # Fleet(vehicle) =>
                 OfType(vehicle, Kind(u)) \subseteq Active(vehicle', Kind(u))
<1> DEFINE n == job[u].target
           seen == job[u].seen
           O == OfType(vehicle, Kind(u))
           A == Active(vehicle, Kind(u))
           B == Busy(vehicle, Kind(u))
           on == On(u)
           off == Off(u)
           ids == NewIds(u)
           A2 == Active(vehicle', Kind(u))
           o == Cardinality(O)
           a == Cardinality(A)
           c == Cardinality(A \cap B)
           k == LastVehicle
<1>1. /\ RowsOK(vehicle) /\ CodesDistinct(vehicle) /\ n \in Nat
      /\ RowsOK(seen) /\ Fleet(seen) \subseteq Fleet(vehicle)
    BY DEF TInv, FleetTyped, SyncTyped, WriteFleet, Users
<1>2. on \subseteq O \ A /\ off \subseteq A \ B /\ A2 = (A \ off) \cup on \cup ids
    BY ActiveAfterWrite
<1>3. /\ on = FirstOf(seen, O \ A, n - a) /\ off = LastOf(seen, A \ B, a - n)
      /\ ids = (k + 1)..(k + (n - o))
    BY SeenIsCurrent DEF On, Off, Reactivated, Deactivated, NewIds, Missing, Kind
<1>4. O \subseteq Fleet(seen) /\ \A i \in Fleet(seen) : seen[i] = vehicle[i]
    BY SeenIsCurrent
<1>5. A \subseteq O /\ O \in SUBSET Vehicles /\ O \subseteq Fleet(vehicle)
    BY DEF OfType, Active, Fleet
<1>6. ids \cap Fleet(vehicle) = {} /\ Fleet(vehicle') = Fleet(vehicle) \cup ids
    BY WrittenRows
<1>7. k \in Nat
    BY <1>1, LastVehicleIsLast
<1> HIDE DEF O, A, B, on, off, ids, A2, k, n, seen
<1>8. CodesDistinct(seen)
    BY <1>1, <1>4 DEF CodesDistinct
<1>9. /\ IsFiniteSet(O) /\ IsFiniteSet(A) /\ IsFiniteSet(O \ A) /\ IsFiniteSet(A \ B)
      /\ IsFiniteSet(A \cap B) /\ IsFiniteSet(on) /\ IsFiniteSet(off) /\ IsFiniteSet(A \ off)
    BY <1>2, <1>5, VehicleSets, FS_Subset
<1> DEFINE x == Cardinality(on)
           y == Cardinality(off)
           z == Cardinality(ids)
<1>10. /\ o \in Nat /\ a \in Nat /\ c \in Nat /\ x \in Nat /\ y \in Nat
       /\ Cardinality(O \ A) \in Nat /\ Cardinality(A \ B) \in Nat
    BY <1>9, FS_CardinalityType
<1>11. /\ Cardinality(O \ A) = o - a /\ Cardinality(A \ B) = a - c
       /\ Cardinality(A \ off) = a - y
    <2>1. /\ O \cap A = A /\ A \cap off = off
        BY <1>2, <1>5
    <2> QED BY <1>9, <2>1, FS_Difference
<1>12. IsCount(on, O \ A, n - a) /\ IsCount(off, A \ B, a - n)
    <2>1. n - a \in Int /\ a - n \in Int /\ O \ A \in SUBSET Fleet(seen) /\ A \ B \in SUBSET Fleet(seen)
        BY <1>1, <1>4, <1>5, <1>10
    <2> QED BY <1>1, <1>3, <1>8, <2>1, FirstAndLast
<1> HIDE DEF o, a, c
<1>13. /\ n - a <= 0 => on = {}
       /\ n - a >= o - a => on = O \ A
       /\ 0 <= n - a /\ n - a <= o - a => x = n - a
    BY <1>11, <1>12 DEF IsCount
<1>14. /\ a - n <= 0 => off = {}
       /\ a - n >= a - c => off = A \ B
       /\ 0 <= a - n /\ a - n <= a - c => y = a - n
    BY <1>11, <1>12 DEF IsCount
<1>15. /\ n - a >= o - a => x = o - a
       /\ a - n >= a - c => y = a - c
       /\ n - a <= 0 => x = 0
       /\ a - n <= 0 => y = 0
    <2>1. Cardinality({}) = 0
        BY FS_EmptySet
    <2> QED BY <1>11, <1>13, <1>14, <2>1
<1>16. n \in Nat /\ o \in Nat /\ a \in Nat /\ c \in Nat /\ c <= a /\ a <= o
    BY <1>1, <1>10, <1>11
<1>17. IsFiniteSet(ids) /\ z = IF n > o THEN n - o ELSE 0
    <2>1. k + 1 \in Int /\ k + (n - o) \in Int
        BY <1>7, <1>16
    <2>2. IsFiniteSet(ids) /\ z = IF k + 1 > k + (n - o) THEN 0 ELSE (k + (n - o)) - (k + 1) + 1
        BY <1>3, <2>1, FS_Interval
    <2> HIDE DEF z
    <2> QED BY <1>7, <1>16, <2>2
<1>18. Cardinality(A2) = (a - y) + x + z
    <2>1. (A \ off) \cap on = {} /\ ((A \ off) \cup on) \cap ids = {}
        BY <1>2, <1>5, <1>6
    <2>2. Cardinality({}) = 0
        BY FS_EmptySet
    <2>3. /\ IsFiniteSet((A \ off) \cup on)
          /\ Cardinality((A \ off) \cup on) = (a - y) + x - 0
        BY <1>9, <1>11, <2>1, <2>2, FS_Union
    <2>4. Cardinality(A2) = ((a - y) + x - 0) + z - 0
        BY <1>2, <1>17, <2>1, <2>2, <2>3, FS_Union
    <2>5. z \in Int
        BY <1>16, <1>17
    <2> HIDE DEF x, y, z
    <2> QED BY <1>10, <2>4, <2>5
<1> HIDE DEF x, y, z
<1>19. Cardinality(A2) = IF n >= c THEN n ELSE c
    BY <1>10, <1>13, <1>14, <1>15, <1>16, <1>17, <1>18
<1>20. Max({n, c}) = IF n >= c THEN n ELSE c
    <2>1. IsFiniteSet({n}) /\ {n, c} = {n} \cup {c}
        BY FS_Singleton
    <2>2. {n, c} \in SUBSET Int /\ IsFiniteSet({n, c}) /\ {n, c} # {}
        BY <1>16, <2>1, FS_AddElement
    <2>3. Max({n, c}) \in {n, c} /\ \A m \in {n, c} : m <= Max({n, c})
        BY <2>2, MaxIsGreatest
    <2> QED BY <1>16, <2>3
<1>21. Fleet(vehicle') # Fleet(vehicle) => O \subseteq A2
    <2> SUFFICES ASSUME Fleet(vehicle') # Fleet(vehicle) PROVE O \subseteq A2
        OBVIOUS
    <2>1. PICK i \in ids : TRUE
        BY <1>6
    <2>2. i \in Int /\ k + 1 <= i /\ i <= k + (n - o)
        BY <1>3, <1>7, <1>16, <2>1
    <2>3. n > o
        BY <1>7, <1>16, <2>2
    <2>4. on = O \ A /\ off = {}
        BY <1>13, <1>14, <1>16, <2>3
    <2> QED BY <1>2, <2>4
<1> QED BY <1>19, <1>20, <1>21 DEF O, A, B, A2, c, n

\* A job of the fleet tab that nobody interferes with leaves as many active
\* vehicles of its type as were asked for, and more only if they are all busy;
\* it touches no other type and no busy vehicle in use, and creates vehicles
\* only when all there are in use: for any fleet and any number asked for.
THEOREM SyncAlwaysReachesTarget == Spec => SyncReachesTarget
<1>1. ASSUME TInv, NEW u \in FleetJobs, WriteFleet(u), IsCurrent(u)
      PROVE  \A i \in Fleet(vehicle) :
                (vehicle[i].type # Kind(u) \/ (vehicle[i].busy /\ vehicle[i].active)) =>
                    vehicle'[i] = vehicle[i]
    <2>1. /\ On(u) \subseteq OfType(vehicle, Kind(u)) \ Active(vehicle, Kind(u))
          /\ Off(u) \subseteq Active(vehicle, Kind(u)) \ Busy(vehicle, Kind(u))
          /\ \A i \in Fleet(vehicle) : i \notin On(u) \cup Off(u) => vehicle'[i] = vehicle[i]
        BY <1>1, ActiveAfterWrite
    <2> QED BY <2>1 DEF OfType, Active, Busy
<1>2. TInv /\ [Next]_vars =>
         [\A u \in FleetJobs :
             (WriteFleet(u) /\ job[u].seen = ListByType(vehicle, job[u].type)) =>
             LET t == job[u].type  n == job[u].target
             IN  /\ Cardinality(Active(vehicle', t)) =
                       Max({n, Cardinality(Active(vehicle, t) \cap Busy(vehicle, t))})
                 /\ \A i \in Fleet(vehicle) :
                       (vehicle[i].type # t \/ (vehicle[i].busy /\ vehicle[i].active)) =>
                           vehicle'[i] = vehicle[i]
                 /\ Fleet(vehicle') # Fleet(vehicle) => OfType(vehicle, t) \subseteq Active(vehicle', t)]_vars
    BY <1>1, SizeAfterWrite DEF IsCurrent, Kind
<1> QED BY <1>2, InitTyped, TypedStep, PTL DEF Spec, SyncReachesTarget
=============================================================================
