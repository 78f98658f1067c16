------------------------------- MODULE Backup -------------------------------
(***************************************************************************)
(* Backup files, restoring one over the live database, and the flag that   *)
(* is to keep a restore away from a running generation.                    *)
(*                                                                         *)
(* Backups and restores run in worker threads, step by step.  The live     *)
(* file is not replaced in one step: while it is being copied over it is   *)
(* torn, and stays so when the copy fails or the server stops.             *)
(***************************************************************************)
EXTENDS Integers, SequencesExt

CONSTANTS
    Users,      \* who generates
    Threads,    \* what backs up: the scheduler, settings pages
    Restorers,  \* what also restores: an administrator's settings page
    Keep,       \* backup_keep
    Torn,       \* content of a file that is half copied
    MaxVersion, \* bound on commits
    MaxTime     \* bound on seconds

ASSUME RestorersAssumption == Restorers \subseteq Threads
ASSUME KeepAssumption == Keep \in Int
ASSUME TornAssumption == Torn \notin Nat
ASSUME BackupBounds == MaxVersion \in Nat /\ MaxTime \in Nat

VARIABLES
    live,           \* content of the database: the commit that made it, or Torn
    commits,        \* number of commits so far; each makes a content of its own
    files,          \* the backup files by modification time, oldest first
    staged,         \* the copies that restores set aside, named like their source
    job,            \* what each thread is doing
    generating,     \* users between on_generate's first and last step
    solver_running, \* _solver_running
    now             \* the clock, in seconds as far as file names go

vars == <<live, commits, files, staged, job, generating, solver_running, now>>

Contents == Nat \cup {Torn}

\* crossdock_<second>.db and crossdock_<second>_<pid>.db
Names == [second : Nat, pid : BOOLEAN]
File == [name : Names, content : Contents]

Idle == [kind |-> "none", at |-> "idle"]
Restoring(t) == job[t].kind = "restore"

NamesOf(fs) == {f.name : f \in fs}

\* There is at most one file of a name.
Without(fs, name) ==
    LET found == {i \in DOMAIN fs : fs[i].name = name}
    IN  IF found = {} THEN fs ELSE RemoveAt(fs, CHOOSE i \in found : TRUE)

\* The plain name, or the one with the process id if that is taken, by
\* another file of this process or not.
DestName ==
    LET plain == [second |-> now, pid |-> FALSE]
    IN  IF plain \in NamesOf(ToSet(files)) THEN [plain EXCEPT !.pid = TRUE] ELSE plain

\* _prune_old_backups: the newest stay, at least one.
Pruned(fs) ==
    LET kept == IF Keep > 1 THEN Keep ELSE 1
    IN  IF Len(fs) > kept THEN SubSeq(fs, Len(fs) - kept + 1, Len(fs)) ELSE fs

Step(t, k) == job' = [job EXCEPT ![t] = k]

\* The finally of restore_backup: the copy set aside goes.
Unstage(t) ==
    staged' = IF Restoring(t) THEN {f \in staged : f.name # job[t].source} ELSE staged

UNCHANGEDdb == UNCHANGED <<live, commits, generating, solver_running, now>>

-----------------------------------------------------------------------------
(* run_backup, on its own or as the safety copy of a restore. *)

BeginBackup(t) ==
    /\ job[t] = Idle
    /\ Step(t, [kind |-> "backup", at |-> "copy", name |-> DestName])
    /\ UNCHANGED <<files, staged>> /\ UNCHANGEDdb

BeginSafety(t) ==
    /\ job[t].at = "safety"
    /\ Step(t, [job[t] EXCEPT !.at = "copy", !.name = DestName])
    /\ UNCHANGED <<files, staged>> /\ UNCHANGEDdb

\* SQLite's backup copies a consistent content, over a file of that name if
\* there is one.
CopyBackup(t) ==
    /\ job[t].at = "copy"
    /\ files' = Append(Without(files, job[t].name), [name |-> job[t].name, content |-> live])
    /\ Step(t, [job[t] EXCEPT !.at = "prune"])
    /\ UNCHANGED staged /\ UNCHANGEDdb

\* Then the new file's size is asked for, so it must not be among the pruned.
Prune(t) ==
    /\ job[t].at = "prune"
    /\ files' = Pruned(files)
    /\ LET ok == job[t].name \in NamesOf(ToSet(files'))
       IN  IF Restoring(t) /\ ok
           THEN Step(t, [job[t] EXCEPT !.at = "overwrite"]) /\ UNCHANGED staged
           ELSE Step(t, Idle) /\ Unstage(t)
    /\ UNCHANGEDdb

-----------------------------------------------------------------------------
(* restore_backup. *)

\* do_restore: the flag is looked at when the user confirms; it was also
\* looked at when the dialog opened.  The source is copied aside at once.
BeginRestore(t, f) ==
    /\ job[t] = Idle
    /\ ~ solver_running
    /\ f \in ToSet(files)
    /\ staged' = {g \in staged : g.name # f.name} \cup {f}
    /\ Step(t, [kind |-> "restore", at |-> "safety", name |-> f.name, source |-> f.name,
                selected |-> f.content, content |-> f.content,
                asked |-> live, since |-> commits])
    /\ UNCHANGED files /\ UNCHANGEDdb

\* Faulty variant: the source is copied from where it was.
FromSource(t) == {f \in ToSet(files) : f.name = job[t].source}

FromStaged(t) == {f \in staged : f.name = job[t].source}

\* The engine is reset and the copy over the live file begins.
Overwrite(t) ==
    /\ job[t].at = "overwrite"
    /\ \E f \in FromStaged(t) :
          /\ live' = Torn
          /\ Step(t, [job[t] EXCEPT !.at = "finish", !.content = f.content])
    /\ UNCHANGED <<commits, files, staged, generating, solver_running, now>>

FinishRestore(t) ==
    /\ job[t].at = "finish"
    /\ live' = job[t].content
    /\ Step(t, Idle)
    /\ Unstage(t)
    /\ UNCHANGED <<commits, files, generating, solver_running, now>>

\* Faulty variant: a restore goes on without its safety copy.
WithoutSafety(t) ==
    IF job[t].at \in {"copy", "prune"} /\ Restoring(t)
    THEN Step(t, [job[t] EXCEPT !.at = "overwrite"]) /\ UNCHANGED staged
    ELSE Step(t, Idle) /\ Unstage(t)

\* Faulty variant: what follows a failed backup is what follows a safety copy.
GoesOn(t) == Step(t, [job[t] EXCEPT !.at = "overwrite"]) /\ UNCHANGED staged

GiveUp(t) == Step(t, Idle) /\ Unstage(t)

\* A full disk or a locked file, at any point: what was done so far stays.
FailJob(t) ==
    /\ job[t] # Idle
    /\ GiveUp(t)
    /\ UNCHANGED files /\ UNCHANGEDdb

-----------------------------------------------------------------------------
(* Everyone else. *)

\* Any session commits something.
Commit ==
    /\ live # Torn /\ commits < MaxVersion
    /\ commits' = commits + 1
    /\ live' = commits'
    /\ UNCHANGED <<files, staged, job, generating, solver_running, now>>

\* on_generate sets the flag; what it read before may be out of date by then.
StartGenerate(u) ==
    /\ u \notin generating
    /\ generating' = generating \cup {u}
    /\ solver_running' = TRUE
    /\ UNCHANGED <<live, commits, files, staged, job, now>>

\* Faulty variant: an error leaves the flag alone.
FlagAfterSuccess(saved) == IF saved THEN FALSE ELSE solver_running

\* The finally of on_generate.
FlagAfter(saved) == FALSE

\* The plan is saved, or something fails; either way the flag is cleared.
EndGenerate(u) ==
    /\ u \in generating
    /\ generating' = generating \ {u}
    /\ \/ /\ live # Torn /\ commits < MaxVersion
          /\ commits' = commits + 1
          /\ live' = commits'
          /\ solver_running' = FlagAfter(TRUE)
       \/ /\ solver_running' = FlagAfter(FALSE)
          /\ UNCHANGED <<live, commits>>
    /\ UNCHANGED <<files, staged, job, now>>

\* The server stops and is started again.  A copy set aside that is left over
\* is written over by the next restore of its source: it is not kept here.
Restart ==
    /\ job' = [t \in Threads |-> Idle]
    /\ generating' = {}
    /\ solver_running' = FALSE
    /\ staged' = {}
    /\ UNCHANGED <<live, commits, files, now>>

Tick ==
    /\ now < MaxTime
    /\ now' = now + 1
    /\ UNCHANGED <<live, commits, files, staged, job, generating, solver_running>>

-----------------------------------------------------------------------------

Init ==
    /\ live = 0 /\ commits = 0
    /\ files = <<>> /\ staged = {}
    /\ job = [t \in Threads |-> Idle]
    /\ generating = {} /\ solver_running = FALSE
    /\ now = 0

Work(t) ==
    \/ BeginSafety(t) \/ CopyBackup(t) \/ Prune(t)
    \/ Overwrite(t) \/ FinishRestore(t) \/ FailJob(t)

Next ==
    \/ \E t \in Threads : BeginBackup(t) \/ Work(t)
    \/ \E t \in Restorers, f \in ToSet(files) : BeginRestore(t, f)
    \/ \E u \in Users : StartGenerate(u) \/ EndGenerate(u)
    \/ Commit \/ Restart \/ Tick

Spec == Init /\ [][Next]_vars

\* The solvers have time limits and every other stage of on_generate ends.
Fairness == \A u \in Users : WF_vars(EndGenerate(u))

FairSpec == Spec /\ Fairness
-----------------------------------------------------------------------------
(* Properties. *)

BackupJob == [kind : {"backup"}, at : {"copy", "prune"}, name : Names]
RestoreJob ==
    [kind : {"restore"}, at : {"safety", "copy", "prune", "overwrite", "finish"},
     name : Names, source : Names, selected : Contents, content : Contents,
     asked : Contents, since : Nat]
Job == {Idle} \cup BackupJob \cup RestoreJob

TypeOK ==
    /\ live \in Contents /\ commits \in Nat
    /\ files \in Seq(File) /\ staged \subseteq File
    /\ job \in [Threads -> Job]
    /\ generating \subseteq Users
    /\ solver_running \in BOOLEAN
    /\ now \in Nat

\* The flag may be cleared too early, never too late: while it is set someone
\* is generating, so a restore is not refused for nothing.
FlagMeansGenerating == solver_running => generating # {}

\* A restore ends with the content the user selected, even if its safety copy
\* took the selected file's name (as the comment in restore_backup fears) or
\* pruned it.
RestoreGivesSelected ==
    [][\A t \in Threads : FinishRestore(t) => live' = job[t].selected]_vars

\* Nothing older than the request is lost: when the live file is written over,
\* there is a backup of what it held when the restore was asked for, or of a
\* later commit, whatever other backups were made and pruned meanwhile.
OverwrittenIsSaved ==
    [][\A t \in Threads : Overwrite(t) =>
        \E f \in ToSet(files) :
            f.content = job[t].asked \/ (f.content # Torn /\ f.content > job[t].since)]_vars

\* No one is kept from restoring for ever.
FlagIsCleared == solver_running ~> ~ solver_running
=============================================================================
