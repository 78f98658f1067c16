----------------------------- MODULE FileProofs -----------------------------
(***************************************************************************)
(* What TLAPS proves of the two components that deal in files: of Backup,  *)
(* for any number of users and threads, and of ImportOrders, for any       *)
(* files, importers and tabs.  The two share no variable; each theorem is  *)
(* about the specification of one of them.                                 *)
(***************************************************************************)
EXTENDS Backup, ImportOrders, SequenceTheorems, SumLemmas

-----------------------------------------------------------------------------
(* Backup: the flag. *)

\* While the flag is set someone is generating, whatever generations fail or
\* overlap and whenever the server is restarted.
THEOREM FlagAlwaysMeansGenerating == Spec => []FlagMeansGenerating
<1>1. Init => FlagMeansGenerating
    BY DEF Init, FlagMeansGenerating
<1>2. FlagMeansGenerating /\ [Next]_vars => FlagMeansGenerating'
    <2> SUFFICES ASSUME FlagMeansGenerating, [Next]_vars PROVE FlagMeansGenerating'
        OBVIOUS
    <2>1. CASE UNCHANGED <<generating, solver_running>>
        BY <2>1 DEF FlagMeansGenerating
    <2>2. ASSUME NEW u \in Users, StartGenerate(u) PROVE FlagMeansGenerating'
        BY <2>2 DEF FlagMeansGenerating, StartGenerate
    <2>3. ASSUME NEW u \in Users, EndGenerate(u) PROVE FlagMeansGenerating'
        BY <2>3 DEF FlagMeansGenerating, EndGenerate, FlagAfter
    <2>4. CASE Restart
        BY <2>4 DEF FlagMeansGenerating, Restart
    <2>5. ASSUME NEW t \in Threads, BeginBackup(t) \/ Work(t)
          PROVE  UNCHANGED <<generating, solver_running>>
        BY <2>5 DEF BeginBackup, Work, BeginSafety, CopyBackup, Prune, Overwrite,
                    FinishRestore, FailJob, UNCHANGEDdb
    <2>6. ASSUME NEW t, NEW f, BeginRestore(t, f)
          PROVE  UNCHANGED <<generating, solver_running>>
        BY <2>6 DEF BeginRestore, UNCHANGEDdb
    <2>7. CASE Commit \/ Tick \/ UNCHANGED vars
        BY <2>1, <2>7 DEF Commit, Tick, vars
    <2> QED BY <2>1, <2>2, <2>3, <2>4, <2>5, <2>6, <2>7 DEF Next
<1> QED BY <1>1, <1>2, PTL DEF Spec

-----------------------------------------------------------------------------
(* Backup: the type invariant. *)

LEMMA WithoutType ==
    ASSUME NEW fs \in Seq(File), NEW name
    PROVE  Without(fs, name) \in Seq(File)
<1>1. CASE \A i \in DOMAIN fs : fs[i].name # name
    BY <1>1 DEF Without
<1>2. CASE \E i \in DOMAIN fs : fs[i].name = name
    <2> DEFINE found == {i \in DOMAIN fs : fs[i].name = name}
               k == CHOOSE i \in found : TRUE
    <2>1. k \in DOMAIN fs
        BY <1>2
    <2>2. Without(fs, name) = RemoveAt(fs, k)
        BY <1>2 DEF Without
    <2> HIDE DEF k
    <2> QED BY <2>1, <2>2 DEF RemoveAt
<1> QED BY <1>1, <1>2

LEMMA PrunedType ==
    ASSUME NEW fs \in Seq(File)
    PROVE  Pruned(fs) \in Seq(File)
BY KeepAssumption DEF Pruned

LEMMA DestNameType ==
    ASSUME now \in Nat
    PROVE  DestName \in Names
BY DEF DestName, Names

LEMMA ToSetType ==
    ASSUME NEW fs \in Seq(File)
    PROVE  ToSet(fs) \subseteq File
BY DEF ToSet

\* How far a job has come says of which kind it is.
LEMMA JobKinds ==
    ASSUME NEW k \in Job
    PROVE  /\ k.kind = "restore" => k \in RestoreJob
           /\ k.at \in {"copy", "prune"} => k \in BackupJob \cup RestoreJob
           /\ k.at \in {"safety", "overwrite", "finish"} => k \in RestoreJob
BY DEF Job, Idle, BackupJob

\* What the steps make of a job.
LEMMA BackupSteps ==
    ASSUME NEW k \in BackupJob
    PROVE  [k EXCEPT !.at = "prune"] \in Job
BY DEF Job, BackupJob

LEMMA RestoreSteps ==
    ASSUME NEW k \in RestoreJob
    PROVE  /\ [k EXCEPT !.at = "prune"] \in Job
           /\ \A name \in Names : [k EXCEPT !.at = "copy", !.name = name] \in Job
           /\ [k EXCEPT !.at = "overwrite"] \in Job
           /\ \A c \in Contents : [k EXCEPT !.at = "finish", !.content = c] \in Job
BY DEF Job, RestoreJob

LEMMA StepType ==
    ASSUME job \in [Threads -> Job], NEW t \in Threads, NEW k \in Job, Step(t, k)
    PROVE  job' \in [Threads -> Job]
BY DEF Step

LEMMA BackupType ==
    ASSUME TypeOK, NEW t \in Threads,
           BeginBackup(t) \/ BeginSafety(t) \/ CopyBackup(t) \/ Prune(t) \/ FailJob(t)
    PROVE  TypeOK'
<1>1. Idle \in Job /\ job[t] \in Job
    BY DEF Job, TypeOK
<1>2. DestName \in Names
    BY DestNameType DEF TypeOK
<1>3. UNCHANGED <<live, commits, generating, solver_running, now>>
    BY DEF BeginBackup, BeginSafety, CopyBackup, Prune, FailJob, UNCHANGEDdb
<1>4. files' \in Seq(File)
    <2>1. CASE CopyBackup(t)
        <3>1. job[t].name \in Names
            BY <1>1, <2>1, JobKinds DEF CopyBackup, BackupJob, RestoreJob
        <3>2. [name |-> job[t].name, content |-> live] \in File
            BY <3>1 DEF File, TypeOK
        <3>3. Without(files, job[t].name) \in Seq(File)
            BY WithoutType DEF TypeOK
        <3> QED BY <2>1, <3>2, <3>3 DEF CopyBackup
    <2>2. CASE Prune(t)
        BY <2>2, PrunedType DEF Prune, TypeOK
    <2>3. CASE UNCHANGED files
        BY <2>3 DEF TypeOK
    <2> QED BY <2>1, <2>2, <2>3 DEF BeginBackup, BeginSafety, FailJob
<1>5. staged' \subseteq File
    BY DEF BeginBackup, BeginSafety, CopyBackup, Prune, FailJob, GiveUp, Unstage, TypeOK
<1>6. job' \in [Threads -> Job]
    <2>1. CASE BeginBackup(t)
        <3>1. [kind |-> "backup", at |-> "copy", name |-> DestName] \in Job
            BY <1>2 DEF Job, BackupJob
        <3> QED BY <2>1, <3>1, StepType DEF BeginBackup, TypeOK
    <2>2. CASE BeginSafety(t)
        BY <1>1, <1>2, <2>2, JobKinds, BackupSteps, RestoreSteps, StepType DEF BeginSafety, TypeOK
    <2>3. CASE CopyBackup(t)
        BY <1>1, <2>3, JobKinds, BackupSteps, RestoreSteps, StepType DEF CopyBackup, TypeOK
    <2>4. CASE Prune(t)
        BY <1>1, <2>4, JobKinds, BackupSteps, RestoreSteps, StepType DEF Prune, Restoring, TypeOK
    <2>5. CASE FailJob(t)
        BY <1>1, <2>5, StepType DEF FailJob, GiveUp, TypeOK
    <2> QED BY <2>1, <2>2, <2>3, <2>4, <2>5
<1> QED BY <1>3, <1>4, <1>5, <1>6 DEF TypeOK

LEMMA RestoreType ==
    ASSUME TypeOK, NEW t \in Threads,
           Overwrite(t) \/ FinishRestore(t) \/ \E f \in ToSet(files) : BeginRestore(t, f)
    PROVE  TypeOK'
<1>1. Idle \in Job /\ job[t] \in Job
    BY DEF Job, TypeOK
<1>2. CASE Overwrite(t)
    <2>1. PICK f \in FromStaged(t) :
            Step(t, [job[t] EXCEPT !.at = "finish", !.content = f.content])
        BY <1>2 DEF Overwrite
    <2>2. f.content \in Contents
        BY DEF FromStaged, TypeOK, File
    <2>3. job' \in [Threads -> Job]
        BY <1>1, <1>2, <2>1, <2>2, JobKinds, BackupSteps, RestoreSteps, StepType DEF Overwrite, TypeOK
    <2>4. live' \in Contents
        BY <1>2 DEF Overwrite, Contents
    <2> QED BY <1>2, <2>3, <2>4 DEF Overwrite, TypeOK
<1>3. CASE FinishRestore(t)
    <2>1. job[t].at = "finish" => job[t].content \in Contents
        BY <1>1, JobKinds DEF RestoreJob
    <2>2. job' \in [Threads -> Job]
        BY <1>1, <1>3, StepType DEF FinishRestore, TypeOK
    <2>3. staged' \subseteq File
        BY <1>3 DEF FinishRestore, Unstage, TypeOK
    <2> QED BY <1>3, <2>1, <2>2, <2>3 DEF FinishRestore, TypeOK
<1>4. ASSUME NEW f \in ToSet(files), BeginRestore(t, f) PROVE TypeOK'
    <2>1. f \in File /\ f.name \in Names /\ f.content \in Contents
        BY ToSetType DEF TypeOK, File
    <2> DEFINE k == [kind |-> "restore", at |-> "safety", name |-> f.name,
                     source |-> f.name, selected |-> f.content, content |-> f.content,
                     asked |-> live, since |-> commits]
    <2>2. k \in Job
        BY <2>1 DEF Job, RestoreJob, TypeOK
    <2>3. Step(t, k)
        BY <1>4 DEF BeginRestore
    <2>4. job' \in [Threads -> Job]
        BY <2>2, <2>3, StepType DEF TypeOK
    <2>5. staged' \subseteq File
        BY <1>4, <2>1 DEF BeginRestore, TypeOK
    <2> QED BY <1>4, <2>4, <2>5 DEF BeginRestore, UNCHANGEDdb, TypeOK
<1> QED BY <1>2, <1>3, <1>4

LEMMA InitType == Init => TypeOK
<1> SUFFICES ASSUME Init PROVE TypeOK
    OBVIOUS
<1>1. job \in [Threads -> Job]
    BY DEF Init, Job
<1>2. files \in Seq(File) /\ staged \subseteq File
    BY DEF Init
<1> QED BY <1>1, <1>2 DEF Init, TypeOK, Contents

LEMMA NextType == TypeOK /\ [Next]_vars => TypeOK'
<1> SUFFICES ASSUME TypeOK, [Next]_vars PROVE TypeOK'
    OBVIOUS
<1>1. ASSUME NEW t \in Threads, BeginBackup(t) \/ Work(t) PROVE TypeOK'
    BY <1>1, BackupType, RestoreType DEF Work
<1>2. ASSUME NEW t \in Restorers, NEW f \in ToSet(files), BeginRestore(t, f)
      PROVE  TypeOK'
    BY <1>2, RestorersAssumption, RestoreType
<1>3. ASSUME NEW u \in Users, StartGenerate(u) \/ EndGenerate(u) PROVE TypeOK'
    <2>1. live' \in Contents /\ commits' \in Nat
        <3>1. \/ commits' = commits + 1 /\ live' = commits'
              \/ UNCHANGED <<live, commits>>
            BY <1>3, Zenon DEF StartGenerate, EndGenerate
        <3> QED BY <3>1 DEF TypeOK, Contents
    <2>2. generating' \subseteq Users
        <3>1. generating' = generating \cup {u} \/ generating' = generating \ {u}
            BY <1>3 DEF StartGenerate, EndGenerate
        <3> QED BY <3>1 DEF TypeOK
    <2>3. solver_running' \in BOOLEAN
        BY <1>3, Zenon DEF StartGenerate, EndGenerate, FlagAfter
    <2>4. UNCHANGED <<files, staged, job, now>>
        BY <1>3 DEF StartGenerate, EndGenerate
    <2> QED BY <2>1, <2>2, <2>3, <2>4 DEF TypeOK
<1>4. CASE Commit \/ Tick \/ UNCHANGED vars
    BY <1>4 DEF TypeOK, Commit, Tick, vars, Contents
<1>5. CASE Restart
    BY <1>5 DEF TypeOK, Restart, Job
<1> QED BY <1>1, <1>2, <1>3, <1>4, <1>5 DEF Next

\* Whatever threads and users interleave, fail or are cut off by a restart,
\* jobs and files stay well formed.
THEOREM TypeCorrect == Spec => []TypeOK
BY InitType, NextType, PTL DEF Spec

-----------------------------------------------------------------------------
(* Backup: restoring. *)

\* One administrator restores at a time.
OneRestorer == \A s, t \in Restorers : s = t

\* Only a restorer restores; what is set aside under the name of its source is
\* what was selected, and so is what it writes over the live file.
Faithful(t) ==
    Restoring(t) =>
        /\ t \in Restorers
        /\ \A f \in staged : f.name = job[t].source => f.content = job[t].selected
        /\ job[t].at = "finish" => job[t].content = job[t].selected

StagedIsSelected == \A t \in Threads : Faithful(t)

\* A step of one thread that keeps what it has selected, or is done with it.
LEMMA KeepsSelected ==
    ASSUME TypeOK, StagedIsSelected, NEW t \in Threads, NEW k \in Job, Step(t, k),
           staged' \subseteq staged,
           k.kind = "restore" =>
              /\ Restoring(t)
              /\ k.source = job[t].source /\ k.selected = job[t].selected
              /\ k.at = "finish" => k.content = k.selected
    PROVE  StagedIsSelected'
<1> SUFFICES ASSUME NEW s \in Threads PROVE Faithful(s)'
    BY DEF StagedIsSelected
<1>1. CASE s = t
    BY <1>1 DEF TypeOK, StagedIsSelected, Faithful, Restoring, Step
<1>2. CASE s # t
    BY <1>2 DEF TypeOK, StagedIsSelected, Faithful, Restoring, Step
<1> QED BY <1>1, <1>2

LEMMA BackupKeepsSelected ==
    ASSUME TypeOK, StagedIsSelected, NEW t \in Threads,
           BeginBackup(t) \/ BeginSafety(t) \/ CopyBackup(t) \/ Prune(t)
    PROVE  StagedIsSelected'
<1>1. job[t] \in Job /\ Idle \in Job
    BY DEF TypeOK, Job
<1>2. DestName \in Names
    BY DestNameType DEF TypeOK
<1>3. CASE BeginBackup(t)
    <2> DEFINE k == [kind |-> "backup", at |-> "copy", name |-> DestName]
    <2>1. k \in Job
        BY <1>2 DEF Job, BackupJob
    <2> QED BY <1>3, <2>1, KeepsSelected DEF BeginBackup
<1>4. CASE BeginSafety(t)
    <2> DEFINE k == [job[t] EXCEPT !.at = "copy", !.name = DestName]
    <2>1. job[t] \in RestoreJob
        BY <1>1, <1>4, JobKinds DEF BeginSafety
    <2>2. k \in Job
        BY <1>2, <2>1, RestoreSteps
    <2>3. k.source = job[t].source /\ k.selected = job[t].selected /\ k.at = "copy"
        BY <2>1 DEF RestoreJob
    <2>4. Restoring(t)
        BY <2>1 DEF RestoreJob, Restoring
    <2>5. Step(t, k) /\ staged' = staged
        BY <1>4 DEF BeginSafety
    <2> HIDE DEF k
    <2> QED BY <2>2, <2>3, <2>4, <2>5, KeepsSelected
<1>5. CASE CopyBackup(t)
    <2> DEFINE k == [job[t] EXCEPT !.at = "prune"]
    <2>1. Step(t, k) /\ staged' = staged
        BY <1>5 DEF CopyBackup
    <2>2. CASE job[t] \in BackupJob
        <3>1. k \in Job /\ k.kind = "backup"
            BY <2>2, BackupSteps DEF BackupJob
        <3> HIDE DEF k
        <3> QED BY <2>1, <3>1, KeepsSelected
    <2>3. CASE job[t] \in RestoreJob
        <3>1. k \in Job /\ k.at = "prune"
            BY <2>3, RestoreSteps DEF RestoreJob
        <3>2. Restoring(t) /\ k.source = job[t].source /\ k.selected = job[t].selected
            BY <2>3 DEF RestoreJob, Restoring
        <3> HIDE DEF k
        <3> QED BY <2>1, <3>1, <3>2, KeepsSelected
    <2> QED BY <1>1, <1>5, <2>2, <2>3, JobKinds DEF CopyBackup
<1>6. CASE Prune(t)
    <2>1. CASE Step(t, Idle) /\ Unstage(t)
        BY <1>1, <2>1, KeepsSelected DEF Unstage, Idle
    <2>2. CASE /\ Restoring(t) /\ Step(t, [job[t] EXCEPT !.at = "overwrite"])
               /\ UNCHANGED staged
        <3> DEFINE k == [job[t] EXCEPT !.at = "overwrite"]
        <3>1. job[t] \in RestoreJob
            BY <1>1, <2>2, JobKinds DEF Restoring
        <3>2. k \in Job
            BY <3>1, RestoreSteps
        <3>3. /\ k.source = job[t].source /\ k.selected = job[t].selected
              /\ k.at = "overwrite"
            BY <3>1 DEF RestoreJob
        <3>4. Step(t, k)
            BY <2>2
        <3> HIDE DEF k
        <3> QED BY <2>2, <3>2, <3>3, <3>4, KeepsSelected
    <2> QED BY <1>6, <2>1, <2>2 DEF Prune
<1> QED BY <1>3, <1>4, <1>5, <1>6

LEMMA RestoreKeepsSelected ==
    ASSUME TypeOK, StagedIsSelected, NEW t \in Threads,
           Overwrite(t) \/ FinishRestore(t) \/ FailJob(t)
    PROVE  StagedIsSelected'
<1>1. job[t] \in Job /\ Idle \in Job
    BY DEF TypeOK, Job
<1>2. CASE Overwrite(t)
    <2>1. job[t] \in RestoreJob
        BY <1>1, <1>2, JobKinds DEF Overwrite
    <2>2. PICK f \in FromStaged(t) :
            Step(t, [job[t] EXCEPT !.at = "finish", !.content = f.content])
        BY <1>2 DEF Overwrite
    <2> DEFINE k == [job[t] EXCEPT !.at = "finish", !.content = f.content]
    <2>3. Restoring(t) /\ k.source = job[t].source /\ k.selected = job[t].selected
        BY <2>1 DEF RestoreJob, Restoring
    <2>4. f.content \in Contents /\ f.content = job[t].selected
        BY <2>3 DEF FromStaged, TypeOK, File, StagedIsSelected, Faithful
    <2>5. k \in Job
        BY <2>1, <2>4, RestoreSteps
    <2>6. k.content = f.content
        BY <2>1 DEF RestoreJob
    <2>7. Step(t, k) /\ staged' = staged
        BY <1>2, <2>2 DEF Overwrite
    <2> HIDE DEF k
    <2> QED BY <2>3, <2>4, <2>5, <2>6, <2>7, KeepsSelected
<1>3. CASE FinishRestore(t) \/ FailJob(t)
    <2>1. Step(t, Idle) /\ staged' \subseteq staged
        BY <1>3 DEF FinishRestore, FailJob, GiveUp, Unstage
    <2> QED BY <1>1, <2>1, KeepsSelected DEF Idle
<1> QED BY <1>2, <1>3

LEMMA BeginKeepsSelected ==
    ASSUME TypeOK, StagedIsSelected, OneRestorer, NEW t \in Restorers, NEW f, BeginRestore(t, f)
    PROVE  StagedIsSelected'
<1> SUFFICES ASSUME NEW s \in Threads PROVE Faithful(s)'
    BY DEF StagedIsSelected
<1> DEFINE k == [kind |-> "restore", at |-> "safety", name |-> f.name,
                 source |-> f.name, selected |-> f.content, content |-> f.content,
                 asked |-> live, since |-> commits]
<1>1. t \in Threads /\ job' = [job EXCEPT ![t] = k]
    BY RestorersAssumption DEF BeginRestore, Step
<1>2. staged' = {g \in staged : g.name # f.name} \cup {f}
    BY DEF BeginRestore
<1>3. CASE s = t
    <2>1. job'[s] = k
        BY <1>1, <1>3 DEF TypeOK
    <2>2. \A g \in staged' : g.name = f.name => g.content = f.content
        BY <1>2
    <2> QED BY <1>3, <2>1, <2>2 DEF Faithful
<1>4. CASE s # t
    <2>1. job'[s] = job[s]
        BY <1>1, <1>4 DEF TypeOK
    <2>2. ~ Restoring(s)
        BY <1>4 DEF OneRestorer, StagedIsSelected, Faithful
    <2> QED BY <2>1, <2>2 DEF Faithful, Restoring
<1> QED BY <1>3, <1>4

LEMMA NextKeepsSelected ==
    OneRestorer => (TypeOK /\ StagedIsSelected /\ [Next]_vars => StagedIsSelected')
<1> SUFFICES ASSUME OneRestorer, TypeOK, StagedIsSelected, [Next]_vars
             PROVE  StagedIsSelected'
    OBVIOUS
<1>1. ASSUME NEW t \in Threads, BeginBackup(t) \/ Work(t) PROVE StagedIsSelected'
    BY <1>1, BackupKeepsSelected, RestoreKeepsSelected DEF Work
<1>2. ASSUME NEW t \in Restorers, NEW f \in ToSet(files), BeginRestore(t, f)
      PROVE  StagedIsSelected'
    BY <1>2, BeginKeepsSelected
<1>3. CASE UNCHANGED <<job, staged>>
    BY <1>3 DEF StagedIsSelected, Faithful, Restoring
<1>4. ASSUME NEW u \in Users, StartGenerate(u) \/ EndGenerate(u)
      PROVE  UNCHANGED <<job, staged>>
    BY <1>4 DEF StartGenerate, EndGenerate
<1>5. CASE Commit \/ Tick \/ UNCHANGED vars
    BY <1>3, <1>5 DEF Commit, Tick, vars
<1>6. CASE Restart
    BY <1>6 DEF Restart, StagedIsSelected, Faithful, Restoring, Idle
<1> QED BY <1>1, <1>2, <1>3, <1>4, <1>5, <1>6 DEF Next

\* With one administrator at a time a restore ends with what was selected,
\* though its safety copy may take the name of the selected file or push it
\* out, and other threads back up and prune meanwhile.
THEOREM RestoreAlwaysGivesSelected == OneRestorer => (Spec => RestoreGivesSelected)
<1> DEFINE Given == \A t \in Threads : FinishRestore(t) => live' = job[t].selected
<1> SUFFICES ASSUME OneRestorer PROVE Spec => [][Given]_vars
    BY DEF RestoreGivesSelected
<1>1. TypeOK /\ StagedIsSelected /\ [Next]_vars => [Given]_vars
    <2> SUFFICES ASSUME TypeOK, StagedIsSelected, NEW t \in Threads, FinishRestore(t)
                 PROVE  live' = job[t].selected
        OBVIOUS
    <2>1. job[t] \in RestoreJob
        BY JobKinds DEF TypeOK, FinishRestore
    <2> QED BY <2>1 DEF FinishRestore, StagedIsSelected, Faithful, Restoring, RestoreJob
<1> HIDE DEF Given
<1>2. TypeOK /\ StagedIsSelected /\ [Next]_vars => (TypeOK /\ StagedIsSelected)'
    BY NextType, NextKeepsSelected
<1>3. Init => TypeOK /\ StagedIsSelected
    <2>1. Init => StagedIsSelected
        BY DEF Init, StagedIsSelected, Faithful, Restoring, Idle
    <2> QED BY <2>1, InitType
<1> QED BY <1>1, <1>2, <1>3, PTL DEF Spec

-----------------------------------------------------------------------------
(* Backup: nothing is lost. *)

\* A content that makes up for what there was when the restore was asked for.
Saves(k, content) == content = k.asked \/ (content # Torn /\ content > k.since)

Newest(fs) == fs[Len(fs)]

\* Until it writes over the live file, a restore has that as it was asked for, or
\* a later commit; so has the newest file once the safety copy is made.
Backed(k, db, n, fs) ==
    k.kind = "restore" /\ k.at # "finish" =>
        /\ k.since <= n
        /\ Saves(k, db)
        /\ k.at \in {"prune", "overwrite"} => fs # <<>> /\ Saves(k, Newest(fs).content)

AllBacked == \A t \in Threads : Backed(job[t], live, commits, files)

\* What is copied is the newest file, and pruning keeps the newest file.
LEMMA CopyIsNewest ==
    ASSUME NEW fs \in Seq(File), NEW f \in File
    PROVE  Append(fs, f) # <<>> /\ Newest(Append(fs, f)) = f
BY DEF Newest

LEMMA NewestIsKept ==
    ASSUME NEW fs \in Seq(File), fs # <<>>
    PROVE  Pruned(fs) # <<>> /\ Newest(Pruned(fs)) = Newest(fs)
<1> DEFINE kept == IF Keep > 1 THEN Keep ELSE 1
           m == Len(fs) - kept + 1
<1>1. kept \in Int /\ kept >= 1 /\ Len(fs) \in Nat
    BY KeepAssumption
<1>2. CASE Len(fs) > kept
    <2>1. Pruned(fs) = SubSeq(fs, m, Len(fs))
        BY <1>2 DEF Pruned
    <2>2. m \in 1..Len(fs)
        BY <1>1, <1>2
    <2>3. Len(fs) - m + 1 = kept /\ m + kept - 1 = Len(fs)
        BY <1>1
    <2> HIDE DEF m, kept
    <2>4. Len(SubSeq(fs, m, Len(fs))) = kept
        BY <1>1, <2>2, <2>3
    <2>5. SubSeq(fs, m, Len(fs))[kept] = fs[Len(fs)]
        <3>1. kept \in 1..(Len(fs) - m + 1)
            BY <1>1, <2>3
        <3>2. m \in Int /\ Len(fs) \in Int /\ \A i \in m..Len(fs) : fs[i] \in File
            BY <1>1, <2>2
        <3>3. SubSeq(fs, m, Len(fs))[kept] = fs[m + kept - 1]
            BY <3>1, <3>2, SubSeqProperties
        <3> QED BY <1>1, <2>3, <3>2, <3>3
    <2>6. SubSeq(fs, m, Len(fs)) # <<>>
        <3>1. Len(<<>>) # kept
            BY <1>1
        <3> QED BY <2>4, <3>1
    <2> QED BY <2>1, <2>4, <2>5, <2>6 DEF Newest
<1>3. CASE ~(Len(fs) > kept)
    BY <1>3 DEF Pruned
<1> QED BY <1>2, <1>3

\* Files change only by copies of the live file and by pruning.
LEMMA FilesStayBacked ==
    ASSUME TypeOK, NEW t \in Threads, CopyBackup(t) \/ Prune(t) \/ UNCHANGED files,
           NEW k, Backed(k, live, commits, files)
    PROVE  Backed(k, live, commits, files')
<1>1. CASE CopyBackup(t)
    <2> DEFINE f == [name |-> job[t].name, content |-> live]
    <2>1. job[t].name \in Names
        BY <1>1, JobKinds DEF CopyBackup, BackupJob, RestoreJob, TypeOK
    <2>2. f \in File /\ f.content = live
        BY <2>1 DEF File, TypeOK
    <2>3. Without(files, job[t].name) \in Seq(File)
        BY WithoutType DEF TypeOK
    <2>4. files' = Append(Without(files, job[t].name), f)
        BY <1>1 DEF CopyBackup
    <2> HIDE DEF f
    <2>5. files' # <<>> /\ Newest(files') = f
        BY <2>2, <2>3, <2>4, CopyIsNewest
    <2> QED BY <2>2, <2>5 DEF Backed
<1>2. CASE Prune(t)
    <2>1. files' = Pruned(files) /\ files \in Seq(File)
        BY <1>2 DEF Prune, TypeOK
    <2>2. files # <<>> => files' # <<>> /\ Newest(files') = Newest(files)
        BY <2>1, NewestIsKept
    <2> QED BY <2>2 DEF Backed
<1> QED BY <1>1, <1>2

\* A thread's own step, when the database stays.
LEMMA BackedStep ==
    ASSUME TypeOK, AllBacked, NEW t \in Threads, NEW k, Step(t, k),
           CopyBackup(t) \/ Prune(t) \/ UNCHANGED files, UNCHANGED <<live, commits>>,
           Backed(k, live, commits, files')
    PROVE  AllBacked'
<1>1. \A s \in Threads : Backed(job[s], live, commits, files')
    BY FilesStayBacked DEF AllBacked
<1>2. \A s \in Threads : job'[s] = IF s = t THEN k ELSE job[s]
    BY DEF Step, TypeOK
<1>3. \A s \in Threads : Backed(job'[s], live, commits, files')
    BY <1>1, <1>2
<1>4. live' = live /\ commits' = commits
    OBVIOUS
<1> QED BY <1>3, <1>4 DEF AllBacked

LEMMA IdleBacked == \A db, n, fs : Backed(Idle, db, n, fs)
BY DEF Backed, Idle

LEMMA BackupStaysBacked ==
    ASSUME TypeOK, AllBacked, NEW t \in Threads,
           BeginBackup(t) \/ BeginSafety(t) \/ CopyBackup(t) \/ Prune(t) \/ FailJob(t)
    PROVE  AllBacked'
<1> DEFINE k == job[t]
<1>1. /\ UNCHANGED <<live, commits>> /\ (CopyBackup(t) \/ Prune(t) \/ UNCHANGED files)
    BY DEF BeginBackup, BeginSafety, CopyBackup, Prune, FailJob, UNCHANGEDdb
<1>2. Backed(k, live, commits, files) /\ Backed(k, live, commits, files')
    BY <1>1, FilesStayBacked DEF AllBacked
<1>3. k \in Job /\ Idle \in Job
    BY DEF TypeOK, Job
<1>4. ASSUME NEW j, Step(t, j), Backed(j, live, commits, files') PROVE AllBacked'
    BY <1>1, <1>4, BackedStep
<1>5. CASE BeginBackup(t)
    <2> DEFINE j == [kind |-> "backup", at |-> "copy", name |-> DestName]
    <2>1. Step(t, j) /\ Backed(j, live, commits, files')
        BY <1>5 DEF BeginBackup, Backed
    <2> QED BY <1>4, <2>1
<1>6. CASE BeginSafety(t)
    <2> DEFINE j == [k EXCEPT !.at = "copy", !.name = DestName]
    <2>1. k \in RestoreJob
        BY <1>3, <1>6, JobKinds DEF BeginSafety
    <2>2. /\ j.kind = k.kind /\ j.asked = k.asked /\ j.since = k.since /\ j.at = "copy"
          /\ k.at \in {"safety", "copy", "prune", "overwrite", "finish"}
        BY <2>1 DEF RestoreJob
    <2>3. k.at = "safety" /\ Step(t, j)
        BY <1>6 DEF BeginSafety
    <2> HIDE DEF j
    <2>4. Backed(j, live, commits, files')
        BY <1>2, <2>2, <2>3 DEF Backed, Saves
    <2> QED BY <1>4, <2>3, <2>4
<1>7. CASE CopyBackup(t)
    <2> DEFINE j == [k EXCEPT !.at = "prune"]
               f == [name |-> k.name, content |-> live]
    <2>1. k \in BackupJob \/ k \in RestoreJob
        BY <1>3, <1>7, JobKinds DEF CopyBackup
    <2>2. /\ j.kind = k.kind /\ j.at = "prune"
          /\ k.kind = "restore" => j.asked = k.asked /\ j.since = k.since
        BY <2>1 DEF BackupJob, RestoreJob
    <2>3. k.at = "copy" /\ Step(t, j)
        BY <1>7 DEF CopyBackup
    <2>4. files' # <<>> /\ Newest(files').content = live
        <3>1. f \in File
            BY <2>1 DEF File, TypeOK, BackupJob, RestoreJob
        <3>2. files' = Append(Without(files, k.name), f) /\ f.content = live
            BY <1>7 DEF CopyBackup
        <3>3. Without(files, k.name) \in Seq(File)
            BY WithoutType DEF TypeOK
        <3> HIDE DEF f
        <3> QED BY <3>1, <3>2, <3>3, CopyIsNewest
    <2> HIDE DEF j
    <2>5. Backed(j, live, commits, files')
        BY <1>2, <2>2, <2>3, <2>4 DEF Backed, Saves
    <2> QED BY <1>4, <2>3, <2>5
<1>8. CASE Prune(t)
    <2>1. CASE Step(t, Idle)
        BY <1>4, <2>1, IdleBacked
    <2>2. CASE Restoring(t) /\ Step(t, [k EXCEPT !.at = "overwrite"])
        <3> DEFINE j == [k EXCEPT !.at = "overwrite"]
        <3>1. k \in RestoreJob
            BY <1>3, <2>2, JobKinds DEF Restoring
        <3>2. j.kind = k.kind /\ j.asked = k.asked /\ j.since = k.since /\ j.at = "overwrite"
            BY <3>1 DEF RestoreJob
        <3>3. k.at = "prune" /\ Step(t, j)
            BY <1>8, <2>2 DEF Prune
        <3> HIDE DEF j
        <3>4. Backed(j, live, commits, files')
            BY <1>2, <3>2, <3>3 DEF Backed, Saves
        <3> QED BY <1>4, <3>3, <3>4
    <2> QED BY <1>8, <2>1, <2>2 DEF Prune
<1>9. CASE FailJob(t)
    BY <1>4, <1>9, IdleBacked DEF FailJob, GiveUp
<1> QED BY <1>5, <1>6, <1>7, <1>8, <1>9

\* Only the one restorer writes over the live file.
LEMMA RestoreStaysBacked ==
    ASSUME TypeOK, StagedIsSelected, AllBacked, OneRestorer, NEW t \in Threads,
           Overwrite(t) \/ FinishRestore(t) \/ \E f \in ToSet(files) : t \in Restorers /\ BeginRestore(t, f)
    PROVE  AllBacked'
<1>1. UNCHANGED files /\ commits' = commits
    BY DEF Overwrite, FinishRestore, BeginRestore, UNCHANGEDdb
<1>2. t \in Restorers
    <2>1. ASSUME Overwrite(t) \/ FinishRestore(t) PROVE Restoring(t)
        <3>1. job[t] \in RestoreJob
            BY <2>1, JobKinds DEF Overwrite, FinishRestore, TypeOK
        <3> QED BY <3>1 DEF RestoreJob, Restoring
    <2> QED BY <2>1 DEF StagedIsSelected, Faithful
<1>3. \A s \in Threads : s # t => job[s].kind # "restore"
    BY <1>2 DEF StagedIsSelected, Faithful, Restoring, OneRestorer
<1>4. ASSUME NEW k, Step(t, k), Backed(k, live', commits', files') PROVE AllBacked'
    <2>1. \A s \in Threads : job'[s] = IF s = t THEN k ELSE job[s]
        BY <1>4 DEF Step, TypeOK
    <2>2. \A s \in Threads : Backed(job'[s], live', commits', files')
        BY <1>3, <1>4, <2>1 DEF Backed
    <2> QED BY <2>2 DEF AllBacked
<1>5. CASE Overwrite(t)
    <2>1. PICK f \in FromStaged(t) :
            Step(t, [job[t] EXCEPT !.at = "finish", !.content = f.content])
        BY <1>5 DEF Overwrite
    <2> DEFINE k == [job[t] EXCEPT !.at = "finish", !.content = f.content]
    <2>2. job[t] \in RestoreJob
        BY <1>5, JobKinds DEF Overwrite, TypeOK
    <2>3. k.at = "finish"
        BY <2>2 DEF RestoreJob
    <2> QED BY <1>4, <2>1, <2>3 DEF Backed
<1>6. CASE FinishRestore(t)
    BY <1>4, <1>6, IdleBacked DEF FinishRestore
<1>7. ASSUME NEW f \in ToSet(files), BeginRestore(t, f) PROVE AllBacked'
    <2> DEFINE k == [kind |-> "restore", at |-> "safety", name |-> f.name,
                     source |-> f.name, selected |-> f.content, content |-> f.content,
                     asked |-> live, since |-> commits]
    <2>1. Step(t, k) /\ live' = live
        BY <1>7 DEF BeginRestore, UNCHANGEDdb
    <2>2. k.at = "safety" /\ k.asked = live /\ k.since = commits
        OBVIOUS
    <2> HIDE DEF k
    <2>3. Backed(k, live', commits', files')
        BY <1>1, <2>1, <2>2 DEF Backed, Saves, TypeOK
    <2> QED BY <1>4, <2>1, <2>3
<1> QED BY <1>5, <1>6, <1>7

\* A commit is later than what a restore was asked for.
LEMMA CommitStaysBacked ==
    ASSUME TypeOK, AllBacked, UNCHANGED <<files, job>>,
           (commits' = commits + 1 /\ live' = commits') \/ UNCHANGED <<live, commits>>
    PROVE  AllBacked'
<1>1. ASSUME NEW t \in Threads PROVE Backed(job[t], live', commits', files)
    <2>1. Backed(job[t], live, commits, files)
        BY DEF AllBacked
    <2>2. job[t].kind = "restore" => job[t].since \in Nat
        BY JobKinds DEF TypeOK, RestoreJob
    <2>3. commits + 1 \in Nat /\ commits + 1 # Torn
        BY TornAssumption DEF TypeOK
    <2>4. commits \in Nat
        BY DEF TypeOK
    <2> QED BY <2>1, <2>2, <2>3, <2>4 DEF Backed, Saves
<1> QED BY <1>1 DEF AllBacked

LEMMA NextStaysBacked ==
    OneRestorer => (TypeOK /\ StagedIsSelected /\ AllBacked /\ [Next]_vars => AllBacked')
<1> SUFFICES ASSUME OneRestorer, TypeOK, StagedIsSelected, AllBacked, [Next]_vars
             PROVE  AllBacked'
    OBVIOUS
<1>1. ASSUME NEW t \in Threads, BeginBackup(t) \/ Work(t) PROVE AllBacked'
    BY <1>1, BackupStaysBacked, RestoreStaysBacked DEF Work
<1>2. ASSUME NEW t \in Restorers, NEW f \in ToSet(files), BeginRestore(t, f)
      PROVE  AllBacked'
    BY <1>2, RestorersAssumption, RestoreStaysBacked
<1>3. ASSUME NEW u \in Users, StartGenerate(u) \/ EndGenerate(u) PROVE AllBacked'
    <2>1. /\ UNCHANGED <<files, job>>
          /\ (commits' = commits + 1 /\ live' = commits') \/ UNCHANGED <<live, commits>>
        BY <1>3, Zenon DEF StartGenerate, EndGenerate
    <2> QED BY <2>1, CommitStaysBacked
<1>4. CASE Commit \/ Tick \/ UNCHANGED vars
    BY <1>4, CommitStaysBacked DEF Commit, Tick, vars
<1>5. CASE Restart
    BY <1>5, IdleBacked DEF Restart, AllBacked
<1> QED BY <1>1, <1>2, <1>3, <1>4, <1>5 DEF Next

\* With one administrator at a time, when the live file is written over there is
\* a backup of what it held when the restore was asked for or of a later commit:
\* for any number of threads that back up and prune meanwhile, and any number of
\* backups kept.
THEOREM OverwrittenAlwaysSaved == OneRestorer => (Spec => OverwrittenIsSaved)
<1> DEFINE Saved == \A t \in Threads : Overwrite(t) =>
                       \E f \in ToSet(files) :
                           f.content = job[t].asked \/ (f.content # Torn /\ f.content > job[t].since)
<1> SUFFICES ASSUME OneRestorer PROVE Spec => [][Saved]_vars
    BY DEF OverwrittenIsSaved
<1>1. TypeOK /\ StagedIsSelected /\ AllBacked /\ [Next]_vars => [Saved]_vars
    <2> SUFFICES ASSUME TypeOK, AllBacked, NEW t \in Threads, Overwrite(t)
                 PROVE  \E f \in ToSet(files) :
                            f.content = job[t].asked \/ (f.content # Torn /\ f.content > job[t].since)
        OBVIOUS
    <2>1. job[t].at = "overwrite" /\ job[t].kind = "restore"
        BY JobKinds DEF TypeOK, Overwrite, RestoreJob
    <2>2. files \in Seq(File) /\ files # <<>> /\ Saves(job[t], Newest(files).content)
        BY <2>1 DEF AllBacked, Backed, TypeOK
    <2>3. Newest(files) \in ToSet(files)
        BY <2>2 DEF Newest, ToSet
    <2> QED BY <2>2, <2>3 DEF Saves
<1> HIDE DEF Saved
<1>2. TypeOK /\ StagedIsSelected /\ AllBacked /\ [Next]_vars => (TypeOK /\ StagedIsSelected /\ AllBacked)'
    BY NextType, NextKeepsSelected, NextStaysBacked
<1>3. Init => TypeOK /\ StagedIsSelected /\ AllBacked
    <2>1. Init => AllBacked
        BY IdleBacked DEF Init, AllBacked
    <2>2. Init => StagedIsSelected
        BY DEF Init, StagedIsSelected, Faithful, Restoring, Idle
    <2> QED BY <2>1, <2>2, InitType
<1> QED BY <1>1, <1>2, <1>3, PTL DEF Spec

-----------------------------------------------------------------------------
(* Import: putting elements in order. *)

\* How many come before x.
Rank(x, S, R) == Cardinality({y \in S : <<y, x>> \in R})
Lower(n, S, R) == {x \in S : Rank(x, S, R) < n}

LEMMA LowerCount ==
    ASSUME NEW S, IsFiniteSet(S), NEW R, IsStrictOrder(R, S), NEW n \in Int
    PROVE  /\ n >= Cardinality(S) => Lower(n, S, R) = S
           /\ 0 <= n /\ n <= Cardinality(S) => Cardinality(Lower(n, S, R)) = n
<1> DEFINE T == {x \in S : Cardinality({y \in S : <<y, x>> \in R}) < n}
<1>1. /\ n <= 0 => T = {}
      /\ n >= Cardinality(S) => T = S
      /\ 0 <= n /\ n <= Cardinality(S) => Cardinality(T) = n
    BY FirstCount
<1>2. Lower(n, S, R) = T
    BY DEF Lower, Rank
<1> QED BY <1>1, <1>2

\* In a finite strict order the ranks are 0 up to the size less one, each of
\* one element.
LEMMA RanksOnto ==
    ASSUME NEW S, IsFiniteSet(S), NEW R, IsStrictOrder(R, S)
    PROVE  /\ \A x \in S : Rank(x, S, R) \in 0..(Cardinality(S) - 1)
           /\ \A x, y \in S : Rank(x, S, R) = Rank(y, S, R) => x = y
           /\ \A n \in 0..(Cardinality(S) - 1) : \E x \in S : Rank(x, S, R) = n
<1> DEFINE N == Cardinality(S)
<1>1. N \in Nat
    BY FS_CardinalityType
<1>2. \A x \in S : Rank(x, S, R) \in Nat
    <2> SUFFICES ASSUME NEW x \in S PROVE Rank(x, S, R) \in Nat
        OBVIOUS
    <2>1. IsFiniteSet({y \in S : <<y, x>> \in R})
        BY FS_Subset
    <2> QED BY <2>1, FS_CardinalityType DEF Rank
<1>3. ASSUME NEW x \in S, NEW y \in S, <<x, y>> \in R
      PROVE  Rank(x, S, R) # Rank(y, S, R)
    <2> DEFINE U == {z \in S : <<z, x>> \in R}
               V == {z \in S : <<z, y>> \in R}
    <2>1. U \subseteq V /\ x \in V /\ x \notin U /\ V \subseteq S
        BY <1>3 DEF IsStrictOrder
    <2>2. Rank(x, S, R) = Cardinality(U) /\ Rank(y, S, R) = Cardinality(V)
        BY DEF Rank
    <2> HIDE DEF U, V
    <2>3. IsFiniteSet(V)
        BY <2>1, FS_Subset
    <2>4. Cardinality(U) # Cardinality(V)
        BY <2>1, <2>3, FS_Subset
    <2> QED BY <2>2, <2>4
<1>4. \A x, y \in S : Rank(x, S, R) = Rank(y, S, R) => x = y
    BY <1>3 DEF IsStrictOrder
<1>5. \A x \in S : Rank(x, S, R) \in 0..(N - 1)
    <2> HIDE DEF N
    <2>1. Lower(N, S, R) = S
        BY <1>1, LowerCount DEF N
    <2>2. \A x \in S : Rank(x, S, R) < N
        BY <2>1 DEF Lower
    <2> QED BY <1>1, <1>2, <2>2
<1>6. ASSUME NEW n \in 0..(N - 1)
      PROVE  \E x \in S : Rank(x, S, R) = n
    <2> HIDE DEF N
    <2>1. n \in Int /\ n + 1 \in Int /\ 0 <= n /\ n <= N /\ 0 <= n + 1 /\ n + 1 <= N
        BY <1>1, <1>6
    <2>2. Cardinality(Lower(n, S, R)) = n /\ Cardinality(Lower(n + 1, S, R)) = n + 1
        BY <2>1, LowerCount DEF N
    <2>3. Lower(n, S, R) # Lower(n + 1, S, R)
        BY <2>1, <2>2
    <2>4. PICK x \in S : ~ (Rank(x, S, R) < n <=> Rank(x, S, R) < n + 1)
        BY <2>3 DEF Lower
    <2>5. Rank(x, S, R) \in Nat
        BY <1>2
    <2> QED BY <2>1, <2>4, <2>5
<1> QED BY <1>4, <1>5, <1>6

\* Put in order, every element of S is there, once.
LEMMA InOrderOnto ==
    ASSUME NEW S, IsFiniteSet(S), NEW R, IsStrictOrder(R, S)
    PROVE  /\ InOrder(S, R) \in [1..Cardinality(S) -> S]
           /\ IsInjective(InOrder(S, R))
           /\ \A x \in S : \E n \in 1..Cardinality(S) : InOrder(S, R)[n] = x
           /\ Cardinality(S) \in Nat
<1> DEFINE N == Cardinality(S)
<1>1. N \in Nat
    BY FS_CardinalityType
<1> HIDE DEF N
<1>2. /\ \A x \in S : Rank(x, S, R) \in 0..(N - 1)
      /\ \A x, y \in S : Rank(x, S, R) = Rank(y, S, R) => x = y
      /\ \A n \in 0..(N - 1) : \E x \in S : Rank(x, S, R) = n
    BY RanksOnto DEF N
<1>3. InOrder(S, R) = [n \in 1..N |-> CHOOSE x \in S : Rank(x, S, R) = n - 1]
    BY DEF InOrder, Rank, N
<1>4. \A n \in 1..N : InOrder(S, R)[n] \in S /\ Rank(InOrder(S, R)[n], S, R) = n - 1
    <2> SUFFICES ASSUME NEW n \in 1..N
                 PROVE  InOrder(S, R)[n] \in S /\ Rank(InOrder(S, R)[n], S, R) = n - 1
        OBVIOUS
    <2>1. n - 1 \in 0..(N - 1)
        BY <1>1
    <2>2. \E x \in S : Rank(x, S, R) = n - 1
        BY <1>2, <2>1
    <2>3. InOrder(S, R)[n] = CHOOSE x \in S : Rank(x, S, R) = n - 1
        BY <1>3
    <2> QED BY <2>2, <2>3
<1>5. InOrder(S, R) \in [1..N -> S]
    BY <1>3, <1>4
<1>6. \A x \in S : \E n \in 1..N : InOrder(S, R)[n] = x
    <2> SUFFICES ASSUME NEW x \in S PROVE \E n \in 1..N : InOrder(S, R)[n] = x
        OBVIOUS
    <2>1. Rank(x, S, R) \in 0..(N - 1)
        BY <1>2
    <2>2. Rank(x, S, R) + 1 \in 1..N /\ (Rank(x, S, R) + 1) - 1 = Rank(x, S, R)
        BY <1>1, <2>1
    <2> QED BY <1>2, <1>4, <2>2
<1>7. IsInjective(InOrder(S, R))
    <2>1. \A n, m \in 1..N : InOrder(S, R)[n] = InOrder(S, R)[m] => n = m
        <3> SUFFICES ASSUME NEW n \in 1..N, NEW m \in 1..N, InOrder(S, R)[n] = InOrder(S, R)[m]
                     PROVE  n = m
            OBVIOUS
        <3>1. n - 1 = m - 1
            BY <1>4
        <3> QED BY <3>1
    <2> QED BY <1>5, <2>1 DEF IsInjective
<1> QED BY <1>1, <1>5, <1>6, <1>7 DEF N

LEMMA AscendingStrict ==
    ASSUME NEW S \in SUBSET Int
    PROVE  IsStrictOrder(Ascending(S), S)
<1>1. \A x, y \in S : <<x, y>> \in Ascending(S) <=> x < y
    BY DEF Ascending
<1> QED BY <1>1 DEF IsStrictOrder

LEMMA ByListStrict ==
    ASSUME NEW P \in SUBSET (Int \X Int)
    PROVE  IsStrictOrder(ByList(P), P)
<1>1. \A p, q \in P : <<p, q>> \in ByList(P) <=> (p[1] < q[1] \/ (p[1] = q[1] /\ p[2] < q[2]))
    BY DEF ByList
<1>2. \A p \in P : p[1] \in Int /\ p[2] \in Int /\ p = <<p[1], p[2]>>
    OBVIOUS
<1>3. \A p, q \in P : p # q => (p[1] # q[1] \/ p[2] # q[2])
    BY <1>2
<1> QED BY <1>1, <1>2, <1>3 DEF IsStrictOrder

-----------------------------------------------------------------------------
(* Import: each shipment number once. *)

LEMMA ValuesFinite ==
    ASSUME NEW S, IsFiniteSet(S), NEW f
    PROVE  IsFiniteSet({f[x] : x \in S})
<1> DEFINE T == {f[x] : x \in S}
           g == [x \in S |-> f[x]]
<1>1. g \in Surjection(S, T)
    BY DEF Surjection
<1> HIDE DEF g, T
<1>2. IsFiniteSet(T)
    BY <1>1, FS_Surjection
<1> QED BY <1>2 DEF T

LEMMA PlacesFinite ==
    ASSUME NEW n \in Nat, NEW lists \in [1..n -> Seq(Shipment)]
    PROVE  /\ IsFiniteSet(PlacesIn(lists))
           /\ PlacesIn(lists) \in SUBSET (Int \X Int)
           /\ \A p \in PlacesIn(lists) : /\ p = <<p[1], p[2]>>
                                         /\ p[1] \in 1..n /\ p[2] \in DOMAIN lists[p[1]]
                                         /\ At(lists, p) \in Shipment
           /\ \A i \in 1..n : \A k \in DOMAIN lists[i] : <<i, k>> \in PlacesIn(lists)
<1>1. \A i \in 1..n : DOMAIN lists[i] = 1..Len(lists[i]) /\ Len(lists[i]) \in Nat
    <2> SUFFICES ASSUME NEW i \in 1..n
                 PROVE  DOMAIN lists[i] = 1..Len(lists[i]) /\ Len(lists[i]) \in Nat
        OBVIOUS
    <2>1. lists[i] \in Seq(Shipment)
        OBVIOUS
    <2> QED BY <2>1, LenProperties
<1>2. \A p : p \in PlacesIn(lists) <=> \E i \in 1..n : \E k \in DOMAIN lists[i] : p = <<i, k>>
    BY DEF PlacesIn
<1> DEFINE Part(i) == {i} \X DOMAIN lists[i]
           part == [i \in 1..n |-> Part(i)]
           Parts == {part[i] : i \in 1..n}
<1>3. IsFiniteSet(1..n)
    BY FS_Interval
<1>4. IsFiniteSet(Parts)
    <2> HIDE DEF part
    <2> QED BY <1>3, ValuesFinite
<1>5. ASSUME NEW i \in 1..n PROVE IsFiniteSet(Part(i))
    <2>1. IsFiniteSet(DOMAIN lists[i])
        BY <1>1, FS_Interval
    <2>2. IsFiniteSet({i})
        BY FS_Singleton
    <2> QED BY <2>1, <2>2, FS_Product
<1>6. IsFiniteSet(UNION Parts)
    <2>1. \A U \in Parts : IsFiniteSet(U)
        BY <1>5
    <2> HIDE DEF Parts
    <2> QED BY <1>4, <2>1, FS_UNION
<1>7. PlacesIn(lists) = UNION Parts
    BY DEF PlacesIn
<1>8. \A i \in 1..n : \A k \in DOMAIN lists[i] : lists[i][k] \in Shipment
    BY <1>1, ElementOfSeq
<1>9. \A p \in PlacesIn(lists) : /\ p = <<p[1], p[2]>>
                                /\ p[1] \in 1..n /\ p[2] \in DOMAIN lists[p[1]]
                                /\ At(lists, p) \in Shipment
    BY <1>2, <1>8 DEF At
<1>10. PlacesIn(lists) \in SUBSET (Int \X Int)
    BY <1>1, <1>2
<1> QED BY <1>2, <1>6, <1>7, <1>9, <1>10

\* Where a number comes first.
Firsts(lists) ==
    {p \in PlacesIn(lists) : \A q \in PlacesIn(lists) :
        At(lists, q).number = At(lists, p).number => <<q, p>> \notin ByList(PlacesIn(lists))}

\* Every number stays once, as it comes first.
LEMMA EachNumberOnce ==
    ASSUME NEW n \in Nat, NEW lists \in [1..n -> Seq(Shipment)]
    PROVE  /\ FirstOfNumber(lists) \in Seq(Shipment)
           /\ \A k \in DOMAIN FirstOfNumber(lists) :
                  \E p \in Firsts(lists) : FirstOfNumber(lists)[k] = At(lists, p)
           /\ \A p \in PlacesIn(lists) : \E k \in DOMAIN FirstOfNumber(lists) :
                  FirstOfNumber(lists)[k].number = At(lists, p).number
           /\ \A j, k \in DOMAIN FirstOfNumber(lists) :
                  FirstOfNumber(lists)[j].number = FirstOfNumber(lists)[k].number => j = k
<1> DEFINE P == PlacesIn(lists)
           R == ByList(P)
           F == Firsts(lists)
           first == InOrder(F, R)
           N == Cardinality(F)
<1>1. /\ IsFiniteSet(P)
      /\ P \in SUBSET (Int \X Int)
      /\ \A p \in P : At(lists, p) \in Shipment
    BY PlacesFinite
<1>2. IsStrictOrder(R, P)
    BY <1>1, ByListStrict
<1>3. F \subseteq P
    BY DEF Firsts
<1>4. IsFiniteSet(F) /\ IsStrictOrder(R, F)
    BY <1>1, <1>2, <1>3, FS_Subset DEF IsStrictOrder
<1>5. FirstOfNumber(lists) = [k \in DOMAIN first |-> At(lists, first[k])]
    BY DEF FirstOfNumber, Firsts
<1>6. /\ first \in [1..N -> F]
      /\ IsInjective(first)
      /\ \A p \in F : \E k \in 1..N : first[k] = p
      /\ N \in Nat
    <2> HIDE DEF R, F
    <2> QED BY <1>4, InOrderOnto
<1>7. \A p \in F : \A q \in P : At(lists, q).number = At(lists, p).number => <<q, p>> \notin R
    BY DEF Firsts
<1>8. ASSUME NEW p \in P
      PROVE  \E q \in F : At(lists, q).number = At(lists, p).number
    <2> DEFINE T == {q \in P : At(lists, q).number = At(lists, p).number}
    <2>1. T \in SUBSET P /\ T # {}
        OBVIOUS
    <2>2. PICK q \in T : \A r \in T : <<r, q>> \notin R
        <3> HIDE DEF T, P, R
        <3> QED BY <1>1, <1>2, <2>1, FirstExists
    <2>3. q \in F
        BY <2>2 DEF Firsts
    <2> QED BY <2>2, <2>3
<1> HIDE DEF P, R, F, N, first
<1>9. DOMAIN first = 1..N /\ \A k \in 1..N : first[k] \in F
    BY <1>6
<1>10. /\ DOMAIN FirstOfNumber(lists) = 1..N
       /\ \A k \in 1..N : FirstOfNumber(lists)[k] = At(lists, first[k])
    BY <1>5, <1>9
<1>11. FirstOfNumber(lists) \in Seq(Shipment)
    <2>1. FirstOfNumber(lists) = [k \in 1..N |-> At(lists, first[k])]
        BY <1>5, <1>9
    <2>2. \A k \in 1..N : At(lists, first[k]) \in Shipment
        BY <1>1, <1>3, <1>9
    <2>3. [k \in 1..N |-> At(lists, first[k])] \in [1..N -> Shipment]
        BY <2>2
    <2> QED BY <1>6, <2>1, <2>3, SeqDef
<1>12. ASSUME NEW p \in P
       PROVE  \E k \in 1..N : At(lists, first[k]).number = At(lists, p).number
    BY <1>6, <1>8
<1>13. ASSUME NEW j \in 1..N, NEW k \in 1..N,
              At(lists, first[j]).number = At(lists, first[k]).number
       PROVE  j = k
    <2>1. first[j] \in P /\ first[k] \in P
        BY <1>3, <1>9
    <2>2. <<first[j], first[k]>> \notin R /\ <<first[k], first[j]>> \notin R
        BY <1>7, <1>9, <1>13, <2>1
    <2>3. first[j] = first[k]
        BY <1>2, <2>1, <2>2 DEF IsStrictOrder
    <2> QED BY <1>6, <1>9, <2>3 DEF IsInjective
<1>14. \A k \in 1..N : \E p \in F : FirstOfNumber(lists)[k] = At(lists, p)
    BY <1>9, <1>10
<1>15. \A p \in P : \E k \in 1..N : FirstOfNumber(lists)[k].number = At(lists, p).number
    <2> SUFFICES ASSUME NEW p \in P
                 PROVE  \E k \in 1..N : FirstOfNumber(lists)[k].number = At(lists, p).number
        OBVIOUS
    <2>1. PICK k \in 1..N : At(lists, first[k]).number = At(lists, p).number
        BY <1>12
    <2> QED BY <1>10, <2>1
<1>16. \A j, k \in 1..N : FirstOfNumber(lists)[j].number = FirstOfNumber(lists)[k].number => j = k
    BY <1>10, <1>13
<1> QED BY <1>10, <1>11, <1>14, <1>15, <1>16 DEF F, P

-----------------------------------------------------------------------------
(* Import: the shipments of a row and the order of some rows. *)

LEMMA CountTo == \A n \in Nat : IsFiniteSet(1..n) /\ Cardinality(1..n) = n
BY FS_Interval

LEMMA SeqOfLength ==
    ASSUME NEW S, NEW n \in Nat, NEW s \in [1..n -> S]
    PROVE  s \in Seq(S) /\ Len(s) = n
BY SeqDef, LenProperties

LEMMA WeightType ==
    ASSUME NEW kgs \in Seq(Nat), NEW i \in Nat \ {0}
    PROVE  /\ PickWeight(kgs, i) \in Nat \cup {NoWeight}
           /\ TotalWeight(kgs) \in Nat \cup {NoWeight}
<1>1. /\ DOMAIN kgs = 1..Len(kgs) /\ Len(kgs) \in Nat
      /\ \A k \in 1..Len(kgs) : kgs[k] \in Nat
      /\ kgs # <<>> => Len(kgs) > 0
    BY LenProperties, EmptySeq
<1>2. PickWeight(kgs, i) \in Nat \cup {NoWeight}
    <2>1. kgs # <<>> => Lesser(i, Len(kgs)) \in 1..Len(kgs)
        BY <1>1 DEF Lesser
    <2> QED BY <1>1, <2>1 DEF PickWeight
<1>3. SumFunctionOnSet(kgs, DOMAIN kgs) \in Nat
    <2>1. IsFiniteSet(DOMAIN kgs)
        BY <1>1, FS_Interval
    <2>2. \A k \in DOMAIN kgs : kgs[k] \in Int /\ kgs[k] >= 0
        BY <1>1
    <2>3. /\ SumFunctionOnSet(kgs, DOMAIN kgs) \in Int
          /\ SumFunctionOnSet(kgs, DOMAIN kgs) >= 0
        BY <2>1, <2>2, SumType
    <2> QED BY <2>3
<1> QED BY <1>2, <1>3 DEF TotalWeight, SumFunction

\* What Accepted says of the lengths of the cells.
LEMMA AcceptedCells ==
    ASSUME NEW row \in SheetRow, Accepted(row)
    PROVE  /\ row.refs \in Seq(Nat) /\ row.ids \in Seq(Nat) /\ row.kgs \in Seq(Nat)
           /\ DOMAIN row.refs = 1..Len(row.refs) /\ DOMAIN row.ids = 1..Len(row.ids)
           /\ Len(row.refs) \in Nat \ {0} /\ Len(row.ids) \in Nat
           /\ Len(row.refs) > 1 \/ Len(row.ids) > 0
<1>1. row.refs \in Seq(Nat) /\ row.ids \in Seq(Nat) /\ row.kgs \in Seq(Nat)
    BY DEF SheetRow, Codes
<1>2. \A s \in Seq(Nat) : DOMAIN s = 1..Len(s) /\ Len(s) \in Nat /\ (s # <<>> => Len(s) # 0)
    BY LenProperties, EmptySeq
<1> QED BY <1>1, <1>2 DEF Accepted

LEMMA NumberType ==
    ASSUME NEW row \in SheetRow, Accepted(row), NEW i \in 1..Len(row.refs)
    PROVE  Number(row, i) \in Seq(Nat)
<1>1. Len(row.ids) > 1 /\ i <= Len(row.ids) => row.ids[i] \in Nat
    BY AcceptedCells
<1>2. Len(row.ids) > 1 => row.ids[1] \in Nat
    BY AcceptedCells
<1>3. row.refs[i] \in Nat /\ i \in Nat
    BY AcceptedCells
<1> QED BY <1>1, <1>2, <1>3 DEF Number

\* A row has at least one shipment, and as many as it has references.
LEMMA ShipmentsType ==
    ASSUME NEW row \in SheetRow, Accepted(row)
    PROVE  /\ ShipmentsOf(row) \in Seq(Shipment)
           /\ Len(ShipmentsOf(row)) \in Nat \ {0}
           /\ DOMAIN ShipmentsOf(row) = 1..Len(ShipmentsOf(row))
           /\ Len(row.refs) > 1 => /\ Len(ShipmentsOf(row)) = Len(row.refs)
                                   /\ \A i \in 1..Len(row.refs) :
                                          ShipmentsOf(row)[i].number = Number(row, i)
<1>1. /\ row.refs \in Seq(Nat) /\ row.ids \in Seq(Nat) /\ row.kgs \in Seq(Nat)
      /\ DOMAIN row.ids = 1..Len(row.ids)
      /\ Len(row.refs) \in Nat \ {0} /\ Len(row.ids) \in Nat
      /\ Len(row.refs) > 1 \/ Len(row.ids) > 0
    BY AcceptedCells
<1>2. \A n \in Nat : \A s : s \in [1..n -> Shipment] => s \in Seq(Shipment) /\ Len(s) = n /\ DOMAIN s = 1..n
    BY SeqDef, LenProperties
<1>3. CASE Len(row.refs) > 1
    <2> DEFINE s == [i \in 1..Len(row.refs) |-> [number |-> Number(row, i), kg |-> PickWeight(row.kgs, i)]]
    <2>1. ShipmentsOf(row) = s
        BY <1>3 DEF ShipmentsOf
    <2>2. \A i \in 1..Len(row.refs) : Number(row, i) \in Seq(Nat) /\ PickWeight(row.kgs, i) \in Nat \cup {NoWeight}
        BY <1>1, NumberType, WeightType
    <2>3. s \in [1..Len(row.refs) -> Shipment]
        BY <2>2 DEF Shipment
    <2>4. s \in Seq(Shipment) /\ Len(s) = Len(row.refs) /\ DOMAIN s = 1..Len(row.refs)
        <3> HIDE DEF s
        <3> QED BY <1>1, <1>2, <2>3
    <2>5. \A i \in 1..Len(row.refs) : s[i].number = Number(row, i)
        OBVIOUS
    <2> HIDE DEF s
    <2> QED BY <1>1, <2>1, <2>4, <2>5
<1>4. CASE ~ (Len(row.refs) > 1) /\ Len(row.ids) > 1
    <2> DEFINE s == [i \in 1..Len(row.ids) |-> [number |-> <<row.ids[i]>>, kg |-> PickWeight(row.kgs, i)]]
    <2>1. ShipmentsOf(row) = s
        BY <1>4 DEF ShipmentsOf
    <2>2. \A i \in 1..Len(row.ids) : <<row.ids[i]>> \in Seq(Nat) /\ PickWeight(row.kgs, i) \in Nat \cup {NoWeight}
        BY <1>1, WeightType
    <2>3. s \in [1..Len(row.ids) -> Shipment]
        BY <2>2 DEF Shipment
    <2>4. s \in Seq(Shipment) /\ Len(s) = Len(row.ids) /\ DOMAIN s = 1..Len(row.ids)
        <3> HIDE DEF s
        <3> QED BY <1>1, <1>2, <2>3
    <2> HIDE DEF s
    <2> QED BY <1>1, <1>4, <2>1, <2>4
<1>5. CASE ~ (Len(row.refs) > 1) /\ ~ (Len(row.ids) > 1)
    <2> DEFINE s == <<[number |-> <<row.ids[1]>>, kg |-> TotalWeight(row.kgs)]>>
    <2>1. ShipmentsOf(row) = s
        BY <1>5 DEF ShipmentsOf
    <2>2. <<row.ids[1]>> \in Seq(Nat) /\ TotalWeight(row.kgs) \in Nat \cup {NoWeight}
        BY <1>1, <1>5, WeightType
    <2>3. [number |-> <<row.ids[1]>>, kg |-> TotalWeight(row.kgs)] \in Shipment
        BY <2>2 DEF Shipment
    <2>4. s \in Seq(Shipment) /\ Len(s) = 1 /\ DOMAIN s = 1..1
        BY <2>3
    <2> HIDE DEF s
    <2> QED BY <1>5, <2>1, <2>4
<1> QED BY <1>3, <1>4, <1>5

\* Different references give different numbers, unless the cell of numbers
\* lists one twice.
LEMMA NumbersDiffer ==
    ASSUME NEW row \in SheetRow, Accepted(row), NoneTwice(row),
           NEW i \in 1..Len(row.refs), NEW j \in 1..Len(row.refs), Number(row, i) = Number(row, j)
    PROVE  i = j
<1>1. /\ DOMAIN row.refs = 1..Len(row.refs) /\ DOMAIN row.ids = 1..Len(row.ids)
      /\ Len(row.refs) \in Nat /\ Len(row.ids) \in Nat
    BY AcceptedCells
<1>2. /\ row.refs[i] = row.refs[j] => i = j
      /\ i <= Len(row.ids) /\ j <= Len(row.ids) /\ row.ids[i] = row.ids[j] => i = j
    BY <1>1 DEF NoneTwice, IsInjective
<1>3. \A a, b, c : <<a>> # <<b, c>>
    OBVIOUS
<1> QED BY <1>1, <1>2, <1>3 DEF Number

-----------------------------------------------------------------------------
(* Import: the rows of a code and the order they make. *)

LEMMA RowsWithType ==
    ASSUME NEW file \in Seq(SheetRow), NEW code
    PROVE  /\ IsFiniteSet(RowsWith(file, code)) /\ RowsWith(file, code) \in SUBSET Int
           /\ \A k \in RowsWith(file, code) :
                  file[k] \in SheetRow /\ Accepted(file[k]) /\ file[k].refs = code
           /\ RowsWith(file, code) # {} <=> code \in CodesOf(file)
<1>1. DOMAIN file = 1..Len(file) /\ Len(file) \in Nat /\ \A k \in 1..Len(file) : file[k] \in SheetRow
    BY LenProperties
<1>2. IsFiniteSet(DOMAIN file)
    BY <1>1, FS_Interval
<1>3. RowsWith(file, code) \subseteq DOMAIN file
    BY DEF RowsWith, AcceptedRows
<1>4. IsFiniteSet(RowsWith(file, code))
    BY <1>2, <1>3, FS_Subset
<1>5. RowsWith(file, code) # {} <=> code \in CodesOf(file)
    BY DEF RowsWith, CodesOf
<1> QED BY <1>1, <1>3, <1>4, <1>5 DEF RowsWith, AcceptedRows

\* The codes of a file are codes, and finitely many.
LEMMA CodesType ==
    ASSUME NEW file \in Seq(SheetRow)
    PROVE  CodesOf(file) \subseteq Codes /\ IsFiniteSet(CodesOf(file)) /\ Rejected(file) \in Nat
<1>1. DOMAIN file = 1..Len(file) /\ Len(file) \in Nat /\ \A k \in 1..Len(file) : file[k] \in SheetRow
    BY LenProperties
<1>2. IsFiniteSet(DOMAIN file)
    BY <1>1, FS_Interval
<1>3. AcceptedRows(file) \subseteq DOMAIN file /\ DOMAIN file \ AcceptedRows(file) \subseteq DOMAIN file
    BY DEF AcceptedRows
<1>4. Rejected(file) \in Nat
    BY <1>2, <1>3, FS_Subset, FS_CardinalityType DEF Rejected
<1>5. IsFiniteSet(AcceptedRows(file))
    BY <1>2, <1>3, FS_Subset
<1> DEFINE refs == [k \in AcceptedRows(file) |-> file[k].refs]
<1>6. CodesOf(file) = {refs[k] : k \in AcceptedRows(file)}
    BY DEF CodesOf
<1>7. IsFiniteSet(CodesOf(file))
    <2> HIDE DEF refs
    <2> QED BY <1>5, <1>6, ValuesFinite
<1>8. \A k \in AcceptedRows(file) : file[k] \in SheetRow
    BY <1>1, <1>3
<1>9. CodesOf(file) \subseteq Codes
    BY <1>8 DEF CodesOf, SheetRow
<1> QED BY <1>4, <1>7, <1>9

LEMMA RowsType ==
    ASSUME NEW file \in Seq(SheetRow), NEW code \in CodesOf(file)
    PROVE  /\ RowsOf(file, code) \in Seq(SheetRow)
           /\ DOMAIN RowsOf(file, code) = 1..Len(RowsOf(file, code))
           /\ Len(RowsOf(file, code)) \in Nat \ {0}
           /\ \A k \in DOMAIN RowsOf(file, code) : /\ RowsOf(file, code)[k] \in SheetRow
                                                  /\ Accepted(RowsOf(file, code)[k])
                                                  /\ RowsOf(file, code)[k].refs = code
<1> DEFINE W == RowsWith(file, code)
           at == InOrder(W, Ascending(W))
           N == Cardinality(W)
<1>1. /\ IsFiniteSet(W) /\ W \in SUBSET Int /\ W # {}
      /\ \A k \in W : file[k] \in SheetRow /\ Accepted(file[k]) /\ file[k].refs = code
    BY RowsWithType
<1>2. RowsOf(file, code) = [n \in DOMAIN at |-> file[at[n]]]
    BY DEF RowsOf
<1> HIDE DEF W
<1>3. IsStrictOrder(Ascending(W), W)
    BY <1>1, AscendingStrict
<1>4. /\ at \in [1..N -> W] /\ N \in Nat
      /\ \A x \in W : \E n \in 1..N : at[n] = x
    BY <1>1, <1>3, InOrderOnto
<1> HIDE DEF N, at
<1>5. N # 0
    <2>1. PICK x \in W : TRUE
        BY <1>1
    <2>2. PICK n \in 1..N : at[n] = x
        BY <1>4
    <2> QED BY <1>4, <2>2
<1>6. RowsOf(file, code) = [n \in 1..N |-> file[at[n]]]
    BY <1>2, <1>4
<1>7. \A n \in 1..N : at[n] \in W
    BY <1>4
<1>8. [n \in 1..N |-> file[at[n]]] \in [1..N -> SheetRow]
    BY <1>1, <1>7
<1>9. /\ DOMAIN RowsOf(file, code) = 1..N
      /\ \A n \in 1..N : RowsOf(file, code)[n] = file[at[n]]
    BY <1>6
<1>10. RowsOf(file, code) \in Seq(SheetRow) /\ Len(RowsOf(file, code)) = N
    <2>1. RowsOf(file, code) \in [1..N -> SheetRow]
        BY <1>6, <1>8
    <2> QED BY <1>4, <2>1, SeqOfLength
<1>11. \A n \in 1..N : /\ RowsOf(file, code)[n] \in SheetRow
                      /\ Accepted(RowsOf(file, code)[n])
                      /\ RowsOf(file, code)[n].refs = code
    <2> SUFFICES ASSUME NEW n \in 1..N
                 PROVE  /\ RowsOf(file, code)[n] \in SheetRow
                        /\ Accepted(RowsOf(file, code)[n])
                        /\ RowsOf(file, code)[n].refs = code
        OBVIOUS
    <2>1. RowsOf(file, code)[n] = file[at[n]]
        BY <1>9
    <2>2. at[n] \in W
        BY <1>7
    <2> QED BY <1>1, <2>1, <2>2
<1>12. N \in Nat \ {0}
    BY <1>4, <1>5
<1> QED BY <1>9, <1>10, <1>11, <1>12

FileOrder == [code : Codes, place : Places, shipments : Seq(Shipment), due : Int, leave : Int]

LEMMA OrderOfType ==
    ASSUME NEW row \in SheetRow, Accepted(row)
    PROVE  /\ OrderOf(row, Today) \in FileOrder
           /\ OrderOf(row, Today).code = row.refs
           /\ OrderOf(row, Today).shipments = ShipmentsOf(row)
<1>1. row.refs \in Codes /\ row.place \in Places /\ row.due \in Int /\ row.leave \in Int
    BY DEF SheetRow
<1>2. Today \in Int /\ DefaultDays \in Int /\ LeadDays \in Int
    BY BoundAssumption, DaysAssumption
<1>3. ShipmentsOf(row) \in Seq(Shipment)
    BY ShipmentsType
<1> QED BY <1>1, <1>2, <1>3 DEF OrderOf, FileOrder

\* The earliest of some dates is one of them.
LEMMA EarliestIsLeast ==
    ASSUME NEW n \in Nat \ {0}, NEW parts \in [1..n -> FileOrder]
    PROVE  /\ EarliestOf(parts, "due") \in Int /\ EarliestOf(parts, "leave") \in Int
           /\ \A k \in 1..n : /\ EarliestOf(parts, "due") <= parts[k].due
                              /\ EarliestOf(parts, "leave") <= parts[k].leave
           /\ \E k \in 1..n : EarliestOf(parts, "due") = parts[k].due
           /\ \E k \in 1..n : EarliestOf(parts, "leave") = parts[k].leave
<1>1. IsFiniteSet(1..n) /\ 1 \in 1..n
    BY FS_Interval
<1>2. ASSUME NEW f \in [1..n -> Int]
      PROVE  /\ Min({f[k] : k \in 1..n}) \in Int
             /\ \A k \in 1..n : Min({f[k2] : k2 \in 1..n}) <= f[k]
             /\ \E k \in 1..n : Min({f[k2] : k2 \in 1..n}) = f[k]
    <2> DEFINE D == {f[k] : k \in 1..n}
    <2>1. D \in SUBSET Int /\ D # {}
        BY <1>1
    <2>2. IsFiniteSet(D)
        BY <1>1, ValuesFinite
    <2>3. Min(D) \in D /\ \A x \in D : Min(D) <= x
        <3> HIDE DEF D
        <3> QED BY <2>1, <2>2, MinIsLeast
    <2> QED BY <2>1, <2>3
<1> DEFINE due == [k \in 1..n |-> parts[k].due]
           leave == [k \in 1..n |-> parts[k].leave]
<1>3. due \in [1..n -> Int] /\ leave \in [1..n -> Int]
    BY DEF FileOrder
<1>4. /\ EarliestOf(parts, "due") = Min({due[k] : k \in 1..n})
      /\ EarliestOf(parts, "leave") = Min({leave[k] : k \in 1..n})
    BY DEF EarliestOf
<1>5. \A k \in 1..n : due[k] = parts[k].due /\ leave[k] = parts[k].leave
    OBVIOUS
<1> HIDE DEF due, leave
<1> QED BY <1>2, <1>3, <1>4, <1>5

(* Import: what Merge makes of the rows of a code. *)
PartsOf(rows) == [k \in DOMAIN rows |-> OrderOf(rows[k], Today)]

LEMMA PartsType ==
    ASSUME NEW file \in Seq(SheetRow), NEW code \in CodesOf(file),
           NEW rows, rows = RowsOf(file, code)
    PROVE  /\ OrderIn(file, code, Today) = Merge(PartsOf(rows))
           /\ DOMAIN rows = 1..Len(rows) /\ Len(rows) \in Nat \ {0}
           /\ PartsOf(rows) \in [1..Len(rows) -> FileOrder]
           /\ \A k \in 1..Len(rows) : /\ PartsOf(rows)[k] = OrderOf(rows[k], Today)
                                      /\ rows[k] \in SheetRow /\ Accepted(rows[k])
                                      /\ PartsOf(rows)[k].code = code
                                      /\ PartsOf(rows)[k].shipments = ShipmentsOf(rows[k])
<1>1. /\ DOMAIN rows = 1..Len(rows) /\ Len(rows) \in Nat \ {0}
      /\ \A k \in 1..Len(rows) : rows[k] \in SheetRow /\ Accepted(rows[k]) /\ rows[k].refs = code
    BY RowsType
<1>2. OrderIn(file, code, Today) = Merge(PartsOf(rows))
    BY DEF OrderIn, PartsOf
<1>3. \A k \in 1..Len(rows) : /\ OrderOf(rows[k], Today) \in FileOrder
                             /\ OrderOf(rows[k], Today).code = code
                             /\ OrderOf(rows[k], Today).shipments = ShipmentsOf(rows[k])
    BY <1>1, OrderOfType
<1>4. PartsOf(rows) = [k \in 1..Len(rows) |-> OrderOf(rows[k], Today)]
    BY <1>1 DEF PartsOf
<1> QED BY <1>1, <1>2, <1>3, <1>4

\* What stands of a code in the table is one order of that code that says what
\* the rows say.
LEMMA OrderInRead ==
    ASSUME NEW file \in Seq(SheetRow), NEW code \in CodesOf(file)
    PROVE  /\ OrderIn(file, code, Today) \in FileOrder
           /\ OrderIn(file, code, Today).code = code
           /\ OrderIn(file, code, Today).shipments # <<>>
           /\ ReadFrom(OrderIn(file, code, Today), RowsOf(file, code))
<1> DEFINE rows == RowsOf(file, code)
           parts == PartsOf(rows)
           order == OrderIn(file, code, Today)
           n == Len(rows)
           lists == [k \in 1..n |-> parts[k].shipments]
           all == FirstOfNumber(lists)
<1>1. /\ order = Merge(parts)
      /\ DOMAIN rows = 1..n /\ n \in Nat \ {0}
      /\ parts \in [1..n -> FileOrder]
      /\ \A k \in 1..n : /\ parts[k] = OrderOf(rows[k], Today)
                         /\ rows[k] \in SheetRow /\ Accepted(rows[k])
                         /\ parts[k].code = code
                         /\ parts[k].shipments = ShipmentsOf(rows[k])
    BY PartsType
<1> HIDE DEF rows, parts, order, n
<1>2. /\ order.code = parts[1].code /\ order.place = parts[1].place /\ order.shipments = all
      /\ order.due = EarliestOf(parts, "due") /\ order.leave = EarliestOf(parts, "leave")
    BY <1>1 DEF Merge
<1>3. order = [code |-> order.code, place |-> order.place, shipments |-> order.shipments,
               due |-> order.due, leave |-> order.leave]
    BY <1>1 DEF Merge
<1>4. /\ lists \in [1..n -> Seq(Shipment)]
      /\ \A k \in 1..n : lists[k] = ShipmentsOf(rows[k])
    BY <1>1 DEF FileOrder
<1> HIDE DEF lists, all
<1>5. /\ all \in Seq(Shipment)
      /\ \A k \in DOMAIN all : \E p \in Firsts(lists) : all[k] = At(lists, p)
      /\ \A p \in PlacesIn(lists) : \E k \in DOMAIN all : all[k].number = At(lists, p).number
      /\ \A j, k \in DOMAIN all : all[j].number = all[k].number => j = k
    BY <1>1, <1>4, EachNumberOnce DEF all
<1>6. /\ \A p \in PlacesIn(lists) : p = <<p[1], p[2]>> /\ p[1] \in 1..n /\ p[2] \in DOMAIN lists[p[1]]
      /\ \A i \in 1..n : \A k \in DOMAIN lists[i] : <<i, k>> \in PlacesIn(lists)
    BY <1>1, <1>4, PlacesFinite
<1>7. /\ EarliestOf(parts, "due") \in Int /\ EarliestOf(parts, "leave") \in Int
      /\ \A k \in 1..n : /\ EarliestOf(parts, "due") <= parts[k].due
                         /\ EarliestOf(parts, "leave") <= parts[k].leave
      /\ \E k \in 1..n : EarliestOf(parts, "due") = parts[k].due
      /\ \E k \in 1..n : EarliestOf(parts, "leave") = parts[k].leave
    BY <1>1, EarliestIsLeast
<1>8. 1 \in 1..n
    BY <1>1
<1>9. order \in FileOrder /\ order.code = code
    <2>1. order.code = code /\ order.code \in Codes /\ order.place \in Places
        BY <1>1, <1>2, <1>8 DEF FileOrder
    <2> QED BY <1>2, <1>3, <1>5, <1>7, <2>1 DEF FileOrder
\* The numbers of the order are those of its rows.
<1>10. \A k \in 1..n : \A m \in DOMAIN lists[k] : At(lists, <<k, m>>) = ShipmentsOf(rows[k])[m]
    BY <1>4 DEF At
<1> DEFINE numbers == {s.number : s \in ToSet(all)}
<1>11. \A x : x \in numbers <=> \E k \in DOMAIN all : x = all[k].number
    BY DEF ToSet
<1>12. \A k \in 1..n : \A x : x \in Numbers(rows[k]) <=> \E m \in DOMAIN lists[k] : x = At(lists, <<k, m>>).number
    BY <1>4 DEF Numbers, ToSet, At
<1> HIDE DEF numbers
<1>13. numbers = UNION {Numbers(rows[k]) : k \in 1..n}
    <2>1. ASSUME NEW x \in numbers PROVE \E k \in 1..n : x \in Numbers(rows[k])
        <3>1. PICK k \in DOMAIN all : x = all[k].number
            BY <1>11, <2>1
        <3>2. PICK p \in Firsts(lists) : all[k] = At(lists, p)
            BY <1>5
        <3>3. p = <<p[1], p[2]>> /\ p[1] \in 1..n /\ p[2] \in DOMAIN lists[p[1]]
            BY <1>6 DEF Firsts
        <3>4. x = At(lists, <<p[1], p[2]>>).number
            BY <3>1, <3>2, <3>3
        <3> QED BY <1>12, <3>3, <3>4
    <2>2. ASSUME NEW k \in 1..n, NEW x \in Numbers(rows[k]) PROVE x \in numbers
        <3>1. PICK m \in DOMAIN lists[k] : x = At(lists, <<k, m>>).number
            BY <1>12
        <3> QED BY <1>5, <1>6, <1>11, <3>1
    <2> QED BY <2>1, <2>2
<1>14. DOMAIN all = 1..Len(all) /\ Len(all) \in Nat
    BY <1>5, LenProperties
<1>15. IsFiniteSet(numbers) /\ Cardinality(numbers) = Len(all)
    <2> DEFINE f == [k \in 1..Len(all) |-> all[k].number]
    <2>1. f \in Bijection(1..Len(all), numbers)
        <3>1. \A k \in 1..Len(all) : all[k].number \in numbers
            BY <1>11, <1>14
        <3>2. \A x \in numbers : \E k \in 1..Len(all) : f[k] = x
            BY <1>11, <1>14
        <3>3. \A j, k \in 1..Len(all) : f[j] = f[k] => j = k
            BY <1>5, <1>14
        <3>4. f \in [1..Len(all) -> numbers] /\ DOMAIN f = 1..Len(all)
            BY <3>1
        <3> HIDE DEF f
        <3>5. f \in Injection(1..Len(all), numbers)
            BY <3>3, <3>4 DEF Injection, IsInjective
        <3>6. f \in Surjection(1..Len(all), numbers)
            BY <3>2, <3>4 DEF Surjection
        <3> QED BY <3>5, <3>6 DEF Bijection
    <2>2. IsFiniteSet(1..Len(all)) /\ Cardinality(1..Len(all)) = Len(all)
        BY <1>14, CountTo
    <2> HIDE DEF f
    <2> QED BY <1>14, <2>1, <2>2, FS_Bijection DEF ExistsBijection
<1>16. \A k \in 1..n : DOMAIN lists[k] = 1..Len(ShipmentsOf(rows[k])) /\ Len(ShipmentsOf(rows[k])) \in Nat \ {0}
    BY <1>1, <1>4, ShipmentsType
<1>17. Len(all) > 0
    <2>1. 1 \in DOMAIN lists[1]
        BY <1>8, <1>16
    <2>2. \E k \in DOMAIN all : TRUE
        BY <1>5, <1>6, <1>8, <2>1
    <2> QED BY <1>14, <2>2
<1>18. ASSUME NEW k \in 1..n, NoneTwice(rows[k]) PROVE Len(all) >= Len(rows[k].refs)
    <2> DEFINE row == rows[k]
               m == Len(row.refs)
               g == [i \in 1..m |-> Number(row, i)]
    <2>1. row \in SheetRow /\ Accepted(row)
        BY <1>1
    <2>2. m \in Nat
        BY <2>1, AcceptedCells
    <2> HIDE DEF row, m
    <2>3. CASE m > 1
        <3>1. DOMAIN lists[k] = 1..m
            BY <1>16, <2>1, <2>3, ShipmentsType DEF row, m
        <3>2. \A i \in 1..m : At(lists, <<k, i>>).number = Number(row, i)
            BY <1>10, <2>1, <2>3, <3>1, ShipmentsType DEF row, m
        <3>3. \A i \in 1..m : Number(row, i) \in Numbers(rows[k])
            BY <1>12, <3>1, <3>2
        <3>4. \A i \in 1..m : Number(row, i) \in numbers
            BY <1>13, <3>3
        <3>5. \A i, j \in 1..m : Number(row, i) = Number(row, j) => i = j
            BY <1>18, <2>1, NumbersDiffer DEF row, m
        <3>6. g \in Injection(1..m, numbers)
            BY <3>4, <3>5 DEF Injection, IsInjective
        <3> HIDE DEF g
        <3>7. Cardinality(1..m) <= Cardinality(numbers)
            BY <1>15, <3>6, FS_Injection
        <3>8. Cardinality(1..m) = m
            BY <2>2, <2>3, FS_Interval
        <3> QED BY <1>14, <1>15, <2>2, <3>7, <3>8 DEF m, row
    <2>4. CASE ~ (m > 1)
        BY <1>14, <1>17, <2>2, <2>4 DEF m, row
    <2> QED BY <2>3, <2>4
<1>19. ASSUME NEW s \in ToSet(all), NEW k \in 1..n,
              s.number \in Numbers(rows[k]), \A j \in 1..(k - 1) : s.number \notin Numbers(rows[j])
       PROVE  s \in ToSet(ShipmentsOf(rows[k]))
    <2>1. PICK x \in DOMAIN all : s = all[x]
        BY <1>19 DEF ToSet
    <2>2. PICK p \in Firsts(lists) : s = At(lists, p)
        BY <1>5, <2>1
    <2>3. p \in PlacesIn(lists) /\ p = <<p[1], p[2]>> /\ p[1] \in 1..n /\ p[2] \in DOMAIN lists[p[1]]
        BY <1>6 DEF Firsts
    <2>4. PICK m \in DOMAIN lists[k] : s.number = At(lists, <<k, m>>).number
        BY <1>12, <1>19
    <2>5. <<k, m>> \in PlacesIn(lists)
        BY <1>6
    <2>6. <<<<k, m>>, p>> \notin ByList(PlacesIn(lists))
        BY <2>2, <2>4, <2>5 DEF Firsts
    <2>7. ~ (k < p[1])
        BY <2>3, <2>5, <2>6 DEF ByList
    <2>8. s.number \in Numbers(rows[p[1]])
        <3>1. s.number = At(lists, <<p[1], p[2]>>).number
            BY <2>2, <2>3
        <3> QED BY <1>12, <2>3, <3>1
    <2>9. ~ (p[1] < k)
        <3> SUFFICES ASSUME p[1] < k PROVE FALSE
            OBVIOUS
        <3>1. p[1] \in 1..(k - 1)
            BY <2>3
        <3> QED BY <1>19, <2>8, <3>1
    <2>10. p[1] = k
        BY <1>1, <2>3, <2>7, <2>9
    <2>11. s = ShipmentsOf(rows[k])[p[2]]
        BY <1>10, <2>2, <2>3, <2>10
    <2>12. p[2] \in DOMAIN ShipmentsOf(rows[k])
        BY <1>4, <2>3, <2>10
    <2> QED BY <2>11, <2>12 DEF ToSet
<1>20. order.shipments # <<>>
    BY <1>2, <1>17
<1>21. numbers = {s.number : s \in ToSet(order.shipments)}
    BY <1>2 DEF numbers
<1>22. ReadFrom(order, rows)
    <2>1. {s.number : s \in ToSet(order.shipments)} = UNION {Numbers(rows[k]) : k \in DOMAIN rows}
        BY <1>1, <1>13, <1>21
    <2>2. Cardinality({s.number : s \in ToSet(order.shipments)}) = Len(order.shipments)
        BY <1>2, <1>15, <1>21
    <2>3. \A k \in DOMAIN rows : NoneTwice(rows[k]) => Len(order.shipments) >= Len(rows[k].refs)
        BY <1>1, <1>2, <1>18
    <2>4. \A s \in ToSet(order.shipments), k \in DOMAIN rows :
              (s.number \in Numbers(rows[k]) /\ \A j \in 1..(k - 1) : s.number \notin Numbers(rows[j]))
                  => s \in ToSet(ShipmentsOf(rows[k]))
        BY <1>1, <1>2, <1>19
    <2>5. /\ \A k \in DOMAIN rows : /\ order.due <= OrderOf(rows[k], Today).due
                                    /\ order.leave <= OrderOf(rows[k], Today).leave
          /\ \E k \in DOMAIN rows : order.due = OrderOf(rows[k], Today).due
          /\ \E k \in DOMAIN rows : order.leave = OrderOf(rows[k], Today).leave
        BY <1>1, <1>2, <1>7
    <2> QED BY <2>1, <2>2, <2>3, <2>4, <2>5 DEF ReadFrom
<1> QED BY <1>9, <1>20, <1>22 DEF order, rows

-----------------------------------------------------------------------------
(* Import: what is inserted. *)

LEMMA InFileOrderOnto ==
    ASSUME NEW file \in Seq(SheetRow), NEW codes \in SUBSET CodesOf(file)
    PROVE  /\ InFileOrder(file, codes) \in [1..Cardinality(codes) -> codes]
           /\ IsInjective(InFileOrder(file, codes))
           /\ Cardinality(codes) \in Nat
<1> DEFINE first(c) == Min(RowsWith(file, c))
           R == {p \in codes \X codes : first(p[1]) < first(p[2])}
<1>1. IsFiniteSet(codes)
    BY CodesType, FS_Subset
<1>2. \A c \in codes : first(c) \in Int /\ file[first(c)].refs = c
    <2> SUFFICES ASSUME NEW c \in codes PROVE first(c) \in Int /\ file[first(c)].refs = c
        OBVIOUS
    <2>1. /\ IsFiniteSet(RowsWith(file, c)) /\ RowsWith(file, c) \in SUBSET Int
          /\ \A k \in RowsWith(file, c) : file[k].refs = c
          /\ RowsWith(file, c) # {}
        BY RowsWithType
    <2>2. first(c) \in RowsWith(file, c)
        BY <2>1, MinIsLeast
    <2> QED BY <2>1, <2>2
<1>3. \A c, d \in codes : <<c, d>> \in R <=> first(c) < first(d)
    OBVIOUS
<1>4. InFileOrder(file, codes) = InOrder(codes, R)
    BY DEF InFileOrder
<1> HIDE DEF first, R
<1>5. \A c, d \in codes : c # d => first(c) # first(d)
    BY <1>2
<1>6. IsStrictOrder(R, codes)
    BY <1>2, <1>3, <1>5 DEF IsStrictOrder
<1> QED BY <1>1, <1>4, <1>6, InOrderOnto

LEMMA CoordsType ==
    ASSUME NEW p \in Places
    PROVE  /\ CoordsOf(p) \in Dictionary \cup {NoPlace}
           /\ CoordsOf(p) = NoPlace => InCity(p) = {}
           /\ CoordsOf(p) # NoPlace => \/ CoordsOf(p) = p
                                       \/ p \notin Dictionary /\ CityOf[CoordsOf(p)] = CityOf[p]
<1>1. Dictionary \subseteq Int /\ NoPlace \notin Dictionary
    BY PlacesAssumption DEF NoPlace
<1>2. CASE p \in Dictionary
    BY <1>1, <1>2 DEF CoordsOf
<1>3. CASE p \notin Dictionary /\ InCity(p) # {}
    <2>1. InCity(p) \subseteq Dictionary
        BY DEF InCity
    <2>2. IsFiniteSet(InCity(p)) /\ InCity(p) \in SUBSET Int
        BY <1>1, <2>1, DictionaryAssumption, FS_Subset
    <2>3. Min(InCity(p)) \in InCity(p)
        BY <1>3, <2>2, MinIsLeast
    <2> QED BY <1>1, <1>3, <2>3 DEF CoordsOf, InCity
<1>4. CASE p \notin Dictionary /\ InCity(p) = {}
    BY <1>4 DEF CoordsOf
<1> QED BY <1>2, <1>3, <1>4

\* The row that an import inserts for a code.
LEMMA NewRowRight ==
    ASSUME NEW file \in Seq(SheetRow), NEW c \in CodesOf(file),
           NEW r, r = NewRow(OrderIn(file, c, Today))
    PROVE  /\ r \in OrderRow /\ r # NoOrder
           /\ r.code = c /\ r.shipments # <<>>
           /\ ReadFrom(r, RowsOf(file, c))
           /\ NearestOrNone(r)
           /\ r.coords = NoPlace => InCity(r.place) = {}
<1> DEFINE order == OrderIn(file, c, Today)
<1>1. order \in FileOrder /\ order.code = c /\ order.shipments # <<>> /\ ReadFrom(order, RowsOf(file, c))
    BY OrderInRead
<1> HIDE DEF order
<1>2. r = NewRow(order)
    BY DEF order
<1>3. /\ r.code = order.code /\ r.place = order.place /\ r.shipments = order.shipments
      /\ r.due = order.due /\ r.leave = order.leave /\ r.status = "new"
      /\ r.coords = CoordsOf(order.place)
    BY <1>2 DEF NewRow
<1>4. order.place \in Places
    BY <1>1 DEF FileOrder
<1>5. /\ CoordsOf(order.place) \in Dictionary \cup {NoPlace}
      /\ CoordsOf(order.place) = NoPlace => InCity(order.place) = {}
      /\ CoordsOf(order.place) # NoPlace =>
             \/ CoordsOf(order.place) = order.place
             \/ order.place \notin Dictionary /\ CityOf[CoordsOf(order.place)] = CityOf[order.place]
    BY <1>4, CoordsType
<1>6. r \in OrderRow
    BY <1>1, <1>2, <1>5 DEF NewRow, FileOrder, OrderRow
<1>7. r # NoOrder
    BY <1>3 DEF NoOrder
<1>8. ReadFrom(r, RowsOf(file, c))
    BY <1>1, <1>3 DEF ReadFrom
<1>9. NearestOrNone(r) /\ (r.coords = NoPlace => InCity(r.place) = {})
    BY <1>3, <1>5 DEF NearestOrNone
<1> QED BY <1>1, <1>3, <1>6, <1>7, <1>8, <1>9

\* The ids of the orders are below the next one.
LEMMA LastIdIsLast ==
    LastId \in Nat /\ \A o \in Stored : o <= LastId
<1>1. IsFiniteSet(Orders) /\ Stored \subseteq Orders /\ Orders \subseteq Nat
    BY BoundAssumption, CountTo DEF Orders, Stored
<1>2. IsFiniteSet(Stored)
    BY <1>1, FS_Subset
<1>3. IsFiniteSet(Stored \cup {0})
    BY <1>2, FS_AddElement
<1>4. Stored \cup {0} \in SUBSET Int /\ Stored \cup {0} # {} /\ Stored \cup {0} \subseteq Nat
    BY <1>1
<1>5. LastId \in Stored \cup {0} /\ \A o \in Stored \cup {0} : o <= LastId
    BY <1>3, <1>4, MaxIsGreatest DEF LastId
<1> QED BY <1>4, <1>5

\* An import adds orders of the codes it found new, one for each, where there
\* was none, and leaves the others.
Adds(old, new, file, fresh) ==
    /\ DOMAIN new = Orders
    /\ \E ids \in SUBSET Orders :
          /\ \A o \in Orders \ ids : new[o] = old[o]
          /\ \A o \in ids : /\ old[o] = NoOrder
                            /\ \E c \in fresh : new[o] = NewRow(OrderIn(file, c, Today))
          /\ \A o, p \in ids : new[o].code = new[p].code => o = p

LEMMA StoredIsAdded ==
    ASSUME ImportTypeOK, NEW i \in Importers, StoreOrders(i)
    PROVE  /\ importer[i].file \in Seq(SheetRow)
           /\ importer[i].fresh \subseteq CodesOf(importer[i].file)
           /\ Adds(orders, orders', importer[i].file, importer[i].fresh)
<1> DEFINE file == importer[i].file
           fresh == importer[i].fresh
           order == InFileOrder(file, fresh)
           n == Cardinality(fresh)
           ids == {o \in Orders : o - LastId \in DOMAIN order}
<1>1. file \in Seq(SheetRow) /\ fresh \subseteq CodesOf(file)
    BY DEF ImportTypeOK
<1>2. orders' = [o \in Orders |-> IF o - LastId \in DOMAIN order
                                  THEN NewRow(OrderIn(file, order[o - LastId], Today))
                                  ELSE orders[o]]
    BY DEF StoreOrders
<1> HIDE DEF file, fresh
<1>3. order \in [1..n -> fresh] /\ IsInjective(order) /\ n \in Nat
    BY <1>1, InFileOrderOnto
<1>4. LastId \in Nat /\ \A o \in Stored : o <= LastId
    BY LastIdIsLast
<1>5. \A o \in Orders : o \in Nat
    BY DEF Orders
<1> HIDE DEF order, n
<1>6. /\ DOMAIN orders' = Orders
      /\ \A o \in Orders \ ids : orders'[o] = orders[o]
      /\ \A o \in ids : orders'[o] = NewRow(OrderIn(file, order[o - LastId], Today))
    BY <1>2
<1>7. \A o \in ids : o \in Orders /\ o - LastId \in 1..n /\ order[o - LastId] \in fresh
    BY <1>3
<1> HIDE DEF ids
<1>8. ASSUME NEW o \in ids PROVE orders[o] = NoOrder
    <2>1. o \notin Stored
        BY <1>3, <1>4, <1>5, <1>7
    <2> QED BY <1>7, <2>1 DEF Stored
<1>9. ASSUME NEW o \in ids PROVE orders'[o].code = order[o - LastId]
    <2>1. order[o - LastId] \in CodesOf(file)
        BY <1>1, <1>7
    <2> QED BY <1>1, <1>6, <2>1, NewRowRight
<1>10. ASSUME NEW o \in ids, NEW p \in ids, orders'[o].code = orders'[p].code PROVE o = p
    <2>1. order[o - LastId] = order[p - LastId]
        BY <1>9, <1>10
    <2>2. o - LastId = p - LastId
        BY <1>3, <1>7, <2>1 DEF IsInjective
    <2> QED BY <1>4, <1>5, <1>7, <2>2
<1>11. ids \in SUBSET Orders
    BY <1>7
<1>12. \A o \in ids : \E c \in fresh : orders'[o] = NewRow(OrderIn(file, c, Today))
    BY <1>6, <1>7
<1>13. Adds(orders, orders', file, fresh)
    BY <1>6, <1>8, <1>10, <1>11, <1>12 DEF Adds
<1> QED BY <1>1, <1>13 DEF file, fresh

-----------------------------------------------------------------------------
(* Import: the type invariant. *)

OrdersRight(table) ==
    /\ table \in [Orders -> OrderRow \cup {NoOrder}]
    /\ \A o \in Orders : table[o] # NoOrder => table[o].shipments # <<>>

ImportsRight(reads) ==
    /\ reads \in [Importers -> [busy : BOOLEAN, file : Seq(SheetRow), fresh : SUBSET Codes]]
    /\ \A i \in Importers : reads[i].fresh \subseteq CodesOf(reads[i].file)

ShownRight(tabs) ==
    /\ DOMAIN tabs = Tabs
    /\ \A t \in Tabs : DOMAIN tabs[t] \subseteq Orders /\ tabs[t] \in [DOMAIN tabs[t] -> Codes]

OutcomesRight(outcomes) ==
    outcomes \in [Importers -> [accepted : SUBSET Codes, skipped : SUBSET Codes,
                                missing : SUBSET Orders, rejected : Nat]]

LEMMA ImportTypeParts ==
    /\ ImportTypeOK <=> /\ OrdersRight(orders) /\ ImportsRight(importer)
                       /\ OutcomesRight(outcome) /\ ShownRight(shown)
    /\ ImportTypeOK' <=> /\ OrdersRight(orders') /\ ImportsRight(importer')
                        /\ OutcomesRight(outcome') /\ ShownRight(shown')
BY DEF ImportTypeOK, OrdersRight, ImportsRight, OutcomesRight, ShownRight, Stored

LEMMA RowIsNotNone == NoOrder \notin OrderRow
BY DEF NoOrder, OrderRow

LEMMA IdleType ==
    ASSUME ImportsRight(importer), NEW i \in Importers
    PROVE  ImportsRight([importer EXCEPT ![i] = NoImport])
<1>1. NoImport \in [busy : BOOLEAN, file : Seq(SheetRow), fresh : SUBSET Codes]
    BY DEF NoImport
<1>2. NoImport.fresh \subseteq CodesOf(NoImport.file)
    BY DEF NoImport
<1> QED BY <1>1, <1>2 DEF ImportsRight

\* What a tab shows is a row for each order there is.
LEMMA ShowType ==
    ASSUME OrdersRight(orders), ShownRight(shown), NEW t \in Tabs, NEW S \in SUBSET Stored
    PROVE  /\ ShownRight([shown EXCEPT ![t] = [o \in S |-> orders[o].code]])
           /\ ShownRight([shown EXCEPT ![t] = <<>>])
<1>1. \A o \in S : o \in Orders /\ orders[o].code \in Codes
    BY DEF Stored, OrdersRight, OrderRow
<1>2. [o \in S |-> orders[o].code] \in [S -> Codes] /\ S \subseteq Orders
    BY <1>1
<1>3. <<>> = [o \in {} |-> orders[o].code]
    OBVIOUS
<1>4. ASSUME NEW U \in SUBSET Orders, NEW f \in [U -> Codes]
      PROVE  ShownRight([shown EXCEPT ![t] = f])
    BY DEF ShownRight
<1>5. [o \in {} |-> orders[o].code] \in [{} -> Codes]
    OBVIOUS
<1>6. ShownRight([shown EXCEPT ![t] = <<>>])
    BY <1>3, <1>4, <1>5
<1>7. ShownRight([shown EXCEPT ![t] = [o \in S |-> orders[o].code]])
    BY <1>2, <1>4
<1> QED BY <1>6, <1>7

LEMMA ReadFileType ==
    ASSUME ImportTypeOK, NEW i \in Importers, NEW file \in Files, ReadFile(i, file)
    PROVE  ImportTypeOK'
<1>1. /\ importer' = [importer EXCEPT ![i] =
                         [busy |-> TRUE, file |-> file, fresh |-> CodesOf(file) \ ExistingCodes]]
      /\ UNCHANGED <<orders, outcome, shown>>
    BY DEF ReadFile
<1>2. file \in Seq(SheetRow)
    BY FilesAssumption
<1>3. CodesOf(file) \ ExistingCodes \in SUBSET Codes /\ CodesOf(file) \ ExistingCodes \subseteq CodesOf(file)
    BY <1>2, CodesType
<1> DEFINE new == [busy |-> TRUE, file |-> file, fresh |-> CodesOf(file) \ ExistingCodes]
<1>4. /\ new \in [busy : BOOLEAN, file : Seq(SheetRow), fresh : SUBSET Codes]
      /\ new.fresh \subseteq CodesOf(new.file)
    BY <1>2, <1>3
<1> HIDE DEF new
<1>5. ImportsRight(importer')
    BY <1>1, <1>4, ImportTypeParts DEF ImportsRight, new
<1> QED BY <1>1, <1>5, ImportTypeParts

LEMMA StoreOrdersType ==
    ASSUME ImportTypeOK, NEW i \in Importers, StoreOrders(i)
    PROVE  ImportTypeOK'
<1> DEFINE file == importer[i].file
           fresh == importer[i].fresh
<1>1. file \in Seq(SheetRow) /\ fresh \subseteq CodesOf(file) /\ Adds(orders, orders', file, fresh)
    BY StoredIsAdded
<1>2. OrdersRight(orders) /\ ImportsRight(importer) /\ OutcomesRight(outcome) /\ ShownRight(shown)
    BY ImportTypeParts
<1> HIDE DEF file, fresh
<1>3. OrdersRight(orders')
    <2>1. PICK ids \in SUBSET Orders :
              /\ \A o \in Orders \ ids : orders'[o] = orders[o]
              /\ \A o \in ids : \E c \in fresh : orders'[o] = NewRow(OrderIn(file, c, Today))
        BY <1>1 DEF Adds
    <2>2. ASSUME NEW o \in ids PROVE orders'[o] \in OrderRow /\ orders'[o].shipments # <<>>
        <3>1. PICK c \in fresh : orders'[o] = NewRow(OrderIn(file, c, Today))
            BY <2>1
        <3> QED BY <1>1, <3>1, NewRowRight
    <2>3. \A o \in Orders : orders'[o] \in OrderRow \cup {NoOrder} /\ (orders'[o] # NoOrder => orders'[o].shipments # <<>>)
        BY <1>2, <2>1, <2>2 DEF OrdersRight
    <2>4. orders' = [o \in Orders |-> orders'[o]]
        BY DEF StoreOrders
    <2> QED BY <2>3, <2>4 DEF OrdersRight
<1>4. ImportsRight(importer')
    BY <1>2, IdleType DEF StoreOrders
<1>5. OutcomesRight(outcome')
    <2> DEFINE new == [accepted |-> fresh,
                       skipped |-> CodesOf(file) \ fresh,
                       missing |-> {o \in Stored : /\ orders[o].status # "delivered"
                                                   /\ orders[o].code \notin CodesOf(file)},
                       rejected |-> Rejected(file)]
    <2>1. outcome' = [outcome EXCEPT ![i] = new]
        BY DEF StoreOrders, file, fresh
    <2>2. CodesOf(file) \subseteq Codes /\ Rejected(file) \in Nat
        BY <1>1, CodesType
    <2>3. new \in [accepted : SUBSET Codes, skipped : SUBSET Codes, missing : SUBSET Orders, rejected : Nat]
        BY <1>1, <2>2 DEF Stored
    <2> HIDE DEF new
    <2> QED BY <1>2, <2>1, <2>3 DEF OutcomesRight
<1>6. shown' = shown
    BY DEF StoreOrders
<1> QED BY <1>2, <1>3, <1>4, <1>5, <1>6, ImportTypeParts

LEMMA ApplyCoordsType ==
    ASSUME ImportTypeOK, ApplyCoords
    PROVE  ImportTypeOK'
<1>1. OrdersRight(orders)
    BY ImportTypeParts
<1>2. ASSUME NEW o \in Stored
      PROVE  /\ [orders[o] EXCEPT !.coords = CoordsAfter(o)] \in OrderRow
             /\ [orders[o] EXCEPT !.coords = CoordsAfter(o)].shipments # <<>>
    <2>1. orders[o] \in OrderRow /\ orders[o].shipments # <<>>
        BY <1>1 DEF OrdersRight, Stored
    <2>2. orders[o].place \in Places /\ orders[o].coords \in Dictionary \cup {NoPlace}
        BY <2>1 DEF OrderRow
    <2>3. CoordsAfter(o) \in Dictionary \cup {NoPlace}
        BY <2>2, CoordsType DEF CoordsAfter
    <2> QED BY <2>1, <2>3 DEF OrderRow
<1>3. orders' = [o \in Orders |-> IF o \in Stored THEN [orders[o] EXCEPT !.coords = CoordsAfter(o)] ELSE NoOrder]
    BY DEF ApplyCoords
<1>4. OrdersRight(orders')
    BY <1>2, <1>3 DEF OrdersRight
<1> QED BY <1>4, ImportTypeParts DEF ApplyCoords

LEMMA ImportInitType == ImportInit => ImportTypeOK
<1> SUFFICES ASSUME ImportInit PROVE ImportTypeOK
    OBVIOUS
<1>1. PICK e \in Earlier \cup {NoOrder} : orders = [o \in Orders |-> IF o = 1 THEN e ELSE NoOrder]
    BY DEF ImportInit
<1>2. e # NoOrder => e \in OrderRow /\ e.shipments # <<>>
    BY EarlierAssumption
<1>3. OrdersRight(orders)
    BY <1>1, <1>2 DEF OrdersRight
<1>4. NoImport \in [busy : BOOLEAN, file : Seq(SheetRow), fresh : SUBSET Codes] /\ NoImport.fresh = {}
    BY DEF NoImport
<1>5. ImportsRight(importer)
    BY <1>4 DEF ImportsRight, ImportInit
<1>6. OutcomesRight(outcome)
    BY DEF OutcomesRight, ImportInit, NoOutcome
<1>7. ShownRight(shown)
    BY DEF ShownRight, ImportInit
<1> QED BY <1>3, <1>5, <1>6, <1>7, ImportTypeParts

LEMMA ImportNextType == ImportTypeOK /\ [ImportNext]_importVars => ImportTypeOK'
<1> SUFFICES ASSUME ImportTypeOK, [ImportNext]_importVars PROVE ImportTypeOK'
    OBVIOUS
<1>1. OrdersRight(orders) /\ ImportsRight(importer) /\ OutcomesRight(outcome) /\ ShownRight(shown)
    BY ImportTypeParts
<1>2. ASSUME NEW i \in Importers, NEW file \in Files, ReadFile(i, file) PROVE ImportTypeOK'
    BY <1>2, ReadFileType
<1>3. ASSUME NEW i \in Importers, StoreOrders(i) PROVE ImportTypeOK'
    BY <1>3, StoreOrdersType
<1>4. ASSUME NEW i \in Importers, FailImport(i) PROVE ImportTypeOK'
    BY <1>1, <1>4, IdleType, ImportTypeParts DEF FailImport
<1>5. ASSUME NEW t \in Tabs, ShowOrders(t) PROVE ImportTypeOK'
    BY <1>1, <1>5, ShowType, ImportTypeParts DEF ShowOrders
<1>6. ASSUME NEW t \in Tabs, NEW S \in SUBSET DOMAIN shown[t], DeleteSelected(t, S) PROVE ImportTypeOK'
    <2>1. ShownRight(shown')
        BY <1>1, <1>6, ShowType DEF DeleteSelected
    <2>2. OrdersRight(orders')
        BY <1>1, <1>6 DEF OrdersRight, DeleteSelected
    <2> QED BY <1>1, <1>6, <2>1, <2>2, ImportTypeParts DEF DeleteSelected
<1>7. ASSUME NEW t \in Tabs, DeleteAll(t) PROVE ImportTypeOK'
    <2>1. ShownRight(shown')
        BY <1>1, <1>7, ShowType DEF DeleteAll
    <2>2. OrdersRight(orders')
        BY <1>7 DEF OrdersRight, DeleteAll
    <2> QED BY <1>1, <1>7, <2>1, <2>2, ImportTypeParts DEF DeleteAll
<1>8. ASSUME NEW o \in Orders, Deliver(o) PROVE ImportTypeOK'
    <2>1. orders[o] \in OrderRow /\ orders[o].shipments # <<>>
        BY <1>1, <1>8 DEF OrdersRight, Deliver
    <2>2. [orders[o] EXCEPT !.status = "delivered"] \in OrderRow /\ [orders[o] EXCEPT !.status = "delivered"].shipments # <<>>
        BY <2>1 DEF OrderRow
    <2>3. orders' = [orders EXCEPT ![o] = [orders[o] EXCEPT !.status = "delivered"]]
        BY <1>8 DEF Deliver
    <2>4. OrdersRight(orders')
        BY <1>1, <2>2, <2>3 DEF OrdersRight
    <2> QED BY <1>1, <1>8, <2>4, ImportTypeParts DEF Deliver
<1>9. CASE ApplyCoords
    BY <1>9, ApplyCoordsType
<1>10. CASE UNCHANGED importVars
    BY <1>1, <1>10, ImportTypeParts DEF importVars
<1> QED BY <1>2, <1>3, <1>4, <1>5, <1>6, <1>7, <1>8, <1>9, <1>10 DEF ImportNext

\* The type invariant of the orders, of the imports under way and of the tabs,
\* for all files and any number of importers and tabs (ImportTypeOK).
THEOREM ImportTypeCorrect == ImportSpec => []ImportTypeOK
BY ImportInitType, ImportNextType, PTL DEF ImportSpec

-----------------------------------------------------------------------------
(* Import: orders say what their rows said. *)

\* Every order that an import adds has the shipments, weights and dates of the
\* rows of its code (FileKept), for any file: whatever the cells list, in any
\* order, and however the rows of a code lie among the others.
THEOREM FileAlwaysKept == ImportSpec => FileKept
<1>1. ASSUME ImportTypeOK, NEW i \in Importers, StoreOrders(i),
             NEW o \in Orders, orders[o] = NoOrder, orders'[o] # NoOrder
      PROVE  ReadFrom(orders'[o], RowsOf(importer[i].file, orders'[o].code))
    <2> DEFINE file == importer[i].file
               fresh == importer[i].fresh
    <2>1. file \in Seq(SheetRow) /\ fresh \subseteq CodesOf(file) /\ Adds(orders, orders', file, fresh)
        BY <1>1, StoredIsAdded
    <2> HIDE DEF file, fresh
    <2>2. PICK ids \in SUBSET Orders :
              /\ \A p \in Orders \ ids : orders'[p] = orders[p]
              /\ \A p \in ids : \E c \in fresh : orders'[p] = NewRow(OrderIn(file, c, Today))
        BY <2>1 DEF Adds
    <2>3. o \in ids
        BY <1>1, <2>2
    <2>4. PICK c \in fresh : orders'[o] = NewRow(OrderIn(file, c, Today))
        BY <2>2, <2>3
    <2>5. orders'[o].code = c /\ ReadFrom(orders'[o], RowsOf(file, c))
        BY <2>1, <2>4, NewRowRight
    <2> QED BY <2>5 DEF file
<1>2. ImportTypeOK /\ [ImportNext]_importVars =>
          [\A i \in Importers : StoreOrders(i) =>
              \A o \in Orders : (orders[o] = NoOrder /\ orders'[o] # NoOrder) =>
                  ReadFrom(orders'[o], RowsOf(importer[i].file, orders'[o].code))]_importVars
    BY <1>1
<1> QED BY <1>2, ImportTypeCorrect, PTL DEF ImportSpec, FileKept

-----------------------------------------------------------------------------
(* Import: coordinates. *)

Near(row) ==
    /\ NearestOrNone(row)
    /\ row.coords = NoPlace => (InCity(row.place) = {} \/ \E e \in Earlier : e.code = row.code)

AllNear(table) == \A o \in Orders : table[o] # NoOrder => Near(table[o])

LEMMA NearParts ==
    /\ CoordsNearest <=> AllNear(orders)
    /\ CoordsNearest' <=> AllNear(orders')
BY DEF CoordsNearest, AllNear, Near, Stored

LEMMA InitNear == ImportInit => CoordsNearest
<1> SUFFICES ASSUME ImportInit PROVE AllNear(orders)
    BY NearParts
<1>1. PICK e \in Earlier \cup {NoOrder} : orders = [o \in Orders |-> IF o = 1 THEN e ELSE NoOrder]
    BY DEF ImportInit
<1>2. e # NoOrder => e \in Earlier /\ NearestOrNone(e)
    BY EarlierAssumption
<1> QED BY <1>1, <1>2 DEF AllNear, Near

LEMMA NextNear == ImportTypeOK /\ CoordsNearest /\ [ImportNext]_importVars => CoordsNearest'
<1> SUFFICES ASSUME ImportTypeOK, AllNear(orders), [ImportNext]_importVars PROVE AllNear(orders')
    BY NearParts
<1>1. OrdersRight(orders)
    BY ImportTypeParts
<1>2. ASSUME NEW i \in Importers, StoreOrders(i) PROVE AllNear(orders')
    <2> DEFINE file == importer[i].file
               fresh == importer[i].fresh
    <2>1. file \in Seq(SheetRow) /\ fresh \subseteq CodesOf(file) /\ Adds(orders, orders', file, fresh)
        BY <1>2, StoredIsAdded
    <2> HIDE DEF file, fresh
    <2>2. PICK ids \in SUBSET Orders :
              /\ \A o \in Orders \ ids : orders'[o] = orders[o]
              /\ \A o \in ids : \E c \in fresh : orders'[o] = NewRow(OrderIn(file, c, Today))
        BY <2>1 DEF Adds
    <2>3. ASSUME NEW o \in ids PROVE Near(orders'[o])
        <3>1. PICK c \in fresh : orders'[o] = NewRow(OrderIn(file, c, Today))
            BY <2>2
        <3> QED BY <2>1, <3>1, NewRowRight DEF Near
    <2> QED BY <2>2, <2>3 DEF AllNear
<1>3. ASSUME NEW o \in Orders, Deliver(o) PROVE AllNear(orders')
    <2>1. orders[o] \in OrderRow /\ Near(orders[o])
        BY <1>1, <1>3 DEF OrdersRight, AllNear, Deliver
    <2> DEFINE new == [orders[o] EXCEPT !.status = "delivered"]
    <2>2. new.coords = orders[o].coords /\ new.place = orders[o].place /\ new.code = orders[o].code
        BY <2>1 DEF OrderRow
    <2>3. orders' = [orders EXCEPT ![o] = new]
        BY <1>3 DEF Deliver
    <2> HIDE DEF new
    <2>4. Near(new)
        BY <2>1, <2>2 DEF Near, NearestOrNone
    <2> QED BY <1>1, <2>3, <2>4 DEF AllNear, OrdersRight
<1>4. CASE ApplyCoords
    <2>1. ASSUME NEW o \in Stored PROVE Near([orders[o] EXCEPT !.coords = CoordsAfter(o)])
        <3>1. orders[o] \in OrderRow /\ Near(orders[o])
            BY <1>1 DEF OrdersRight, AllNear, Stored
        <3> DEFINE new == [orders[o] EXCEPT !.coords = CoordsAfter(o)]
        <3>2. new.coords = CoordsAfter(o) /\ new.place = orders[o].place /\ new.code = orders[o].code
            BY <3>1 DEF OrderRow
        <3>3. orders[o].place \in Places
            BY <3>1 DEF OrderRow
        <3> HIDE DEF new
        <3>4. ASSUME orders[o].coords # NoPlace PROVE Near(new)
            BY <3>1, <3>2, <3>4 DEF Near, NearestOrNone, CoordsAfter
        <3>5. ASSUME orders[o].coords = NoPlace PROVE Near(new)
            <4>1. new.coords = CoordsOf(orders[o].place)
                BY <3>2, <3>5 DEF CoordsAfter
            <4> DEFINE p == orders[o].place
            <4>2. p \in Places /\ new.place = p /\ new.coords = CoordsOf(p)
                BY <3>2, <3>3, <4>1
            <4> HIDE DEF p
            <4>3. /\ CoordsOf(p) = NoPlace => InCity(p) = {}
                  /\ CoordsOf(p) # NoPlace => \/ CoordsOf(p) = p
                                              \/ p \notin Dictionary /\ CityOf[CoordsOf(p)] = CityOf[p]
                BY <4>2, CoordsType
            <4>4. NearestOrNone(new)
                BY <4>2, <4>3 DEF NearestOrNone
            <4>5. new.coords = NoPlace => InCity(new.place) = {}
                BY <4>2, <4>3
            <4> QED BY <4>4, <4>5 DEF Near
        <3>6. Near(new)
            BY <3>4, <3>5
        <3> QED BY <3>6 DEF new
    <2>2. \A o \in Orders : orders'[o] = IF o \in Stored THEN [orders[o] EXCEPT !.coords = CoordsAfter(o)] ELSE NoOrder
        BY <1>4 DEF ApplyCoords
    <2> QED BY <2>1, <2>2 DEF AllNear
<1>5. ASSUME NEW t \in Tabs, NEW S \in SUBSET DOMAIN shown[t], DeleteSelected(t, S) PROVE AllNear(orders')
    BY <1>5 DEF AllNear, DeleteSelected
<1>6. ASSUME NEW t \in Tabs, DeleteAll(t) PROVE AllNear(orders')
    BY <1>6 DEF AllNear, DeleteAll
<1>7. CASE UNCHANGED orders
    BY <1>7 DEF AllNear
<1> QED BY <1>2, <1>3, <1>4, <1>5, <1>6, <1>7
        DEF ImportNext, ReadFile, FailImport, ShowOrders, importVars

\* The coordinates of an order are those of its place or of the dictionary's
\* place in its city, whichever job gave them, and none are missing but those of
\* orders from before (CoordsNearest).
THEOREM CoordsAlwaysNearest == ImportSpec => []CoordsNearest
BY InitNear, NextNear, ImportTypeCorrect, PTL DEF ImportSpec

-----------------------------------------------------------------------------
(* Import: one order of a code. *)

\* Imports do not overlap: one at a time has read the codes and not yet stored.
OneImporter == \A i, j \in Importers : i = j

OnePerCode(table) ==
    \A o, p \in Orders : (table[o] # NoOrder /\ table[p] # NoOrder /\ table[o].code = table[p].code) => o = p

\* No order has a code that an import found new and has not stored yet.
NoneOf(table, reads) ==
    \A i \in Importers, o \in Orders : table[o] # NoOrder => table[o].code \notin reads[i].fresh

CodesInv == OnePerCode(orders) /\ NoneOf(orders, importer)

LEMMA OnePerCodeIs == OneOrderPerCode <=> OnePerCode(orders)
BY DEF OneOrderPerCode, OnePerCode, Stored

\* Orders that go, or stay with their code, break nothing.
LEMMA FewerCodes ==
    ASSUME NEW old, NEW new, NEW reads,
           \A o \in Orders : new[o] # NoOrder => old[o] # NoOrder /\ new[o].code = old[o].code,
           OnePerCode(old), NoneOf(old, reads)
    PROVE  OnePerCode(new) /\ NoneOf(new, reads)
BY DEF OnePerCode, NoneOf

LEMMA InitCodes == ImportInit => CodesInv
<1> SUFFICES ASSUME ImportInit PROVE CodesInv
    OBVIOUS
<1>1. PICK e \in Earlier \cup {NoOrder} : orders = [o \in Orders |-> IF o = 1 THEN e ELSE NoOrder]
    BY DEF ImportInit
<1>2. \A i \in Importers : importer[i].fresh = {}
    BY DEF ImportInit, NoImport
<1> QED BY <1>1, <1>2 DEF CodesInv, OnePerCode, NoneOf

LEMMA NextCodes ==
    OneImporter => (ImportTypeOK /\ CodesInv /\ [ImportNext]_importVars => CodesInv')
<1> SUFFICES ASSUME OneImporter, ImportTypeOK, CodesInv, [ImportNext]_importVars
             PROVE  OnePerCode(orders') /\ NoneOf(orders', importer')
    BY DEF CodesInv, OnePerCode, NoneOf
<1>1. OrdersRight(orders) /\ ImportsRight(importer)
    BY ImportTypeParts
<1>2. OnePerCode(orders) /\ NoneOf(orders, importer)
    BY DEF CodesInv
<1>3. ASSUME NEW i \in Importers, importer' = [importer EXCEPT ![i] = NoImport]
      PROVE  \A table : NoneOf(table, importer')
    <2>1. \A j \in Importers : j = i
        BY DEF OneImporter
    <2>2. importer'[i].fresh = {}
        BY <1>1, <1>3 DEF ImportsRight, NoImport
    <2> QED BY <2>1, <2>2 DEF NoneOf
<1>4. ASSUME NEW i \in Importers, NEW file \in Files, ReadFile(i, file)
      PROVE  OnePerCode(orders') /\ NoneOf(orders', importer')
    <2>1. \A j \in Importers : j = i
        BY DEF OneImporter
    <2>2. importer'[i].fresh = CodesOf(file) \ ExistingCodes /\ orders' = orders
        BY <1>1, <1>4 DEF ImportsRight, ReadFile
    <2>3. \A o \in Orders : orders[o] # NoOrder => orders[o].code \in ExistingCodes
        BY DEF ExistingCodes, StoredCodes, Stored
    <2> QED BY <1>2, <2>1, <2>2, <2>3 DEF OnePerCode, NoneOf
<1>5. ASSUME NEW i \in Importers, StoreOrders(i)
      PROVE  OnePerCode(orders') /\ NoneOf(orders', importer')
    <2> DEFINE file == importer[i].file
               fresh == importer[i].fresh
    <2>1. file \in Seq(SheetRow) /\ fresh \subseteq CodesOf(file) /\ Adds(orders, orders', file, fresh)
        BY <1>5, StoredIsAdded
    <2>2. \A o \in Orders : orders[o] # NoOrder => orders[o].code \notin fresh
        BY <1>2 DEF NoneOf
    <2> HIDE DEF file, fresh
    <2>3. PICK ids \in SUBSET Orders :
              /\ \A o \in Orders \ ids : orders'[o] = orders[o]
              /\ \A o \in ids : \E c \in fresh : orders'[o] = NewRow(OrderIn(file, c, Today))
              /\ \A o, p \in ids : orders'[o].code = orders'[p].code => o = p
        BY <2>1 DEF Adds
    <2>4. ASSUME NEW o \in ids PROVE orders'[o].code \in fresh
        <3>1. PICK c \in fresh : orders'[o] = NewRow(OrderIn(file, c, Today))
            BY <2>3
        <3> QED BY <2>1, <3>1, NewRowRight
    <2>5. OnePerCode(orders')
        BY <1>2, <2>2, <2>3, <2>4 DEF OnePerCode
    <2>6. importer' = [importer EXCEPT ![i] = NoImport]
        BY <1>5 DEF StoreOrders
    <2> QED BY <1>3, <2>5, <2>6
<1>6. ASSUME NEW i \in Importers, FailImport(i)
      PROVE  OnePerCode(orders') /\ NoneOf(orders', importer')
    BY <1>2, <1>3, <1>6 DEF FailImport
<1>7. ASSUME importer' = importer,
             \A o \in Orders : orders'[o] # NoOrder => orders[o] # NoOrder /\ orders'[o].code = orders[o].code
      PROVE  OnePerCode(orders') /\ NoneOf(orders', importer')
    BY <1>2, <1>7, FewerCodes
<1>8. ASSUME NEW o \in Orders, Deliver(o)
      PROVE  OnePerCode(orders') /\ NoneOf(orders', importer')
    <2>1. orders[o] \in OrderRow
        BY <1>1, <1>8 DEF OrdersRight, Deliver
    <2>2. orders' = [orders EXCEPT ![o] = [orders[o] EXCEPT !.status = "delivered"]] /\ importer' = importer
        BY <1>8 DEF Deliver
    <2>3. [orders[o] EXCEPT !.status = "delivered"].code = orders[o].code
        BY <2>1 DEF OrderRow
    <2>4. orders[o] # NoOrder
        BY <1>8 DEF Deliver
    <2>5. \A p \in Orders : orders'[p] # NoOrder => orders[p] # NoOrder /\ orders'[p].code = orders[p].code
        BY <1>1, <2>2, <2>3, <2>4 DEF OrdersRight
    <2> QED BY <1>7, <2>2, <2>5
<1>9. CASE ApplyCoords
    <2>1. ASSUME NEW o \in Stored
          PROVE  orders[o] # NoOrder /\ [orders[o] EXCEPT !.coords = CoordsAfter(o)].code = orders[o].code
        BY <1>1 DEF OrdersRight, OrderRow, Stored
    <2>2. \A o \in Orders : orders'[o] = IF o \in Stored THEN [orders[o] EXCEPT !.coords = CoordsAfter(o)] ELSE NoOrder
        BY <1>9 DEF ApplyCoords
    <2>3. importer' = importer
        BY <1>9 DEF ApplyCoords
    <2> QED BY <1>7, <2>1, <2>2, <2>3
<1>10. ASSUME NEW t \in Tabs, NEW S \in SUBSET DOMAIN shown[t], DeleteSelected(t, S)
       PROVE  OnePerCode(orders') /\ NoneOf(orders', importer')
    BY <1>7, <1>10 DEF DeleteSelected
<1>11. ASSUME NEW t \in Tabs, DeleteAll(t)
       PROVE  OnePerCode(orders') /\ NoneOf(orders', importer')
    BY <1>7, <1>11 DEF DeleteAll
<1>12. CASE UNCHANGED <<orders, importer>>
    BY <1>2, <1>12
<1> QED BY <1>4, <1>5, <1>6, <1>8, <1>9, <1>10, <1>11, <1>12 DEF ImportNext, ShowOrders, importVars

\* With one import at a time no code is ever stored twice (OneOrderPerCode),
\* whatever was deleted, delivered, rolled back or imported before.
THEOREM OneOrderAlwaysPerCode == OneImporter => (ImportSpec => []OneOrderPerCode)
<1> SUFFICES ASSUME OneImporter PROVE ImportSpec => []OneOrderPerCode
    OBVIOUS
<1>1. ImportTypeOK /\ CodesInv /\ [ImportNext]_importVars => CodesInv'
    BY NextCodes
<1>2. CodesInv => OneOrderPerCode
    BY OnePerCodeIs DEF CodesInv
<1> QED BY <1>1, <1>2, InitCodes, ImportTypeCorrect, PTL DEF ImportSpec
=============================================================================
