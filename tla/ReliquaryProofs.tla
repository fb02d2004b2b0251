--------------------------- MODULE ReliquaryProofs ---------------------------
(***************************************************************************)
(* Theorems about Reliquary, for any number of requests, sessions and jobs, *)
(* any keep_last, and any number of crashes, dropped requests, lost         *)
(* sessions and failing statements.                                         *)
(***************************************************************************)
EXTENDS Reliquary, WellFoundedInduction, TLAPS

(* A set of jobs that is not empty has a newest one. *)
LEMMA HasNewest ==
    ASSUME NEW S \in SUBSET Job, S # {}
    PROVE  \E j \in S : \A k \in S : k <= j
<1> DEFINE T == {MaxJobs - j : j \in S}
<1>1. T \subseteq Nat
  BY ConstAssumption DEF Job
<1>2. T # {}
  <2>1. PICK j \in S : TRUE
    OBVIOUS
  <2>2. MaxJobs - j \in T
    OBVIOUS
  <2> QED BY <2>2
<1>3. \A m, k \in Nat : ~(m < k) => k <= m
  OBVIOUS
<1>4. PICK n \in T : \A m \in T : ~(<<m, n>> \in OpToRel(<, Nat))
  <2> HIDE DEF T
  <2> QED BY <1>1, <1>2, NatLessThanWellFounded, WFMin
<1>5. \A m \in T : n <= m
  <2>1. \A m, k \in Nat : m < k => <<m, k>> \in OpToRel(<, Nat)
    BY Zenon DEF OpToRel
  <2>2. \A m \in T : ~(m < n)
    <3> HIDE DEF T
    <3> QED BY <1>1, <1>4, <2>1, Zenon
  <2> HIDE DEF T
  <2> QED BY <1>1, <1>3, <1>4, <2>2, Zenon
<1>6. PICK j \in S : n = MaxJobs - j
  OBVIOUS
<1>7. \A k \in S : k <= j
  BY <1>5, <1>6, ConstAssumption DEF Job
<1> QED BY <1>7

(* Newest returns it. *)
LEMMA NewestIn ==
    ASSUME NEW S \in SUBSET Job, S # {}
    PROVE  Newest(S) \in S /\ \A k \in S : k <= Newest(S)
  BY HasNewest DEF Newest

(* select_prune_candidates, on any table: the keep_last newest are kept, and
   if a listed backup has passed verification one that has passed is kept. *)
THEOREM RetentionSelection ==
    ASSUME TypeOK
    PROVE  RetentionSafe
<1> DEFINE kept == Listed \ SelectPrune
<1>1. \A j \in Listed : Recent(j) => j \in kept
  BY DEF SelectPrune, Prunable
<1>2. ASSUME NEW j \in Listed, Passing(j)
      PROVE  \E k \in kept : Passing(k)
  <2>1. CASE \E k \in Listed : Recent(k) /\ Passing(k)
    BY <2>1, <1>1
  <2>2. CASE j \notin Prunable
    BY <1>2, <2>2 DEF SelectPrune
  <2>3. CASE j \in Prunable /\ ~ \E k \in Listed : Recent(k) /\ Passing(k)
    <3> DEFINE P == {k \in Prunable : Passing(k)}
    <3>1. P \in SUBSET Job /\ P # {}
      BY <1>2, <2>3 DEF Prunable, Listed
    <3>2. PICK n \in P : \A k \in P : k <= n
      <4> HIDE DEF P
      <4> QED BY <3>1, HasNewest
    <3>3. Protected(n)
      BY <2>3, <3>1, <3>2 DEF Protected, Job
    <3> QED BY <3>2, <3>3 DEF SelectPrune, Prunable
  <2> QED BY <2>1, <2>2, <2>3
<1> QED BY <1>1, <1>2 DEF RetentionSafe, Recent

-----------------------------------------------------------------------------
(* The inductive invariant *)

(* The named lock: a task whose session is alive owns the lock, alone. *)
LockShape ==
    /\ holder # NoSession => depth > 0
    /\ \A t \in Task : sess[t] # NoSession =>
          /\ step[t] \in Building
          /\ holder = sess[t]
          /\ \A u \in Task : sess[u] = sess[t] => u = t

(* A task works on a job of its own exactly while it is in run_backup. *)
JobShape ==
    \A t \in Task :
        /\ job[t] # 0 <=> step[t] \in Building \cup {"queued", "mark"}
        /\ job[t] <= created
        /\ \A u \in Task : job[u] = job[t] /\ job[t] # 0 => u = t

(* A restore past its safety backup, and a verification, have their job; what
   is shredded belongs to no job under way. *)
TargetShape ==
    \A t \in Task :
        /\ step[t] \in {"enter", "extract", "apply", "record", "shred"} => target[t] # 0
        /\ step[t] = "shred" => /\ target[t] <= created
                               /\ \A u \in Task : job[u] # target[t]

(* A job that is not created yet or still under way is open: no row of it,
   in the table or in any dump, is finished or names an archive. *)
Open(j) == j > created \/ \E t \in Task : job[t] = j
OpenRow(r) == r.status \notin Terminal /\ ~r.named
OpenJobs ==
    \A j \in Job :
        /\ Open(j) => /\ OpenRow(table[j])
                      /\ \A k \in Job : OpenRow(dumped[k][j])
                      /\ j \notin doomed
        /\ j > created => /\ table[j].status = "absent"
                          /\ \A k \in Job : dumped[k][j].status = "absent"

(* Nothing runs while the control plane is down. *)
DownShape == ~up => \A t \in Task : step[t] = "idle"

(* What run_backup is about to record as a success is in the store. *)
OkIsWhole ==
    \A t \in Task : step[t] \in {"unlock", "mark"} /\ ok[t] => file[job[t]] = "whole"

Inv ==
    /\ TypeOK /\ LockShape /\ JobShape /\ TargetShape /\ DownShape
    /\ OpenJobs /\ OkIsWhole /\ NamedWasWhole /\ MaintenanceMeansRestore

(* Rows: the empty ones, and what an assignment to one column leaves. *)
LEMMA RowFacts ==
    /\ NoRow \in Row /\ OpenRow(NoRow) /\ NoRow.status = "absent"
    /\ NoTable \in [Job -> Row] /\ \A j \in Job : NoTable[j] = NoRow
    /\ \A r \in Row, s \in Status :
          /\ [r EXCEPT !.status = s] \in Row
          /\ [r EXCEPT !.status = s].status = s
          /\ [r EXCEPT !.status = s].named = r.named
    /\ \A r \in Row, v \in {"none", "passed", "failed"} :
          /\ [r EXCEPT !.verdict = v] \in Row
          /\ [r EXCEPT !.verdict = v].status = r.status
          /\ [r EXCEPT !.verdict = v].named = r.named
    /\ \A r \in Row :
          /\ [r EXCEPT !.status = "succeeded", !.named = TRUE] \in Row
          /\ [r EXCEPT !.status = "succeeded", !.named = TRUE].status = "succeeded"
  BY DEF Row, NoRow, NoTable, Status, OpenRow, Terminal

(* An UPDATE changes the row it is about and no other. *)
LEMMA UpdateFacts ==
    ASSUME TypeOK, NEW j \in Job, NEW r \in Row, Update(j, r)
    PROVE  /\ table' \in [Job -> Row]
           /\ table'[j] \in {table[j], r}
           /\ \A k \in Job : k # j => table'[k] = table[k]
  BY DEF Update, TypeOK

(* A load that stops halfway leaves a row as it is or removes it. *)
LEMMA TornFacts ==
    ASSUME TypeOK, Torn
    PROVE  /\ table' \in [Job -> Row]
           /\ \A j \in Job : table'[j] \in {table[j], NoRow}
<1>1. table \in [Job -> Row] /\ NoTable \in [Job -> Row] /\ \A j \in Job : NoTable[j] = NoRow
  BY RowFacts DEF TypeOK
<1>2. CASE table' = table
  BY <1>1, <1>2
<1>3. CASE table' = NoTable
  BY <1>1, <1>3
<1> QED BY <1>2, <1>3 DEF Torn

(* A child that goes on removes what a request was shredding, nothing else. *)
LEMMA ShredFacts ==
    ASSUME TypeOK, NEW T \in SUBSET Task, ShredGoesOn(T)
    PROVE  /\ file' \in [Job -> {"none", "partial", "whole", "shredded"}]
           /\ \A j \in Job : \/ file'[j] = file[j]
                            \/ /\ file'[j] = "none"
                               /\ \E t \in Task : step[t] = "shred" /\ target[t] = j
<1>1. PICK done \in SUBSET {t \in T : step[t] = "shred"} :
        file' = [j \in Job |-> IF \E t \in done : target[t] = j THEN "none" ELSE file[j]]
  BY DEF ShredGoesOn
<1> QED BY <1>1 DEF TypeOK

USE DEF storeVars, lockVars, taskVars, Goto, Spend

(* The job that is inserted is a fresh one, and its row is not finished. *)
LEMMA OpenByEnqueue ==
    ASSUME TypeOK, OpenJobs, NEW t \in Task, Enqueue(t)
    PROVE  OpenJobs'
<1> DEFINE n == created + 1
<1>0. n \in Job /\ created \in Nat /\ created' = n /\ dumped' = dumped /\ doomed' = doomed
  BY ConstAssumption DEF Enqueue, TypeOK, Job
<1>1. /\ table'[n].status = "queued" /\ ~table'[n].named
      /\ \A j \in Job : j # n => table'[j] = table[j]
  BY <1>0 DEF Enqueue, TypeOK
<1>2. \A j \in Job : (Open(j))' => Open(j)
  BY <1>0, ConstAssumption DEF Enqueue, TypeOK, Open, Job
<1>3. \A j \in Job : j > created' => j > created /\ j # n
  BY <1>0, ConstAssumption DEF Job
<1>4. OpenRow(table'[n])
  BY <1>1 DEF OpenRow, Terminal
<1>5. \A j \in Job : (Open(j))' => /\ OpenRow(table'[j])
                                  /\ \A k \in Job : OpenRow(dumped'[k][j])
                                  /\ j \notin doomed'
  <2> TAKE j \in Job
  <2> HAVE (Open(j))'
  <2>1. OpenRow(table[j]) /\ (\A k \in Job : OpenRow(dumped[k][j])) /\ j \notin doomed
    BY <1>2 DEF OpenJobs
  <2>2. OpenRow(table'[j])
    BY <2>1, <1>1, <1>4
  <2> QED BY <2>1, <2>2, <1>0
<1>6. \A j \in Job : j > created' => /\ table'[j].status = "absent"
                                    /\ \A k \in Job : dumped'[k][j].status = "absent"
  BY <1>0, <1>1, <1>3 DEF OpenJobs
<1> QED BY <1>5, <1>6 DEF OpenJobs, OpenRow

(* An INSERT keeps every type, if the caller does so for the target. *)
LEMMA EnqueueType ==
    ASSUME TypeOK, NEW t \in Task, Enqueue(t), target' \in [Task -> 0..MaxJobs]
    PROVE  TypeOK'
<1>1. created + 1 \in Job /\ created + 1 \in 0..MaxJobs
  BY ConstAssumption DEF Enqueue, TypeOK, Job
<1>2. [status |-> "queued", named |-> FALSE, verdict |-> "none"] \in Row
  BY DEF Row, Status
<1>3. table' \in [Job -> Row]
  BY <1>1, <1>2 DEF Enqueue, TypeOK
<1>4. /\ created' \in 0..MaxJobs /\ job' \in [Task -> 0..MaxJobs]
      /\ step' \in [Task -> Step]
  BY <1>1 DEF Enqueue, TypeOK, Step
<1> QED BY <1>3, <1>4 DEF Enqueue, TypeOK

(* The job that is inserted is a fresh one. *)
LEMMA InvByCreateBackup ==
    ASSUME Inv, NEW t \in Task, CreateBackup(t)
    PROVE  Inv'
<1>1. TypeOK'
  BY EnqueueType DEF Inv, TypeOK, CreateBackup
<1>2. (LockShape /\ JobShape /\ TargetShape /\ DownShape
       /\ MaintenanceMeansRestore)'
  BY ConstAssumption DEF Inv, TypeOK, LockShape, JobShape, TargetShape, DownShape,
    MaintenanceMeansRestore, Task, Job, Building, Restoring, Step, CreateBackup, Enqueue
<1>3. OpenJobs'
  BY OpenByEnqueue DEF Inv, CreateBackup
<1>4. (OkIsWhole /\ NamedWasWhole)'
  BY ConstAssumption DEF Inv, TypeOK, JobShape, OpenJobs, OkIsWhole, NamedWasWhole, Task,
    Job, Open, OpenRow, Building, CreateBackup, Enqueue
<1> QED BY <1>1, <1>2, <1>3, <1>4 DEF Inv

(* The same for the scheduler. *)
LEMMA InvByScheduledBackup ==
    ASSUME Inv, ScheduledBackup
    PROVE  Inv'
<1>1. TypeOK'
  BY EnqueueType DEF Inv, TypeOK, ScheduledBackup, Task
<1>2. (LockShape /\ JobShape /\ TargetShape /\ DownShape
       /\ MaintenanceMeansRestore)'
  BY ConstAssumption DEF Inv, TypeOK, LockShape, JobShape, TargetShape, DownShape,
    MaintenanceMeansRestore, Task, Job, Building, Restoring, Step, ScheduledBackup,
    Enqueue
<1>3. OpenJobs'
  BY OpenByEnqueue DEF Inv, ScheduledBackup, Task
<1>4. (OkIsWhole /\ NamedWasWhole)'
  BY ConstAssumption DEF Inv, TypeOK, JobShape, OpenJobs, OkIsWhole, NamedWasWhole, Task,
    Job, Open, OpenRow, Building, ScheduledBackup, Enqueue
<1> QED BY <1>1, <1>2, <1>3, <1>4 DEF Inv

(* The same for a restore's safety backup; its target is a listed job. *)
LEMMA InvByStartRestore ==
    ASSUME Inv, NEW t \in Task, StartRestore(t)
    PROVE  Inv'
<1>1. TypeOK'
  <2>1. target' \in [Task -> 0..MaxJobs]
    BY ConstAssumption DEF Inv, TypeOK, Job, StartRestore, RestoreAsked
  <2> QED BY <2>1, EnqueueType DEF Inv, StartRestore
<1>2. (LockShape /\ JobShape /\ TargetShape /\ DownShape
       /\ MaintenanceMeansRestore)'
  BY ConstAssumption DEF Inv, TypeOK, LockShape, JobShape, TargetShape, DownShape,
    MaintenanceMeansRestore, Task, Job, Building, Restoring, Step, StartRestore, RestoreAsked,
    Enqueue
<1>3. OpenJobs'
  BY OpenByEnqueue DEF Inv, StartRestore
<1>4. (OkIsWhole /\ NamedWasWhole)'
  BY ConstAssumption DEF Inv, TypeOK, JobShape, OpenJobs, OkIsWhole, NamedWasWhole, Task,
    Job, Open, OpenRow, Building, StartRestore, RestoreAsked,
    Enqueue
<1> QED BY <1>1, <1>2, <1>3, <1>4 DEF Inv

(* The target is a listed job, and no job is begun. *)
LEMMA InvByStartUnsaved ==
    ASSUME Inv, NEW t \in Task, StartUnsaved(t)
    PROVE  Inv'
<1>0. PICK j \in Job : target' = [target EXCEPT ![t] = j]
  BY DEF StartUnsaved, RestoreAsked
<1>1. TypeOK'
  <2>1. ok' \in [Task -> BOOLEAN]
    BY Zenon DEF Inv, TypeOK, StartUnsaved, RestoreAsked
  <2>2. /\ step' \in [Task -> Step] /\ target' \in [Task -> 0..MaxJobs]
        /\ budget' \in [{"crash", "drop", "loss", "unmarked", "fault", "any"} -> Nat]
    BY ConstAssumption, <1>0 DEF Inv, TypeOK, Job, Step, StartUnsaved, RestoreAsked
  <2>3. UNCHANGED <<storeVars, lockVars, maintenance, up, job, sess, doomed>>
    BY DEF StartUnsaved, RestoreAsked
  <2> QED BY <2>1, <2>2, <2>3 DEF Inv, TypeOK
<1>2. (LockShape /\ JobShape /\ TargetShape /\ DownShape
       /\ MaintenanceMeansRestore)'
  <2>1. UNCHANGED <<created, lockVars, maintenance, up, job, sess>> /\ up /\ step[t] = "idle"
    BY DEF StartUnsaved
  <2>2. step' = [step EXCEPT ![t] = "enter"]
    BY DEF StartUnsaved
  <2> QED BY <1>0, <2>1, <2>2, ConstAssumption DEF Inv, TypeOK, LockShape, JobShape, TargetShape,
        DownShape, MaintenanceMeansRestore, Job, Building, Restoring
<1>3. OpenJobs'
  BY ConstAssumption DEF Inv, TypeOK, JobShape, OpenJobs, Task, Job, Open, OpenRow,
    Terminal, Building, StartUnsaved, RestoreAsked
<1>4. (OkIsWhole /\ NamedWasWhole)'
  BY ConstAssumption DEF Inv, TypeOK, JobShape, TargetShape, OpenJobs, OkIsWhole, NamedWasWhole,
    Task, Job, Open, OpenRow, Building, StartUnsaved, RestoreAsked
<1> QED BY <1>1, <1>2, <1>3, <1>4 DEF Inv

(* The session that gets the lock is one no task holds. *)
LEMMA InvByLock ==
    ASSUME Inv, NEW t \in Task, Lock(t)
    PROVE  Inv'
<1>0. PICK s \in Session :
        /\ \A u \in Task : sess[u] # s
        /\ holder \in {NoSession, s} /\ holder' = s /\ depth' = depth + 1
        /\ sess' = [sess EXCEPT ![t] = s]
  BY DEF Lock, Idle
<1>1. TypeOK'
  BY ConstAssumption, <1>0 DEF Inv, TypeOK, Task, Step, Lock
<1>2. (LockShape /\ JobShape /\ TargetShape /\ DownShape
       /\ MaintenanceMeansRestore)'
  BY ConstAssumption, <1>0 DEF Inv, TypeOK, LockShape, JobShape, TargetShape, DownShape,
    MaintenanceMeansRestore, Task, Job, Building, Restoring, Step, Lock
<1>3. OpenJobs'
  BY ConstAssumption, <1>0 DEF Inv, TypeOK, JobShape, OpenJobs, Task, Job, Open, OpenRow,
    Terminal, Building, Lock
<1>4. (OkIsWhole /\ NamedWasWhole)'
  BY ConstAssumption, <1>0 DEF Inv, TypeOK, JobShape, OpenJobs, OkIsWhole, NamedWasWhole,
    Task, Job, Open, OpenRow, Building, Lock
<1> QED BY <1>1, <1>2, <1>3, <1>4 DEF Inv

(* A refused lock changes nothing but the outcome. *)
LEMMA InvByLockBusy ==
    ASSUME Inv, NEW t \in Task, LockBusy(t)
    PROVE  Inv'
<1>1. TypeOK'
  BY ConstAssumption DEF Inv, TypeOK, Task, Step, LockBusy, Idle
<1>2. (LockShape /\ JobShape /\ TargetShape /\ DownShape
       /\ MaintenanceMeansRestore)'
  BY ConstAssumption DEF Inv, TypeOK, LockShape, JobShape, TargetShape, DownShape,
    MaintenanceMeansRestore, Task, Job, Building, Restoring, Step, LockBusy, Idle
<1>3. OpenJobs'
  BY ConstAssumption DEF Inv, TypeOK, JobShape, OpenJobs, Task, Job, Open, OpenRow,
    Terminal, Building, LockBusy, Idle
<1>4. (OkIsWhole /\ NamedWasWhole)'
  BY ConstAssumption DEF Inv, TypeOK, JobShape, OpenJobs, OkIsWhole, NamedWasWhole, Task,
    Job, Open, OpenRow, Building, LockBusy, Idle
<1> QED BY <1>1, <1>2, <1>3, <1>4 DEF Inv

(* Nor does a statement that fails. *)
LEMMA InvByLockFails ==
    ASSUME Inv, NEW t \in Task, LockFails(t)
    PROVE  Inv'
<1>1. TypeOK'
  <2>1. ok' \in [Task -> BOOLEAN]
    BY Zenon DEF Inv, TypeOK, LockFails
  <2>2. /\ step' \in [Task -> Step] /\ target' \in [Task -> 0..MaxJobs]
        /\ budget' \in [{"crash", "drop", "loss", "unmarked", "fault", "any"} -> Nat]
    BY ConstAssumption DEF Inv, TypeOK, Job, Step, LockFails
  <2>3. UNCHANGED <<storeVars, lockVars, maintenance, up, job, sess, doomed>>
    BY DEF LockFails
  <2> QED BY <2>1, <2>2, <2>3 DEF Inv, TypeOK
<1>2. (LockShape /\ JobShape /\ TargetShape /\ DownShape
       /\ MaintenanceMeansRestore)'
  BY ConstAssumption DEF Inv, TypeOK, LockShape, JobShape, TargetShape, DownShape,
    MaintenanceMeansRestore, Task, Job, Building, Restoring, Step, LockFails
<1>3. OpenJobs'
  BY ConstAssumption DEF Inv, TypeOK, JobShape, OpenJobs, Task, Job, Open, OpenRow,
    Terminal, Building, LockFails
<1>4. (OkIsWhole /\ NamedWasWhole)'
  BY ConstAssumption DEF Inv, TypeOK, JobShape, TargetShape, OpenJobs, OkIsWhole, NamedWasWhole,
    Task, Job, Open, OpenRow, Building, LockFails
<1> QED BY <1>1, <1>2, <1>3, <1>4 DEF Inv

(* The row stays open. *)
LEMMA InvByMarkRunning ==
    ASSUME Inv, NEW t \in Task, MarkRunning(t)
    PROVE  Inv'
<1>0. /\ table' \in [Job -> Row]
      /\ \A k \in Job : OpenRow(table[k]) => OpenRow(table'[k])
      /\ \A k \in Job : k # job[t] => table'[k] = table[k]
      /\ \A k \in Job : (table'[k].named => table[k].named)
  <2> DEFINE r == [table[job[t]] EXCEPT !.status = "running"]
  <2>1. job[t] \in Job
    BY ConstAssumption DEF Inv, TypeOK, JobShape, Job, Building, MarkRunning
  <2>2. table[job[t]] \in Row
    BY <2>1 DEF Inv, TypeOK
  <2>3. r \in Row /\ r.status = "running" /\ r.named = table[job[t]].named
    BY <2>2, RowFacts DEF Status
  <2>4. Update(job[t], r)
    BY DEF MarkRunning
  <2> HIDE DEF r
  <2> QED BY <2>1, <2>3, <2>4, UpdateFacts DEF Inv, OpenRow, Terminal
<1>1. TypeOK'
  BY ConstAssumption, <1>0 DEF Inv, TypeOK, Task, Step, MarkRunning
<1>2. (LockShape /\ JobShape /\ TargetShape /\ DownShape
       /\ MaintenanceMeansRestore)'
  BY ConstAssumption, <1>0 DEF Inv, TypeOK, LockShape, JobShape, TargetShape, DownShape,
    MaintenanceMeansRestore, Task, Job, Building, Restoring, Step, MarkRunning
<1>3. OpenJobs'
  <2> SUFFICES ASSUME NEW j \in Job
               PROVE  /\ Open(j)' => /\ OpenRow(table'[j])
                                     /\ \A k \in Job : OpenRow(dumped'[k][j])
                                     /\ j \notin doomed'
                      /\ j > created' => /\ table'[j].status = "absent"
                                         /\ \A k \in Job : dumped'[k][j].status = "absent"
    BY DEF OpenJobs, OpenRow
  <2>1. Open(j)' <=> Open(j)
    BY DEF Open, MarkRunning
  <2>2. j > created => j # job[t]
    BY ConstAssumption DEF Inv, TypeOK, JobShape, Job
  <2> QED BY <1>0, <2>1, <2>2 DEF Inv, OpenJobs, MarkRunning
<1>4. (OkIsWhole /\ NamedWasWhole)'
  BY ConstAssumption, <1>0 DEF Inv, TypeOK, JobShape, OpenJobs, OkIsWhole, NamedWasWhole,
    Task, Job, Open, OpenRow, Building, MarkRunning
<1> QED BY <1>1, <1>2, <1>3, <1>4 DEF Inv

(* What is dumped is the table, whose open rows are open. *)
LEMMA InvByDump ==
    ASSUME Inv, NEW t \in Task, Dump(t)
    PROVE  Inv'
<1>1. TypeOK'
  BY ConstAssumption DEF Inv, TypeOK, Task, Step, Dump
<1>2. (LockShape /\ JobShape /\ TargetShape /\ DownShape
       /\ MaintenanceMeansRestore)'
  BY ConstAssumption DEF Inv, TypeOK, LockShape, JobShape, TargetShape, DownShape,
    MaintenanceMeansRestore, Task, Job, Building, Restoring, Step, Dump
<1>3. OpenJobs'
  BY ConstAssumption DEF Inv, TypeOK, JobShape, OpenJobs, Task, Job, Open, OpenRow,
    Terminal, Building, Dump
<1>4. (OkIsWhole /\ NamedWasWhole)'
  BY ConstAssumption DEF Inv, TypeOK, JobShape, OpenJobs, OkIsWhole, NamedWasWhole, Task,
    Job, Open, OpenRow, Building, Dump
<1> QED BY <1>1, <1>2, <1>3, <1>4 DEF Inv

(* The archive that becomes partial belongs to an open job, which nothing names. *)
LEMMA InvByOpenWrite ==
    ASSUME Inv, NEW t \in Task, OpenWrite(t)
    PROVE  Inv'
<1>1. TypeOK'
  BY ConstAssumption DEF Inv, TypeOK, Task, Step, OpenWrite
<1>2. (LockShape /\ JobShape /\ TargetShape /\ DownShape
       /\ MaintenanceMeansRestore)'
  BY ConstAssumption DEF Inv, TypeOK, LockShape, JobShape, TargetShape, DownShape,
    MaintenanceMeansRestore, Task, Job, Building, Restoring, Step, OpenWrite
<1>3. OpenJobs'
  BY ConstAssumption DEF Inv, TypeOK, JobShape, OpenJobs, Task, Job, Open, OpenRow,
    Terminal, Building, OpenWrite
<1>4. (OkIsWhole /\ NamedWasWhole)'
  <2>1. job[t] \in Job /\ step[t] = "write" /\ UNCHANGED <<table, dumped, job, ok>>
    BY ConstAssumption DEF Inv, TypeOK, JobShape, Job, Building, OpenWrite
  <2>2. ~table[job[t]].named /\ \A k \in Job : ~dumped[k][job[t]].named
    BY <2>1 DEF Inv, OpenJobs, Open, OpenRow
  <2>3. \A k \in Job : k # job[t] => file'[k] = file[k]
    BY DEF Inv, TypeOK, OpenWrite
  <2>4. NamedWasWhole'
    BY <2>1, <2>2, <2>3 DEF Inv, NamedWasWhole
  <2>5. ASSUME NEW u \in Task, step'[u] \in {"unlock", "mark"}, ok'[u] PROVE file'[job'[u]] = "whole"
    <3>1. u # t /\ step[u] = step'[u]
      BY <2>5 DEF Inv, TypeOK, OpenWrite
    <3>2. job[u] \in Job /\ job[u] # job[t] /\ file[job[u]] = "whole"
      BY <2>1, <2>5, <3>1, ConstAssumption DEF Inv, TypeOK, JobShape, OkIsWhole, Job, Building
    <3> QED BY <2>1, <2>3, <3>2
  <2> QED BY <2>4, <2>5 DEF OkIsWhole
<1> QED BY <1>1, <1>2, <1>3, <1>4 DEF Inv

(* The outcome turns good together with the archive. *)
LEMMA InvByWritten ==
    ASSUME Inv, NEW t \in Task, Written(t)
    PROVE  Inv'
<1>1. TypeOK'
  BY ConstAssumption DEF Inv, TypeOK, Task, Step, Written
<1>2. (LockShape /\ JobShape /\ TargetShape /\ DownShape
       /\ MaintenanceMeansRestore)'
  BY ConstAssumption DEF Inv, TypeOK, LockShape, JobShape, TargetShape, DownShape,
    MaintenanceMeansRestore, Task, Job, Building, Restoring, Step, Written
<1>3. OpenJobs'
  BY ConstAssumption DEF Inv, TypeOK, JobShape, OpenJobs, Task, Job, Open, OpenRow,
    Terminal, Building, Written
<1>4. (OkIsWhole /\ NamedWasWhole)'
  BY ConstAssumption DEF Inv, TypeOK, JobShape, OpenJobs, OkIsWhole, NamedWasWhole, Task,
    Job, Open, OpenRow, Building, Written
<1> QED BY <1>1, <1>2, <1>3, <1>4 DEF Inv

(* The outcome is bad whatever was written. *)
LEMMA InvByBuildFails ==
    ASSUME Inv, NEW t \in Task, BuildFails(t)
    PROVE  Inv'
<1>1. TypeOK'
  BY ConstAssumption DEF Inv, TypeOK, Task, Step, BuildFails
<1>2. (LockShape /\ JobShape /\ TargetShape /\ DownShape
       /\ MaintenanceMeansRestore)'
  BY ConstAssumption DEF Inv, TypeOK, LockShape, JobShape, TargetShape, DownShape,
    MaintenanceMeansRestore, Task, Job, Building, Restoring, Step, BuildFails
<1>3. OpenJobs'
  BY ConstAssumption DEF Inv, TypeOK, JobShape, OpenJobs, Task, Job, Open, OpenRow,
    Terminal, Building, BuildFails
<1>4. (OkIsWhole /\ NamedWasWhole)'
  BY ConstAssumption DEF Inv, TypeOK, JobShape, OpenJobs, OkIsWhole, NamedWasWhole, Task,
    Job, Open, OpenRow, Building, BuildFails
<1> QED BY <1>1, <1>2, <1>3, <1>4 DEF Inv

(* The only task with a live session gives the lock back. *)
LEMMA InvByUnlock ==
    ASSUME Inv, NEW t \in Task, Unlock(t)
    PROVE  Inv'
<1>1. TypeOK'
  BY ConstAssumption DEF Inv, TypeOK, LockShape, TargetShape, Task, Step, Unlock
<1>2. (LockShape /\ JobShape /\ TargetShape /\ DownShape
       /\ MaintenanceMeansRestore)'
  BY ConstAssumption DEF Inv, TypeOK, LockShape, JobShape, TargetShape, DownShape,
    MaintenanceMeansRestore, Task, Job, Building, Restoring, Step, Unlock
<1>3. OpenJobs'
  BY ConstAssumption DEF Inv, TypeOK, JobShape, OpenJobs, Task, Job, Open, OpenRow,
    Terminal, Building, Unlock
<1>4. (OkIsWhole /\ NamedWasWhole)'
  BY ConstAssumption DEF Inv, TypeOK, JobShape, OpenJobs, OkIsWhole, NamedWasWhole, Task,
    Job, Open, OpenRow, Building, Unlock
<1> QED BY <1>1, <1>2, <1>3, <1>4 DEF Inv

(* The row is named only if the archive is whole, and the job is no longer open. *)
LEMMA InvByMark ==
    ASSUME Inv, NEW t \in Task, Mark(t)
    PROVE  Inv'
<1>0. /\ job[t] \in Job /\ table[job[t]] \in Row
      /\ table' \in [Job -> Row]
      /\ \A k \in Job : k # job[t] => table'[k] = table[k]
      /\ table'[job[t]].named => table[job[t]].named \/ ok[t]
  <2>1. job[t] \in Job
    BY ConstAssumption DEF Inv, TypeOK, JobShape, Job, Building, Mark
  <2>2. table[job[t]] \in Row
    BY <2>1 DEF Inv, TypeOK
  <2>3. Outcome(t) \in Row /\ (Outcome(t).named => table[job[t]].named \/ ok[t])
    BY <2>2, RowFacts DEF Outcome, Status
  <2>4. Update(job[t], Outcome(t))
    BY DEF Mark
  <2> QED BY <2>1, <2>2, <2>3, <2>4, UpdateFacts DEF Inv
<1>1. TypeOK'
  BY ConstAssumption, <1>0 DEF Inv, TypeOK, Task, Step, Mark, AfterBackup
<1>2. (LockShape /\ JobShape /\ TargetShape /\ DownShape
       /\ MaintenanceMeansRestore)'
  BY ConstAssumption, <1>0 DEF Inv, TypeOK, LockShape, JobShape, TargetShape, DownShape,
    MaintenanceMeansRestore, Task, Job, Building, Restoring, Step, Mark, AfterBackup
<1>3. OpenJobs'
  BY ConstAssumption, <1>0 DEF Inv, TypeOK, JobShape, OpenJobs, Task, Job, Open, OpenRow,
    Terminal, Building, Mark, AfterBackup
<1>4. (OkIsWhole /\ NamedWasWhole)'
  BY ConstAssumption, <1>0 DEF Inv, TypeOK, JobShape, OpenJobs, OkIsWhole, NamedWasWhole,
    Task, Job, Open, OpenRow, Building, Mark, AfterBackup
<1> QED BY <1>1, <1>2, <1>3, <1>4 DEF Inv

(* The job is no longer open, and its row not finished. *)
LEMMA InvByMarkLost ==
    ASSUME Inv, NEW t \in Task, MarkLost(t)
    PROVE  Inv'
<1>1. TypeOK'
  BY ConstAssumption DEF Inv, TypeOK, Task, Step, MarkLost, AfterBackup
<1>2. (LockShape /\ JobShape /\ TargetShape /\ DownShape
       /\ MaintenanceMeansRestore)'
  BY ConstAssumption DEF Inv, TypeOK, LockShape, JobShape, TargetShape, DownShape,
    MaintenanceMeansRestore, Task, Job, Building, Restoring, Step, MarkLost, AfterBackup
<1>3. OpenJobs'
  BY ConstAssumption DEF Inv, TypeOK, JobShape, OpenJobs, Task, Job, Open, OpenRow,
    Terminal, Building, MarkLost, AfterBackup
<1>4. (OkIsWhole /\ NamedWasWhole)'
  BY ConstAssumption DEF Inv, TypeOK, JobShape, OpenJobs, OkIsWhole, NamedWasWhole, Task,
    Job, Open, OpenRow, Building, MarkLost, AfterBackup
<1> QED BY <1>1, <1>2, <1>3, <1>4 DEF Inv

(* Reading changes no row. *)
LEMMA InvByVerifyRead ==
    ASSUME Inv, NEW t \in Task, VerifyRead(t)
    PROVE  Inv'
<1>0. PICK j \in Job : target' = [target EXCEPT ![t] = j]
  BY DEF VerifyRead
<1>1. TypeOK'
  BY ConstAssumption DEF Inv, TypeOK, Task, Job, Step, VerifyRead, Present
<1>2. (LockShape /\ JobShape /\ TargetShape /\ DownShape
       /\ MaintenanceMeansRestore)'
  <2>1. UNCHANGED <<created, lockVars, maintenance, up, job, sess>> /\ up /\ step[t] = "idle"
    BY DEF VerifyRead
  <2>2. step' = [step EXCEPT ![t] = "record"]
    BY DEF VerifyRead
  <2> QED BY <1>0, <2>1, <2>2, ConstAssumption DEF Inv, TypeOK, LockShape, JobShape, TargetShape,
        DownShape, MaintenanceMeansRestore, Job, Building, Restoring
<1>3. OpenJobs'
  BY ConstAssumption DEF Inv, TypeOK, JobShape, OpenJobs, Task, Job, Open, OpenRow,
    Terminal, Building, VerifyRead, Present
<1>4. (OkIsWhole /\ NamedWasWhole)'
  BY ConstAssumption DEF Inv, TypeOK, JobShape, OpenJobs, OkIsWhole, NamedWasWhole, Task,
    Job, Open, OpenRow, Building, VerifyRead, Present
<1> QED BY <1>1, <1>2, <1>3, <1>4 DEF Inv

(* A verdict changes neither status nor name. *)
LEMMA InvByVerifyRecord ==
    ASSUME Inv, NEW t \in Task, VerifyRecord(t)
    PROVE  Inv'
<1>0. /\ table' \in [Job -> Row]
      /\ \A k \in Job : table'[k].named = table[k].named /\ table'[k].status = table[k].status
  <2> DEFINE r == [table[target[t]] EXCEPT !.verdict = IF ok[t] THEN "passed" ELSE "failed"]
  <2>1. target[t] \in Job
    BY ConstAssumption DEF Inv, TypeOK, TargetShape, Job, VerifyRecord
  <2>2. table[target[t]] \in Row
    BY <2>1 DEF Inv, TypeOK
  <2>3. r \in Row /\ r.status = table[target[t]].status /\ r.named = table[target[t]].named
    BY <2>2, RowFacts
  <2>4. Update(target[t], r)
    BY DEF VerifyRecord
  <2> HIDE DEF r
  <2> QED BY <2>1, <2>3, <2>4, UpdateFacts DEF Inv
<1>1. TypeOK'
  BY ConstAssumption, <1>0 DEF Inv, TypeOK, Task, Step, VerifyRecord
<1>2. (LockShape /\ JobShape /\ TargetShape /\ DownShape
       /\ MaintenanceMeansRestore)'
  BY ConstAssumption, <1>0 DEF Inv, TypeOK, LockShape, JobShape, TargetShape, DownShape,
    MaintenanceMeansRestore, Task, Job, Building, Restoring, Step, VerifyRecord
<1>3. OpenJobs'
  BY ConstAssumption, <1>0 DEF Inv, TypeOK, JobShape, OpenJobs, Task, Job, Open, OpenRow,
    Terminal, Building, VerifyRecord
<1>4. (OkIsWhole /\ NamedWasWhole)'
  BY ConstAssumption, <1>0 DEF Inv, TypeOK, JobShape, OpenJobs, OkIsWhole, NamedWasWhole,
    Task, Job, Open, OpenRow, Building, VerifyRecord
<1> QED BY <1>1, <1>2, <1>3, <1>4 DEF Inv

(* The archive that goes was named, so no running job owns it. *)
LEMMA InvByDeleteFile ==
    ASSUME Inv, NEW t \in Task, DeleteFile(t)
    PROVE  Inv'
<1>0. PICK j \in Job :
        /\ target' = [target EXCEPT ![t] = j]
        /\ \/ table[j].named /\ file' = [file EXCEPT ![j] = "none"]
           \/ UNCHANGED file
  BY DEF DeleteFile
<1>1. TypeOK'
  <2>1. file' \in [Job -> {"none", "partial", "whole", "shredded"}]
    BY <1>0 DEF Inv, TypeOK
  <2>2. step' \in [Task -> Step] /\ target' \in [Task -> 0..MaxJobs]
    BY <1>0, ConstAssumption DEF Inv, TypeOK, Job, Step, DeleteFile
  <2>3. UNCHANGED <<table, dumped, created, old, lockVars, maintenance, up, job, sess, ok, doomed,
                    budget>>
    BY DEF DeleteFile
  <2> QED BY <2>1, <2>2, <2>3 DEF Inv, TypeOK
<1>2. (LockShape /\ JobShape /\ TargetShape /\ DownShape
       /\ MaintenanceMeansRestore)'
  <2>1. UNCHANGED <<created, lockVars, maintenance, up, job, sess>> /\ up /\ step[t] = "idle"
    BY DEF DeleteFile
  <2>2. step' = [step EXCEPT ![t] = "delrow"]
    BY DEF DeleteFile
  <2> QED BY <1>0, <2>1, <2>2, ConstAssumption DEF Inv, TypeOK, LockShape, JobShape, TargetShape,
        DownShape, MaintenanceMeansRestore, Job, Building, Restoring
<1>3. OpenJobs'
  BY ConstAssumption DEF Inv, TypeOK, JobShape, OpenJobs, Task, Job, Open, OpenRow,
    Terminal, Building, DeleteFile, Present
<1>4. (OkIsWhole /\ NamedWasWhole)'
  <2>2. table[j].named => \A u \in Task : job[u] # j
    BY DEF Inv, OpenJobs, Open, OpenRow
  <2>3. CASE UNCHANGED file
    BY <2>3 DEF Inv, OkIsWhole, NamedWasWhole, DeleteFile
  <2>4. CASE table[j].named /\ file' = [file EXCEPT ![j] = "none"]
    BY <2>2, <2>4 DEF Inv, TypeOK, OkIsWhole, NamedWasWhole, DeleteFile
  <2> QED BY <1>0, <2>3, <2>4
<1> QED BY <1>1, <1>2, <1>3, <1>4 DEF Inv

(* The archive that is overwritten was named, so no running job owns it. *)
LEMMA InvByDeleteShred ==
    ASSUME Inv, NEW t \in Task, DeleteShred(t)
    PROVE  Inv'
<1>0. PICK j \in Job :
        /\ table[j].named
        /\ target' = [target EXCEPT ![t] = j]
        /\ \/ step' = [step EXCEPT ![t] = "delrow"] /\ UNCHANGED file
           \/ step' = [step EXCEPT ![t] = "shred"] /\ file' = [file EXCEPT ![j] = "shredded"]
  BY DEF DeleteShred
<1>1. j <= created /\ \A u \in Task : job[u] # j
  BY <1>0, ConstAssumption DEF Inv, TypeOK, OpenJobs, Open, OpenRow, Job
<1>2. UNCHANGED <<table, dumped, created, old, lockVars, maintenance, up,
                  job, sess, ok, doomed, budget>>
  BY DEF DeleteShred
<1>3. TypeOK'
  <2>1. file' \in [Job -> {"none", "partial", "whole", "shredded"}]
    BY <1>0 DEF Inv, TypeOK
  <2>2. step' \in [Task -> Step]
    BY <1>0 DEF Inv, TypeOK, Step
  <2>3. target' \in [Task -> 0..MaxJobs]
    BY <1>0, ConstAssumption DEF Inv, TypeOK, Job
  <2> QED BY <1>2, <2>1, <2>2, <2>3 DEF Inv, TypeOK
<1>4. (LockShape /\ JobShape /\ TargetShape /\ DownShape /\ MaintenanceMeansRestore)'
  <2>1. up /\ step[t] = "idle"
    BY DEF DeleteShred
  <2>2. CASE step' = [step EXCEPT ![t] = "delrow"]
    BY <1>0, <1>2, <2>1, <2>2, ConstAssumption DEF Inv, TypeOK, LockShape, JobShape, TargetShape,
      DownShape, MaintenanceMeansRestore, Job, Building, Restoring
  <2>3. CASE step' = [step EXCEPT ![t] = "shred"]
    BY <1>0, <1>1, <1>2, <2>1, <2>3, ConstAssumption DEF Inv, TypeOK, LockShape, JobShape,
      TargetShape, DownShape, MaintenanceMeansRestore, Job, Building, Restoring
  <2> QED BY <1>0, <2>2, <2>3
<1>5. OpenJobs'
  BY <1>2 DEF Inv, OpenJobs, Open
<1>6. (OkIsWhole /\ NamedWasWhole)'
  <2>1. CASE step' = [step EXCEPT ![t] = "delrow"] /\ UNCHANGED file
    BY <1>2, <2>1 DEF Inv, TypeOK, OkIsWhole, NamedWasWhole
  <2>2. CASE step' = [step EXCEPT ![t] = "shred"] /\ file' = [file EXCEPT ![j] = "shredded"]
    BY <1>1, <1>2, <2>2 DEF Inv, TypeOK, OkIsWhole, NamedWasWhole
  <2> QED BY <1>0, <2>1, <2>2
<1> QED BY <1>3, <1>4, <1>5, <1>6 DEF Inv

(* The archive that goes belongs to no job under way. *)
LEMMA InvByShredded ==
    ASSUME Inv, NEW t \in Task, Shredded(t)
    PROVE  Inv'
<1>1. TypeOK'
  BY ConstAssumption DEF Inv, TypeOK, Task, Job, Step, Shredded
<1>2. (LockShape /\ JobShape /\ TargetShape /\ DownShape
       /\ MaintenanceMeansRestore)'
  BY ConstAssumption DEF Inv, TypeOK, LockShape, JobShape, TargetShape, DownShape,
    MaintenanceMeansRestore, Task, Job, Building, Restoring, Step, Shredded
<1>3. OpenJobs'
  BY ConstAssumption DEF Inv, TypeOK, JobShape, OpenJobs, Task, Job, Open, OpenRow,
    Terminal, Building, Shredded
<1>4. (OkIsWhole /\ NamedWasWhole)'
  BY ConstAssumption DEF Inv, TypeOK, JobShape, TargetShape, OpenJobs, OkIsWhole, NamedWasWhole,
    Task, Job, Open, OpenRow, Building, Shredded
<1> QED BY <1>1, <1>2, <1>3, <1>4 DEF Inv

(* Nothing changes but the task. *)
LEMMA InvByShredFails ==
    ASSUME Inv, NEW t \in Task, ShredFails(t)
    PROVE  Inv'
<1>1. TypeOK'
  BY ConstAssumption DEF Inv, TypeOK, Task, Job, Step, ShredFails
<1>2. (LockShape /\ JobShape /\ TargetShape /\ DownShape
       /\ MaintenanceMeansRestore)'
  BY ConstAssumption DEF Inv, TypeOK, LockShape, JobShape, TargetShape, DownShape,
    MaintenanceMeansRestore, Task, Job, Building, Restoring, Step, ShredFails
<1>3. OpenJobs'
  BY ConstAssumption DEF Inv, TypeOK, JobShape, OpenJobs, Task, Job, Open, OpenRow,
    Terminal, Building, ShredFails
<1>4. (OkIsWhole /\ NamedWasWhole)'
  BY ConstAssumption DEF Inv, TypeOK, JobShape, TargetShape, OpenJobs, OkIsWhole, NamedWasWhole,
    Task, Job, Open, OpenRow, Building, ShredFails
<1> QED BY <1>1, <1>2, <1>3, <1>4 DEF Inv

(* A row that goes names nothing. *)
LEMMA InvByDeleteRow ==
    ASSUME Inv, NEW t \in Task, DeleteRow(t)
    PROVE  Inv'
<1>0. /\ table' \in [Job -> Row]
      /\ \A k \in Job : table'[k] \in {table[k], NoRow}
      /\ OpenRow(NoRow) /\ NoRow.status = "absent"
  BY RowFacts DEF Inv, TypeOK, DeleteRow
<1>1. TypeOK'
  BY ConstAssumption, <1>0 DEF Inv, TypeOK, Task, Step, DeleteRow
<1>2. (LockShape /\ JobShape /\ TargetShape /\ DownShape
       /\ MaintenanceMeansRestore)'
  BY ConstAssumption, <1>0 DEF Inv, TypeOK, LockShape, JobShape, TargetShape, DownShape,
    MaintenanceMeansRestore, Task, Job, Building, Restoring, Step, DeleteRow
<1>3. OpenJobs'
  BY ConstAssumption, <1>0 DEF Inv, TypeOK, JobShape, OpenJobs, Task, Job, Open, OpenRow,
    Terminal, Building, DeleteRow
<1>4. (OkIsWhole /\ NamedWasWhole)'
  BY ConstAssumption, <1>0 DEF Inv, TypeOK, JobShape, OpenJobs, OkIsWhole, NamedWasWhole,
    Task, Job, Open, OpenRow, Building, DeleteRow
<1> QED BY <1>1, <1>2, <1>3, <1>4 DEF Inv

(* Nothing changes but the task. *)
LEMMA InvByRequestFails ==
    ASSUME Inv, NEW t \in Task, RequestFails(t)
    PROVE  Inv'
<1>1. TypeOK'
  <2>1. ok' \in [Task -> BOOLEAN]
    BY Zenon DEF Inv, TypeOK, RequestFails
  <2>2. step' \in [Task -> Step]
    BY DEF Inv, TypeOK, Step, RequestFails
  <2>3. target' \in [Task -> 0..MaxJobs]
    BY ConstAssumption DEF Inv, TypeOK, RequestFails
  <2>4. budget' \in [{"crash", "drop", "loss", "unmarked", "fault", "any"} -> Nat]
    BY DEF Inv, TypeOK, RequestFails
  <2>5. UNCHANGED <<storeVars, lockVars, maintenance, up, job, sess, doomed>>
    BY DEF RequestFails
  <2> QED BY <2>1, <2>2, <2>3, <2>4, <2>5 DEF Inv, TypeOK
<1>2. (LockShape /\ JobShape /\ TargetShape /\ DownShape
       /\ MaintenanceMeansRestore)'
  BY ConstAssumption DEF Inv, TypeOK, LockShape, JobShape, TargetShape, DownShape,
    MaintenanceMeansRestore, Task, Job, Building, Restoring, Step, RequestFails
<1>3. OpenJobs'
  BY ConstAssumption DEF Inv, TypeOK, JobShape, OpenJobs, Task, Job, Open, OpenRow,
    Terminal, Building, RequestFails
<1>4. (OkIsWhole /\ NamedWasWhole)'
  BY ConstAssumption DEF Inv, TypeOK, JobShape, TargetShape, OpenJobs, OkIsWhole, NamedWasWhole,
    Task, Job, Open, OpenRow, Building, RequestFails
<1> QED BY <1>1, <1>2, <1>3, <1>4 DEF Inv

(* The restore that sets the flag is one. *)
LEMMA InvByEnterMaintenance ==
    ASSUME Inv, NEW t \in Task, EnterMaintenance(t)
    PROVE  Inv'
<1>1. TypeOK'
  BY ConstAssumption DEF Inv, TypeOK, Task, Step, EnterMaintenance
<1>2. (LockShape /\ JobShape /\ TargetShape /\ DownShape
       /\ MaintenanceMeansRestore)'
  BY ConstAssumption DEF Inv, TypeOK, LockShape, JobShape, TargetShape, DownShape,
    MaintenanceMeansRestore, Task, Job, Building, Restoring, Step, EnterMaintenance
<1>3. OpenJobs'
  BY ConstAssumption DEF Inv, TypeOK, JobShape, OpenJobs, Task, Job, Open, OpenRow,
    Terminal, Building, EnterMaintenance
<1>4. (OkIsWhole /\ NamedWasWhole)'
  BY ConstAssumption DEF Inv, TypeOK, JobShape, OpenJobs, OkIsWhole, NamedWasWhole, Task,
    Job, Open, OpenRow, Building, EnterMaintenance
<1> QED BY <1>1, <1>2, <1>3, <1>4 DEF Inv

(* It still is. *)
LEMMA InvByExtract ==
    ASSUME Inv, NEW t \in Task, Extract(t)
    PROVE  Inv'
<1>1. TypeOK'
  BY ConstAssumption DEF Inv, TypeOK, Task, Step, Extract
<1>2. (LockShape /\ JobShape /\ TargetShape /\ DownShape
       /\ MaintenanceMeansRestore)'
  BY ConstAssumption DEF Inv, TypeOK, LockShape, JobShape, TargetShape, DownShape,
    MaintenanceMeansRestore, Task, Job, Building, Restoring, Step, Extract
<1>3. OpenJobs'
  BY ConstAssumption DEF Inv, TypeOK, JobShape, OpenJobs, Task, Job, Open, OpenRow,
    Terminal, Building, Extract
<1>4. (OkIsWhole /\ NamedWasWhole)'
  BY ConstAssumption DEF Inv, TypeOK, JobShape, OpenJobs, OkIsWhole, NamedWasWhole, Task,
    Job, Open, OpenRow, Building, Extract
<1> QED BY <1>1, <1>2, <1>3, <1>4 DEF Inv

(* The dumped table satisfies what the table does. *)
LEMMA InvByApply ==
    ASSUME Inv, NEW t \in Task, Apply(t)
    PROVE  Inv'
<1>0. target[t] \in Job /\ table' = dumped[target[t]] /\ table' \in [Job -> Row]
  BY ConstAssumption DEF Inv, TypeOK, TargetShape, Job, Apply
<1>1. TypeOK'
  BY ConstAssumption, <1>0 DEF Inv, TypeOK, LockShape, TargetShape, Task, Step, Apply
<1>2. (LockShape /\ JobShape /\ TargetShape /\ DownShape
       /\ MaintenanceMeansRestore)'
  BY ConstAssumption, <1>0 DEF Inv, TypeOK, LockShape, JobShape, TargetShape, DownShape,
    MaintenanceMeansRestore, Task, Job, Building, Restoring, Step, Apply
<1>3. OpenJobs'
  <2>1. \A j \in Job : Open(j)' <=> Open(j)
    BY DEF Open, Apply
  <2> QED BY <1>0, <2>1 DEF Inv, OpenJobs, Apply
<1>4. (OkIsWhole /\ NamedWasWhole)'
  BY ConstAssumption, <1>0 DEF Inv, TypeOK, JobShape, OpenJobs, OkIsWhole, NamedWasWhole,
    Task, Job, Open, OpenRow, Building, Apply
<1> QED BY <1>1, <1>2, <1>3, <1>4 DEF Inv

(* So does an empty one. *)
LEMMA InvByRestoreFails ==
    ASSUME Inv, NEW t \in Task, RestoreFails(t)
    PROVE  Inv'
<1>0. /\ table' \in [Job -> Row]
      /\ \A k \in Job : table'[k] \in {table[k], NoRow}
      /\ OpenRow(NoRow) /\ NoRow.status = "absent"
  BY RowFacts, TornFacts DEF Inv, TypeOK, RestoreFails
<1>1. TypeOK'
  BY ConstAssumption, <1>0 DEF Inv, TypeOK, Task, Step, RestoreFails
<1>2. (LockShape /\ JobShape /\ TargetShape /\ DownShape
       /\ MaintenanceMeansRestore)'
  BY ConstAssumption, <1>0 DEF Inv, TypeOK, LockShape, JobShape, TargetShape, DownShape,
    MaintenanceMeansRestore, Task, Job, Building, Restoring, Step, RestoreFails
<1>3. OpenJobs'
  <2>1. \A j \in Job : Open(j)' => Open(j)
    BY DEF Open, RestoreFails
  <2> QED BY <1>0, <2>1 DEF Inv, OpenJobs, OpenRow, RestoreFails
<1>4. (OkIsWhole /\ NamedWasWhole)'
  BY ConstAssumption, <1>0 DEF Inv, TypeOK, JobShape, OpenJobs, OkIsWhole, NamedWasWhole,
    Task, Job, Open, OpenRow, Building, RestoreFails
<1> QED BY <1>1, <1>2, <1>3, <1>4 DEF Inv

(* The flag is off. *)
LEMMA InvByLeaveMaintenance ==
    ASSUME Inv, NEW t \in Task, LeaveMaintenance(t)
    PROVE  Inv'
<1>1. TypeOK'
  <2>1. maintenance' \in BOOLEAN /\ up' \in BOOLEAN
    BY Zenon DEF Inv, TypeOK, LeaveMaintenance
  <2> QED BY <2>1, ConstAssumption DEF Inv, TypeOK, Task, Step, LeaveMaintenance
<1>2. (LockShape /\ JobShape /\ TargetShape /\ DownShape
       /\ MaintenanceMeansRestore)'
  BY ConstAssumption DEF Inv, TypeOK, LockShape, JobShape, TargetShape, DownShape,
    MaintenanceMeansRestore, Task, Job, Building, Restoring, Step, LeaveMaintenance
<1>3. OpenJobs'
  BY ConstAssumption DEF Inv, TypeOK, JobShape, OpenJobs, Task, Job, Open, OpenRow,
    Terminal, Building, LeaveMaintenance
<1>4. (OkIsWhole /\ NamedWasWhole)'
  BY ConstAssumption DEF Inv, TypeOK, JobShape, OpenJobs, OkIsWhole, NamedWasWhole, Task,
    Job, Open, OpenRow, Building, LeaveMaintenance
<1> QED BY <1>1, <1>2, <1>3, <1>4 DEF Inv

(* Only finished jobs are doomed. *)
LEMMA InvBySweep ==
    ASSUME Inv, NEW t \in Task, Sweep(t)
    PROVE  Inv'
<1>1. TypeOK'
  BY ConstAssumption DEF Inv, TypeOK, Task, Job, Step, Sweep, SelectPrune, Prunable, Listed
<1>2. (LockShape /\ JobShape /\ TargetShape /\ DownShape
       /\ MaintenanceMeansRestore)'
  BY ConstAssumption DEF Inv, TypeOK, LockShape, JobShape, TargetShape, DownShape,
    MaintenanceMeansRestore, Task, Job, Building, Restoring, Step, Sweep, SelectPrune,
    Prunable, Listed
<1>3. OpenJobs'
  BY ConstAssumption DEF Inv, TypeOK, JobShape, OpenJobs, Task, Job, Open, OpenRow,
    Terminal, Building, Sweep, SelectPrune, Prunable, Listed
<1>4. (OkIsWhole /\ NamedWasWhole)'
  BY ConstAssumption DEF Inv, TypeOK, JobShape, OpenJobs, OkIsWhole, NamedWasWhole, Task,
    Job, Open, OpenRow, Building, Sweep, SelectPrune, Prunable, Listed
<1> QED BY <1>1, <1>2, <1>3, <1>4 DEF Inv

(* The archive that goes was doomed, so no running job owns it. *)
LEMMA InvByPruneFile ==
    ASSUME Inv, NEW t \in Task, PruneFile(t)
    PROVE  Inv'
<1>1. TypeOK'
  BY ConstAssumption DEF Inv, TypeOK, Task, Step, PruneFile
<1>2. (LockShape /\ JobShape /\ TargetShape /\ DownShape
       /\ MaintenanceMeansRestore)'
  BY ConstAssumption DEF Inv, TypeOK, LockShape, JobShape, TargetShape, DownShape,
    MaintenanceMeansRestore, Task, Job, Building, Restoring, Step, PruneFile
<1>3. OpenJobs'
  BY ConstAssumption DEF Inv, TypeOK, JobShape, OpenJobs, Task, Job, Open, OpenRow,
    Terminal, Building, PruneFile
<1>4. (OkIsWhole /\ NamedWasWhole)'
  <2>1. Newest(doomed) \in doomed
    BY NewestIn DEF Inv, TypeOK, PruneFile
  <2>2. \A u \in Task : job[u] # Newest(doomed)
    BY <2>1 DEF Inv, TypeOK, OpenJobs, Open
  <2> QED BY <2>2 DEF Inv, TypeOK, OkIsWhole, NamedWasWhole, PruneFile
<1> QED BY <1>1, <1>2, <1>3, <1>4 DEF Inv

(* Fewer are doomed. *)
LEMMA InvByPruneSkip ==
    ASSUME Inv, NEW t \in Task, PruneSkip(t)
    PROVE  Inv'
<1>1. TypeOK'
  BY ConstAssumption DEF Inv, TypeOK, Task, Step, PruneSkip
<1>2. (LockShape /\ JobShape /\ TargetShape /\ DownShape
       /\ MaintenanceMeansRestore)'
  BY ConstAssumption DEF Inv, TypeOK, LockShape, JobShape, TargetShape, DownShape,
    MaintenanceMeansRestore, Task, Job, Building, Restoring, Step, PruneSkip
<1>3. OpenJobs'
  BY ConstAssumption DEF Inv, TypeOK, JobShape, OpenJobs, Task, Job, Open, OpenRow,
    Terminal, Building, PruneSkip
<1>4. (OkIsWhole /\ NamedWasWhole)'
  BY ConstAssumption DEF Inv, TypeOK, JobShape, OpenJobs, OkIsWhole, NamedWasWhole, Task,
    Job, Open, OpenRow, Building, PruneSkip
<1> QED BY <1>1, <1>2, <1>3, <1>4 DEF Inv

(* A row that goes names nothing. *)
LEMMA InvByPruneRow ==
    ASSUME Inv, NEW t \in Task, PruneRow(t)
    PROVE  Inv'
<1>0. /\ table' \in [Job -> Row]
      /\ \A k \in Job : table'[k] \in {table[k], NoRow}
      /\ OpenRow(NoRow) /\ NoRow.status = "absent"
  BY RowFacts DEF Inv, TypeOK, PruneRow
<1>1. TypeOK'
  BY ConstAssumption, <1>0 DEF Inv, TypeOK, Task, Step, PruneRow
<1>2. (LockShape /\ JobShape /\ TargetShape /\ DownShape
       /\ MaintenanceMeansRestore)'
  BY ConstAssumption, <1>0 DEF Inv, TypeOK, LockShape, JobShape, TargetShape, DownShape,
    MaintenanceMeansRestore, Task, Job, Building, Restoring, Step, PruneRow
<1>3. OpenJobs'
  BY ConstAssumption, <1>0 DEF Inv, TypeOK, JobShape, OpenJobs, Task, Job, Open, OpenRow,
    Terminal, Building, PruneRow
<1>4. (OkIsWhole /\ NamedWasWhole)'
  BY ConstAssumption, <1>0 DEF Inv, TypeOK, JobShape, OpenJobs, OkIsWhole, NamedWasWhole,
    Task, Job, Open, OpenRow, Building, PruneRow
<1> QED BY <1>1, <1>2, <1>3, <1>4 DEF Inv

(* Nothing is doomed any more. *)
LEMMA InvByPruneRowLost ==
    ASSUME Inv, NEW t \in Task, PruneRowLost(t)
    PROVE  Inv'
<1>1. TypeOK'
  BY ConstAssumption DEF Inv, TypeOK, Task, Step, PruneRowLost
<1>2. (LockShape /\ JobShape /\ TargetShape /\ DownShape
       /\ MaintenanceMeansRestore)'
  BY ConstAssumption DEF Inv, TypeOK, LockShape, JobShape, TargetShape, DownShape,
    MaintenanceMeansRestore, Task, Job, Building, Restoring, Step, PruneRowLost
<1>3. OpenJobs'
  BY ConstAssumption DEF Inv, TypeOK, JobShape, OpenJobs, Task, Job, Open, OpenRow,
    Terminal, Building, PruneRowLost
<1>4. (OkIsWhole /\ NamedWasWhole)'
  BY ConstAssumption DEF Inv, TypeOK, JobShape, OpenJobs, OkIsWhole, NamedWasWhole, Task,
    Job, Open, OpenRow, Building, PruneRowLost
<1> QED BY <1>1, <1>2, <1>3, <1>4 DEF Inv

(* Nothing changes. *)
LEMMA InvByPruneDone ==
    ASSUME Inv, NEW t \in Task, PruneDone(t)
    PROVE  Inv'
<1>1. TypeOK'
  BY ConstAssumption DEF Inv, TypeOK, Task, Step, PruneDone
<1>2. (LockShape /\ JobShape /\ TargetShape /\ DownShape
       /\ MaintenanceMeansRestore)'
  BY ConstAssumption DEF Inv, TypeOK, LockShape, JobShape, TargetShape, DownShape,
    MaintenanceMeansRestore, Task, Job, Building, Restoring, Step, PruneDone
<1>3. OpenJobs'
  BY ConstAssumption DEF Inv, TypeOK, JobShape, OpenJobs, Task, Job, Open, OpenRow,
    Terminal, Building, PruneDone
<1>4. (OkIsWhole /\ NamedWasWhole)'
  BY ConstAssumption DEF Inv, TypeOK, JobShape, OpenJobs, OkIsWhole, NamedWasWhole, Task,
    Job, Open, OpenRow, Building, PruneDone
<1> QED BY <1>1, <1>2, <1>3, <1>4 DEF Inv

(* The task forgets its session, the lock stays taken. *)
LEMMA InvByClientGone ==
    ASSUME Inv, NEW t \in Task, ClientGone(t)
    PROVE  Inv'
<1>0. /\ table' \in [Job -> Row]
      /\ \A k \in Job : table'[k] \in {table[k], NoRow}
      /\ OpenRow(NoRow) /\ NoRow.status = "absent"
  BY RowFacts, TornFacts DEF Inv, TypeOK, ClientGone
<1>f. /\ file' \in [Job -> {"none", "partial", "whole", "shredded"}]
      /\ \A j \in Job : \/ file'[j] = file[j]
                       \/ /\ file'[j] = "none"
                          /\ \E u \in Task : step[u] = "shred" /\ target[u] = j
  BY ShredFacts DEF Inv, ClientGone
<1>1. TypeOK'
  <2>1. maintenance' \in BOOLEAN
    BY Zenon DEF Inv, TypeOK, ClientGone
  <2>2. /\ step' \in [Task -> Step] /\ sess' \in [Task -> Session \cup {NoSession}]
        /\ job' \in [Task -> 0..MaxJobs] /\ target' \in [Task -> 0..MaxJobs]
        /\ ok' \in [Task -> BOOLEAN]
        /\ budget' \in [{"crash", "drop", "loss", "unmarked", "fault", "any"} -> Nat]
    BY ConstAssumption DEF Inv, TypeOK, Step, ClientGone
  <2>3. UNCHANGED <<dumped, created, old, holder, depth, up, doomed>>
    BY DEF ClientGone
  <2> QED BY <1>0, <1>f, <2>1, <2>2, <2>3 DEF Inv, TypeOK
<1>2. (LockShape /\ JobShape /\ TargetShape /\ DownShape
       /\ MaintenanceMeansRestore)'
  BY ConstAssumption, <1>0 DEF Inv, TypeOK, LockShape, JobShape, TargetShape, DownShape,
    MaintenanceMeansRestore, Task, Job, Building, Restoring, Step, ClientGone, Restoring
<1>3. OpenJobs'
  <2>1. \A j \in Job : Open(j)' => Open(j)
    BY ConstAssumption DEF Inv, TypeOK, Open, Task, Job, ClientGone
  <2> QED BY <1>0, <2>1 DEF Inv, OpenJobs, OpenRow, ClientGone
<1>4. (OkIsWhole /\ NamedWasWhole)'
  <2>1. NamedWasWhole'
    BY <1>0, <1>f DEF Inv, OpenRow, NamedWasWhole, ClientGone
  <2>2. ASSUME NEW u \in Task, step'[u] \in {"unlock", "mark"}, ok'[u] PROVE file'[job'[u]] = "whole"
    <3>1. u # t /\ step[u] = step'[u] /\ job'[u] = job[u] /\ ok[u]
      BY <2>2 DEF Inv, TypeOK, ClientGone
    <3>2. job[u] \in Job /\ file[job[u]] = "whole"
      BY <2>2, <3>1, ConstAssumption DEF Inv, TypeOK, JobShape, OkIsWhole, Job, Building
    <3> QED BY <1>f, <3>1, <3>2 DEF Inv, TargetShape
  <2> QED BY <2>1, <2>2 DEF OkIsWhole
<1> QED BY <1>1, <1>2, <1>3, <1>4 DEF Inv

(* The lock is free and no task believes to hold it through that session. *)
LEMMA InvBySessionLost ==
    ASSUME Inv, NEW s \in Session, SessionLost(s)
    PROVE  Inv'
<1>1. TypeOK'
  BY ConstAssumption DEF Inv, TypeOK, Task, Step, SessionLost
<1>2. (LockShape /\ JobShape /\ TargetShape /\ DownShape
       /\ MaintenanceMeansRestore)'
  BY ConstAssumption DEF Inv, TypeOK, LockShape, JobShape, TargetShape, DownShape,
    MaintenanceMeansRestore, Task, Job, Building, Restoring, Step, SessionLost
<1>3. OpenJobs'
  BY ConstAssumption DEF Inv, TypeOK, JobShape, OpenJobs, Task, Job, Open, OpenRow,
    Terminal, Building, SessionLost
<1>4. (OkIsWhole /\ NamedWasWhole)'
  BY ConstAssumption DEF Inv, TypeOK, JobShape, OpenJobs, OkIsWhole, NamedWasWhole, Task,
    Job, Open, OpenRow, Building, SessionLost
<1> QED BY <1>1, <1>2, <1>3, <1>4 DEF Inv

(* Nothing of a task survives. *)
LEMMA InvByCrash ==
    ASSUME Inv, Crash
    PROVE  Inv'
<1>0. /\ table' \in [Job -> Row]
      /\ \A k \in Job : table'[k] \in {table[k], NoRow}
      /\ OpenRow(NoRow) /\ NoRow.status = "absent"
  BY RowFacts, TornFacts DEF Inv, TypeOK, Crash
<1>f. /\ file' \in [Job -> {"none", "partial", "whole", "shredded"}]
      /\ \A j \in Job : file'[j] \in {file[j], "none"}
  BY ShredFacts DEF Inv, Crash
<1>1. TypeOK'
  <2>1. maintenance' \in BOOLEAN /\ up' \in BOOLEAN
    BY Zenon DEF Inv, TypeOK, Crash
  <2>2. ok' \in [Task -> BOOLEAN]
    BY DEF Crash
  <2> QED BY <2>1, <2>2, ConstAssumption, <1>0, <1>f DEF Inv, TypeOK, Step, Crash
<1>2. (LockShape /\ JobShape /\ TargetShape /\ DownShape
       /\ MaintenanceMeansRestore)'
  BY ConstAssumption, <1>0 DEF Inv, TypeOK, LockShape, JobShape, TargetShape, DownShape,
    MaintenanceMeansRestore, Task, Job, Building, Restoring, Step, Crash
<1>3. OpenJobs'
  <2>1. \A j \in Job : Open(j)' => Open(j)
    BY ConstAssumption DEF Open, Task, Job, Crash
  <2> QED BY <1>0, <2>1 DEF Inv, OpenJobs, OpenRow, Crash
<1>4. (OkIsWhole /\ NamedWasWhole)'
  BY <1>0, <1>f DEF Inv, OkIsWhole, NamedWasWhole, OpenRow, Crash
<1> QED BY <1>1, <1>2, <1>3, <1>4 DEF Inv

(* The sweep at startup, of all jobs or of some. *)
Swept(R) == table' = [j \in Job |-> IF j \in R THEN Recovered(table[j]) ELSE table[j]]

(* It names nothing and brings no row back. *)
LEMMA SweptFacts ==
    ASSUME TypeOK, NEW R \in SUBSET Job, Swept(R)
    PROVE  /\ table' \in [Job -> Row]
           /\ \A k \in Job : table'[k].named => table[k].named
           /\ \A k \in Job : \/ table[k].status \in {"queued", "running"}
                            \/ table'[k].status = table[k].status
<1>1. \A r \in Row : Recovered(r) \in Row
  BY RowFacts DEF Recovered, Status
<1>2. \A k \in Job : table[k] \in Row
  BY DEF TypeOK
<1>3. table' \in [Job -> Row]
  BY <1>1, <1>2 DEF Swept
<1>4. ASSUME NEW k \in Job
      PROVE  /\ table'[k].named => table[k].named
             /\ \/ table[k].status \in {"queued", "running"}
                \/ table'[k].status = table[k].status
  <2>1. table[k] \in Row /\ table'[k] \in {table[k], Recovered(table[k])}
    BY <1>2 DEF Swept
  <2>2. CASE table'[k] = table[k]
    BY <2>2
  <2>3. CASE table'[k] = Recovered(table[k]) /\ table[k].status \in {"queued", "running"}
    <3>1. table'[k] = [table[k] EXCEPT !.status = "failed"]
      BY <2>3 DEF Recovered
    <3> QED BY <2>1, <2>3, <3>1 DEF Row
  <2>4. CASE table'[k] = Recovered(table[k]) /\ table[k].status \notin {"queued", "running"}
    BY <2>4 DEF Recovered
  <2> QED BY <2>1, <2>2, <2>3, <2>4
<1> QED BY <1>3, <1>4

(* No task runs, so a row that is failed belongs to no open job. *)
LEMMA InvByRestart ==
    ASSUME Inv, Restart \/ RestartUnswept
    PROVE  Inv'
<1>0. /\ table' \in [Job -> Row]
      /\ \A k \in Job : (table'[k].named => table[k].named)
      /\ \A k \in Job : table[k].status = "absent" => table'[k].status = "absent"
      /\ \A t \in Task : job[t] = 0
  <2>1. \E R \in SUBSET Job : Swept(R)
    <3>1. CASE Restart
      <4>1. Swept(Job)
        BY <3>1 DEF Restart, Swept
      <4> QED BY <4>1
    <3>2. CASE RestartUnswept
      BY <3>2 DEF RestartUnswept, Swept
    <3> QED BY <3>1, <3>2
  <2>2. \A t \in Task : job[t] = 0
    BY DEF Inv, DownShape, JobShape, Building, Restart, RestartUnswept
  <2>3. PICK R \in SUBSET Job : Swept(R)
    BY <2>1
  <2>4. TypeOK
    BY DEF Inv
  <2>5. table' \in [Job -> Row] /\ \A k \in Job : table'[k].named => table[k].named
    BY <2>3, <2>4, SweptFacts
  <2>6. \A k \in Job : \/ table[k].status \in {"queued", "running"}
                       \/ table'[k].status = table[k].status
    BY <2>3, <2>4, SweptFacts
  <2>7. \A k \in Job : table[k].status = "absent" => table'[k].status = "absent"
    BY <2>6
  <2> QED BY <2>2, <2>5, <2>7
<1>u. UNCHANGED <<file, dumped, created, old, lockVars, maintenance, taskVars>> /\ up'
  BY DEF Restart, RestartUnswept
<1>1. TypeOK'
  <2>1. budget' \in [{"crash", "drop", "loss", "unmarked", "fault", "any"} -> Nat]
    BY DEF Inv, TypeOK, Restart, RestartUnswept
  <2>2. up' \in BOOLEAN
    BY DEF Restart, RestartUnswept
  <2> QED BY <1>0, <1>u, <2>1, <2>2 DEF Inv, TypeOK
<1>2. (LockShape /\ JobShape /\ TargetShape /\ DownShape
       /\ MaintenanceMeansRestore)'
  BY <1>u DEF Inv, LockShape, JobShape, TargetShape, DownShape, MaintenanceMeansRestore
<1>3. OpenJobs'
  <2>1. \A j \in Job : Open(j)' <=> j > created
    BY <1>0, <1>u, ConstAssumption DEF Open, Job
  <2> QED BY <1>0, <1>u, <2>1 DEF Inv, OpenJobs, Open, OpenRow, Terminal
<1>4. (OkIsWhole /\ NamedWasWhole)'
  BY <1>0, <1>u DEF Inv, OkIsWhole, NamedWasWhole
<1> QED BY <1>1, <1>2, <1>3, <1>4 DEF Inv

(* Ages matter to nothing else. *)
LEMMA InvByAge ==
    ASSUME Inv, Age
    PROVE  Inv'
<1>1. TypeOK'
  BY ConstAssumption DEF Inv, TypeOK, Task, Step, Age
<1>2. (LockShape /\ JobShape /\ TargetShape /\ DownShape
       /\ MaintenanceMeansRestore)'
  BY ConstAssumption DEF Inv, TypeOK, LockShape, JobShape, TargetShape, DownShape,
    MaintenanceMeansRestore, Task, Job, Building, Restoring, Step, Age
<1>3. OpenJobs'
  BY ConstAssumption DEF Inv, TypeOK, JobShape, OpenJobs, Task, Job, Open, OpenRow,
    Terminal, Building, Age
<1>4. (OkIsWhole /\ NamedWasWhole)'
  BY ConstAssumption DEF Inv, TypeOK, JobShape, OpenJobs, OkIsWhole, NamedWasWhole, Task,
    Job, Open, OpenRow, Building, Age
<1> QED BY <1>1, <1>2, <1>3, <1>4 DEF Inv

-----------------------------------------------------------------------------
(* The initial state satisfies the invariant. *)
LEMMA InvInit == Init => Inv
<1> SUFFICES ASSUME Init PROVE Inv
  OBVIOUS
<1>1. \A j \in Job : table[j] = NoRow /\ \A k \in Job : dumped[k][j] = NoRow
  BY RowFacts DEF Init
<1>2. TypeOK
  <2>1. maintenance \in BOOLEAN /\ up \in BOOLEAN /\ ok \in [Task -> BOOLEAN]
    BY DEF Init
  <2>2. table \in [Job -> Row] /\ dumped \in [Job -> [Job -> Row]]
    BY RowFacts DEF Init
  <2>3. budget \in [{"crash", "drop", "loss", "unmarked", "fault", "any"} -> Nat]
    BY BoundAssumption DEF Init
  <2>4. /\ file \in [Job -> {"none", "partial", "whole", "shredded"}]
        /\ created \in 0..MaxJobs /\ old \in 0..MaxJobs
        /\ holder \in Session \cup {NoSession} /\ depth \in Nat
        /\ step \in [Task -> Step]
        /\ job \in [Task -> 0..MaxJobs] /\ target \in [Task -> 0..MaxJobs]
        /\ sess \in [Task -> Session \cup {NoSession}]
        /\ doomed \in SUBSET Job
    BY ConstAssumption DEF Init, Step
  <2> QED BY <2>1, <2>2, <2>3, <2>4 DEF TypeOK
<1>3. OpenJobs /\ NamedWasWhole
  BY <1>1, RowFacts DEF Init, OpenJobs, NamedWasWhole, OpenRow
<1>4. LockShape /\ JobShape /\ TargetShape /\ DownShape /\ OkIsWhole /\ MaintenanceMeansRestore
  BY DEF Init, LockShape, JobShape, TargetShape, DownShape, OkIsWhole, MaintenanceMeansRestore,
    Building
<1> QED BY <1>2, <1>3, <1>4 DEF Inv

(* Every step preserves it. *)
LEMMA InvStep == Inv /\ [Next]_vars => Inv'
<1> SUFFICES ASSUME Inv, [Next]_vars PROVE Inv'
  OBVIOUS
<1>1. ASSUME NEW t \in Task, Progress(t) PROVE Inv'
  <2>1. CASE BackupStep(t)
    BY <2>1, InvByLock, InvByLockBusy, InvByMarkRunning, InvByDump, InvByOpenWrite,
       InvByWritten, InvByBuildFails, InvByUnlock, InvByMark
       DEF BackupStep
  <2>2. CASE RestoreStep(t)
    BY <2>2, InvByEnterMaintenance, InvByExtract, InvByApply, InvByRestoreFails,
       InvByLeaveMaintenance
       DEF RestoreStep
  <2>3. CASE PruneStep(t)
    BY <2>3, InvBySweep, InvByPruneFile, InvByPruneSkip, InvByPruneRow, InvByPruneDone
       DEF PruneStep
  <2> QED BY <1>1, <2>1, <2>2, <2>3, InvByVerifyRecord, InvByShredded, InvByShredFails,
         InvByDeleteRow DEF Progress
<1>2. ASSUME NEW t \in Task, Arrive(t) PROVE Inv'
  BY <1>2, InvByCreateBackup, InvByVerifyRead, InvByDeleteFile, InvByDeleteShred,
     InvByStartRestore DEF Arrive
<1>4. ASSUME NEW t \in Task, Trouble(t) PROVE Inv'
  BY <1>4, InvByLockFails, InvByMarkLost, InvByRequestFails, InvByStartUnsaved,
     InvByPruneRowLost, InvByClientGone DEF Trouble
<1>3. CASE UNCHANGED vars
  BY <1>3 DEF vars, Inv, TypeOK, LockShape, JobShape, TargetShape, DownShape, OpenJobs, Open,
    OkIsWhole, NamedWasWhole, MaintenanceMeansRestore
<1> QED
  BY <1>1, <1>2, <1>3, <1>4, InvByScheduledBackup, InvBySessionLost, InvByCrash, InvByRestart, InvByAge DEF Next

(* The invariant holds throughout. *)
LEMMA InvAlways == Spec => []Inv
  BY InvInit, InvStep, PTL DEF Spec

(* Every variable of Reliquary keeps its type. *)
THEOREM TypeCorrect == Spec => []TypeOK
<1>1. Inv => TypeOK
  BY DEF Inv
<1> QED BY <1>1, InvAlways, PTL

(* with_backup_lock: two tasks with a live session are never under the lock
   at once, whatever requests were dropped and whichever session the pool
   hands out. *)
THEOREM OneBuilderAlways == Spec => []OneBuilder
<1>1. Inv => OneBuilder
  BY DEF Inv, LockShape, OneBuilder
<1> QED BY <1>1, InvAlways, PTL

(* mark_succeeded: no row of the table or of a dump names an archive that is
   only partly written. *)
THEOREM NamedWasWholeAlways == Spec => []NamedWasWhole
<1>1. Inv => NamedWasWhole
  BY DEF Inv
<1> QED BY <1>1, InvAlways, PTL

(* MaintenanceGuard: maintenance mode never outlives the restores. *)
THEOREM MaintenanceEnds == Spec => []MaintenanceMeansRestore
<1>1. Inv => MaintenanceMeansRestore
  BY DEF Inv
<1> QED BY <1>1, InvAlways, PTL

(* prune_retention: in every state, what the sweep would select leaves the
   keep_last newest backups and a verified one. *)
THEOREM RetentionSafeAlways == Spec => []RetentionSafe
<1>1. TypeOK => RetentionSafe
  BY RetentionSelection
<1> QED BY <1>1, TypeCorrect, PTL

(* is_terminal: a finished job's status is final, but for a restore. *)
THEOREM TerminalStaysAlways == Spec => TerminalStays
<1>1. Inv /\ [Next]_vars => [TerminalStep]_vars
  <2> SUFFICES ASSUME Inv, Next PROVE TerminalStep
    OBVIOUS
  <2> USE DEF TerminalStep
  <2>0. UNCHANGED table => TerminalStep
    OBVIOUS
  <2>1. ASSUME NEW t \in Task, Enqueue(t) PROVE TerminalStep
    BY <2>1, ConstAssumption DEF Inv, TypeOK, OpenJobs, Job, Terminal, Enqueue
  <2>2. ASSUME NEW t \in Task, NEW r \in Row, job[t] \in Job, Update(job[t], r) PROVE TerminalStep
    BY <2>2, UpdateFacts DEF Inv, OpenJobs, Open, OpenRow
  <2>3. ASSUME NEW t \in Task, MarkRunning(t) \/ Mark(t) PROVE TerminalStep
    <3>1. job[t] \in Job
      BY <2>3, ConstAssumption DEF Inv, TypeOK, JobShape, Job, Building, MarkRunning, Mark
    <3>2. table[job[t]] \in Row
      BY <3>1 DEF Inv, TypeOK
    <3>3. /\ [table[job[t]] EXCEPT !.status = "running"] \in Row
          /\ Outcome(t) \in Row
      BY <3>2, RowFacts DEF Outcome, Status
    <3> QED BY <2>2, <2>3, <3>1, <3>3 DEF MarkRunning, Mark
  <2>4. ASSUME NEW t \in Task, VerifyRecord(t) PROVE TerminalStep
    <3> DEFINE r == [table[target[t]] EXCEPT !.verdict = IF ok[t] THEN "passed" ELSE "failed"]
    <3>1. target[t] \in Job
      BY <2>4, ConstAssumption DEF Inv, TypeOK, TargetShape, Job, VerifyRecord
    <3>2. r \in Row /\ r.status = table[target[t]].status
      BY <3>1, RowFacts DEF Inv, TypeOK
    <3>3. Update(target[t], r)
      BY <2>4 DEF VerifyRecord
    <3> HIDE DEF r
    <3> QED BY <3>1, <3>2, <3>3, UpdateFacts DEF Inv
  <2>5. (\A j \in Job : table'[j] \in {table[j], NoRow}) => TerminalStep
    BY RowFacts
  <2>6. ASSUME NEW t \in Task, DeleteRow(t) \/ PruneRow(t) \/ RestoreFails(t) \/ ClientGone(t)
        PROVE  TerminalStep
    <3>1. \A j \in Job : table'[j] \in {table[j], NoRow}
      BY <2>6, TornFacts DEF Inv, TypeOK, DeleteRow, PruneRow, RestoreFails, ClientGone
    <3> QED BY <2>5, <3>1
  <2>7. CASE Crash
    <3>1. \A j \in Job : table'[j] \in {table[j], NoRow}
      BY <2>7, TornFacts DEF Inv, Crash
    <3> QED BY <2>5, <3>1
  <2>8. CASE Restart \/ RestartUnswept
    <3>1. \E R \in SUBSET Job : Swept(R)
      <4>1. CASE Restart
        <5>1. Swept(Job)
          BY <4>1 DEF Restart, Swept
        <5> QED BY <5>1
      <4>2. CASE RestartUnswept
        BY <4>2 DEF RestartUnswept, Swept
      <4> QED BY <2>8, <4>1, <4>2
    <3>2. PICK R \in SUBSET Job : Swept(R)
      BY <3>1
    <3>3. TypeOK
      BY DEF Inv
    <3>4. \A k \in Job : \/ table[k].status \in {"queued", "running"}
                         \/ table'[k].status = table[k].status
      BY <3>2, <3>3, SweptFacts
    <3> QED BY <3>4 DEF Terminal
  <2>9. ASSUME NEW t \in Task, Apply(t) PROVE TerminalStep
    BY <2>9 DEF Inv, TypeOK, Apply
  <2>10. ASSUME NEW t \in Task, Progress(t) PROVE TerminalStep
    BY <2>0, <2>3, <2>4, <2>6, <2>9, <2>10 DEF Progress, BackupStep, RestoreStep, PruneStep, Lock,
       LockBusy, Dump, OpenWrite, Written, BuildFails, Unlock, EnterMaintenance, Extract,
       LeaveMaintenance, Sweep, PruneFile, PruneSkip, PruneDone, Shredded, ShredFails
  <2>11. ASSUME NEW t \in Task, Arrive(t) PROVE TerminalStep
    BY <2>0, <2>1, <2>11 DEF Arrive, CreateBackup, StartRestore, VerifyRead, DeleteFile, DeleteShred
  <2>12. ASSUME NEW t \in Task, Trouble(t) PROVE TerminalStep
    BY <2>0, <2>6, <2>12 DEF Trouble, LockFails, MarkLost, RequestFails, StartUnsaved, PruneRowLost
  <2>13. CASE ScheduledBackup
    BY <2>1, <2>13 DEF ScheduledBackup, Task
  <2>14. ASSUME NEW s \in Session, SessionLost(s) PROVE TerminalStep
    BY <2>0, <2>14 DEF SessionLost
  <2>15. CASE Age
    BY <2>0, <2>15 DEF Age
  <2> QED
    BY <2>6, <2>7, <2>8, <2>10, <2>11, <2>12, <2>13, <2>14, <2>15 DEF Next
<1> QED BY <1>1, InvAlways, PTL DEF Spec, TerminalStays

====
