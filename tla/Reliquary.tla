------------------------------ MODULE Reliquary ------------------------------
(***************************************************************************)
(* Backups of the control plane itself (web/src/reliquary_backup and        *)
(* web/src/routes/reliquary_backup.rs): the job table, the archives in the  *)
(* local store, MariaDB's named lock held on a pooled session, the          *)
(* scheduler's loop with its retention sweep, and the requests that create, *)
(* verify, delete and restore a backup.  Every task can be interleaved with *)
(* every other at each of its database statements and file operations.      *)
(*                                                                         *)
(* An archive holds a dump of the whole database, so also of the job table  *)
(* itself as it stood when the dump was taken; a restore puts that back.    *)
(* Jobs are numbered in the order of created_at.                            *)
(***************************************************************************)
EXTENDS Integers, FiniteSets

CONSTANTS
    Request,     \* bound: requests served at one time
    Scheduler,   \* the scheduled-backup loop
    Session,     \* the connections of the database pool
    NoSession,
    Ops,         \* which pages the requests use, and whether the schedule is enabled
    MaxJobs,     \* bound: backup jobs ever created
    KeepLast,    \* RELIQUARY_BACKUP_RETENTION_KEEP_LAST
    MaxCrashes,  \* bound: crashes of the control plane
    MaxDrops,    \* bound: request futures dropped because the client went away
    MaxLosses,   \* bound: database sessions that end
    MaxUnmarked, \* bound: failing statements that would have ended a job's row
    MaxFaults,   \* bound: other statements whose failure leaves something behind
    MaxTroubles  \* bound: all of these together

ASSUME ConstAssumption ==
    /\ Scheduler \notin Request
    /\ NoSession \notin Session
    /\ MaxJobs \in Nat /\ KeepLast \in Nat

ASSUME BoundAssumption ==
    /\ MaxCrashes \in Nat /\ MaxDrops \in Nat /\ MaxLosses \in Nat
    /\ MaxUnmarked \in Nat /\ MaxFaults \in Nat /\ MaxTroubles \in Nat

Task == Request \cup {Scheduler}
Job  == 1..MaxJobs

VARIABLES
    table,       \* reliquary_backups
    file,        \* the store: an archive per job
    dumped,      \* the job table inside the job's dump
    created,     \* jobs created so far
    old,         \* jobs 1..old are past RELIQUARY_BACKUP_RETENTION_DAYS
    holder,      \* the session that owns the named lock
    depth,       \* how often it has taken it
    maintenance, \* MaintenanceMode
    up,          \* whether the control plane runs
    step,        \* where each task is
    job,         \* the job its run_backup works on
    target,      \* the job a verify, delete or restore was asked for
    sess,        \* the session its with_backup_lock holds
    ok,          \* the outcome it is about to record
    doomed,      \* what prune_retention has still to delete
    budget       \* crashes, drops, losses and failing statements still allowed

storeVars == <<table, file, dumped, created, old>>
lockVars  == <<holder, depth>>
taskVars  == <<step, job, target, sess, ok, doomed>>
vars == <<storeVars, lockVars, maintenance, up, taskVars, budget>>

Status   == {"absent", "queued", "running", "succeeded", "failed"}
Terminal == {"succeeded", "failed"}
Row      == [status : Status, named : BOOLEAN, verdict : {"none", "passed", "failed"}]
NoRow    == [status |-> "absent", named |-> FALSE, verdict |-> "none"]
NoTable  == [j \in Job |-> NoRow]

Step == {"idle", "queued", "locked", "dump", "write", "copy", "unlock", "mark",
         "enter", "extract", "apply", "leave",
         "sweep", "prune", "prunerow", "record", "shred", "delrow"}

Present(j)   == table[j].status # "absent"
Building     == {"locked", "dump", "write", "copy", "unlock"}
Restoring    == {"extract", "apply", "leave"}

Init ==
    /\ table = NoTable
    /\ file = [j \in Job |-> "none"]
    /\ dumped = [j \in Job |-> NoTable]
    /\ created = 0 /\ old = 0
    /\ holder = NoSession /\ depth = 0
    /\ maintenance = FALSE /\ up = TRUE
    /\ step = [t \in Task |-> "idle"]
    /\ job = [t \in Task |-> 0]
    /\ target = [t \in Task |-> 0]
    /\ sess = [t \in Task |-> NoSession]
    /\ ok = [t \in Task |-> FALSE]
    /\ doomed = {}
    /\ budget = [crash |-> MaxCrashes, drop |-> MaxDrops,
                 loss |-> MaxLosses, unmarked |-> MaxUnmarked, fault |-> MaxFaults,
                 any |-> MaxTroubles]

-----------------------------------------------------------------------------
(* Statements on the job table.  An UPDATE of a row that is gone changes     *)
(* nothing.                                                                  *)

Update(j, r) == table' = IF Present(j) THEN [table EXCEPT ![j] = r] ELSE table

Goto(t, s) == step' = [step EXCEPT ![t] = s]

Spend(kind) ==
    /\ budget[kind] > 0 /\ budget["any"] > 0
    /\ budget' = [budget EXCEPT ![kind] = @ - 1, !["any"] = @ - 1]

(* The sessions no with_backup_lock has checked out.  The other statements   *)
(* borrow a connection for their own duration only.                          *)
Idle == Session \ {sess[t] : t \in Task}

-----------------------------------------------------------------------------
(* run_backup *)

(* The INSERT with which run_backup begins: it follows checks that read     *)
(* nothing a later step could change.  A restore's safety backup begins the  *)
(* same way, once the row to restore has been read.                          *)
Enqueue(t) ==
    /\ up /\ step[t] = "idle" /\ created < MaxJobs
    /\ created' = created + 1
    /\ table' = [table EXCEPT ![created + 1] =
                    [status |-> "queued", named |-> FALSE, verdict |-> "none"]]
    /\ job' = [job EXCEPT ![t] = created + 1]
    /\ Goto(t, "queued")
    /\ UNCHANGED <<file, dumped, old, lockVars, maintenance, up, sess, ok, doomed, budget>>

CreateBackup(t) ==
    /\ "backup" \in Ops /\ t \in Request
    /\ Enqueue(t)
    /\ UNCHANGED target

(* The loop's own checks come before: enabled, an interval, and due, which   *)
(* is a matter of time and may hold at any moment.                           *)
ScheduledBackup ==
    /\ "schedule" \in Ops
    /\ Enqueue(Scheduler)
    /\ UNCHANGED target

(* Mutant: the answer of GET_LOCK is not looked at. *)
LockAny(t) ==
    /\ step[t] = "queued"
    /\ \E s \in Idle : holder' = s /\ sess' = [sess EXCEPT ![t] = s]
    /\ depth' = depth + 1
    /\ Goto(t, "locked")
    /\ UNCHANGED <<storeVars, maintenance, up, job, target, ok, doomed, budget>>

(* GET_LOCK(name, 0) on any session the pool hands out.  The session that    *)
(* already owns the lock gets it again.                                      *)
Lock(t) ==
    /\ step[t] = "queued"
    /\ \E s \in Idle :
        /\ holder \in {NoSession, s}
        /\ holder' = s /\ depth' = depth + 1
        /\ sess' = [sess EXCEPT ![t] = s]
    /\ Goto(t, "locked")
    /\ UNCHANGED <<storeVars, maintenance, up, job, target, ok, doomed, budget>>

LockBusy(t) ==
    /\ step[t] = "queued"
    /\ holder # NoSession /\ Idle \ {holder} # {}
    /\ ok' = [ok EXCEPT ![t] = FALSE]
    /\ Goto(t, "mark")
    /\ UNCHANGED <<storeVars, lockVars, maintenance, up, job, target, sess, doomed, budget>>

(* No session is to be had from the pool, or the statement itself fails. *)
LockFails(t) ==
    /\ step[t] = "queued"
    /\ Spend("fault")
    /\ ok' = [ok EXCEPT ![t] = FALSE]
    /\ Goto(t, "mark")
    /\ UNCHANGED <<storeVars, lockVars, maintenance, up, job, target, sess, doomed>>

MarkRunning(t) ==
    /\ step[t] = "locked"
    /\ Update(job[t], [table[job[t]] EXCEPT !.status = "running"])
    /\ Goto(t, "dump")
    /\ UNCHANGED <<file, dumped, created, old, lockVars, maintenance, up,
                   job, target, sess, ok, doomed, budget>>

(* mariadb-dump reads one consistent state of the database. *)
Dump(t) ==
    /\ step[t] = "dump"
    /\ dumped' = [dumped EXCEPT ![job[t]] = table]
    /\ Goto(t, "write")
    /\ UNCHANGED <<table, file, created, old, lockVars, maintenance, up,
                   job, target, sess, ok, doomed, budget>>

OpenWrite(t) ==
    /\ step[t] = "write"
    /\ file' = [file EXCEPT ![job[t]] = "partial"]
    /\ Goto(t, "copy")
    /\ UNCHANGED <<table, dumped, created, old, lockVars, maintenance, up,
                   job, target, sess, ok, doomed, budget>>

Written(t) ==
    /\ step[t] = "copy"
    /\ file' = [file EXCEPT ![job[t]] = "whole"]
    /\ ok' = [ok EXCEPT ![t] = TRUE]
    /\ Goto(t, "unlock")
    /\ UNCHANGED <<table, dumped, created, old, lockVars, maintenance, up,
                   job, target, sess, doomed, budget>>

(* Any `?` of the closure under the lock.  What has been written stays.      *)
BuildFails(t) ==
    /\ step[t] \in {"locked", "dump", "write", "copy"}
    /\ ok' = [ok EXCEPT ![t] = FALSE]
    /\ Goto(t, "unlock")
    /\ UNCHANGED <<storeVars, lockVars, maintenance, up, job, target, sess, doomed, budget>>

(* Mutant: the lock is given back without asking whether the session owns it. *)
UnlockBlind(t) ==
    /\ step[t] = "unlock"
    /\ depth' = depth - 1
    /\ holder' = IF depth = 1 THEN NoSession ELSE holder
    /\ sess' = [sess EXCEPT ![t] = NoSession]
    /\ Goto(t, "mark")
    /\ UNCHANGED <<storeVars, maintenance, up, job, target, ok, doomed, budget>>

(* RELEASE_LOCK, whose error is ignored: it fails when the session has ended.*)
Unlock(t) ==
    /\ step[t] = "unlock"
    /\ IF sess[t] = NoSession
       THEN UNCHANGED lockVars
       ELSE /\ depth' = depth - 1
            /\ holder' = IF depth = 1 THEN NoSession ELSE holder
    /\ sess' = [sess EXCEPT ![t] = NoSession]
    /\ Goto(t, "mark")
    /\ UNCHANGED <<storeVars, maintenance, up, job, target, ok, doomed, budget>>

(* Where a task goes once its run_backup is over: a restore goes on whatever *)
(* the outcome of its safety backup, the scheduler prunes.                   *)
AfterBackup(t) ==
    /\ Goto(t, IF target[t] # 0 THEN "enter" ELSE IF t = Scheduler THEN "sweep" ELSE "idle")
    /\ job' = [job EXCEPT ![t] = 0]
    /\ ok' = [ok EXCEPT ![t] = FALSE]

(* Mutant: a failed job records the archive's name as well. *)
OutcomeNamed(t) ==
    [table[job[t]] EXCEPT !.status = IF ok[t] THEN "succeeded" ELSE "failed", !.named = TRUE]

Outcome(t) ==
    IF ok[t] THEN [table[job[t]] EXCEPT !.status = "succeeded", !.named = TRUE]
             ELSE [table[job[t]] EXCEPT !.status = "failed"]

Mark(t) ==
    /\ step[t] = "mark"
    /\ Update(job[t], Outcome(t))
    /\ AfterBackup(t)
    /\ UNCHANGED <<file, dumped, created, old, lockVars, maintenance, up,
                   target, sess, doomed, budget>>

(* The final UPDATE fails: run_backup returns the error, the row stays.      *)
MarkLost(t) ==
    /\ step[t] = "mark"
    /\ Spend("unmarked")
    /\ AfterBackup(t)
    /\ UNCHANGED <<storeVars, lockVars, maintenance, up, target, sess, doomed>>

-----------------------------------------------------------------------------
(* verify_quick and delete *)

(* Reads the row and the archive; only an archive that is whole has the      *)
(* recorded checksum.                                                        *)
VerifyRead(t) ==
    /\ "verify" \in Ops /\ up /\ t \in Request /\ step[t] = "idle"
    /\ \E j \in Job :
        /\ Present(j) /\ table[j].named
        /\ target' = [target EXCEPT ![t] = j]
        /\ ok' = [ok EXCEPT ![t] = file[j] = "whole"]
    /\ Goto(t, "record")
    /\ UNCHANGED <<storeVars, lockVars, maintenance, up, job, sess, doomed, budget>>

VerifyRecord(t) ==
    /\ step[t] = "record"
    /\ Update(target[t], [table[target[t]] EXCEPT !.verdict = IF ok[t] THEN "passed" ELSE "failed"])
    /\ target' = [target EXCEPT ![t] = 0]
    /\ ok' = [ok EXCEPT ![t] = FALSE]
    /\ Goto(t, "idle")
    /\ UNCHANGED <<file, dumped, created, old, lockVars, maintenance, up,
                   job, sess, doomed, budget>>

(* A row in any state may be deleted.  Its archive goes first, if the row    *)
(* names one; a failure to delete the file is only logged.                   *)
DeleteFile(t) ==
    /\ "delete" \in Ops /\ up /\ t \in Request /\ step[t] = "idle"
    /\ \E j \in Job :
        /\ Present(j)
        /\ target' = [target EXCEPT ![t] = j]
        /\ \/ table[j].named /\ file' = [file EXCEPT ![j] = "none"]
           \/ UNCHANGED file
    /\ Goto(t, "delrow")
    /\ UNCHANGED <<table, dumped, created, old, lockVars, maintenance, up,
                   job, sess, ok, doomed, budget>>

(* Deletion with shred passes: the child process begins to overwrite the     *)
(* archive; one that is already gone counts as shredded.  A destination that *)
(* cannot shred, or cannot be reached, ends the request with nothing done.   *)
DeleteShred(t) ==
    /\ "delete" \in Ops /\ up /\ t \in Request /\ step[t] = "idle"
    /\ \E j \in Job :
        /\ Present(j) /\ table[j].named
        /\ target' = [target EXCEPT ![t] = j]
        /\ \/ /\ file[j] = "none"
              /\ Goto(t, "delrow") /\ UNCHANGED file
           \/ /\ file[j] # "none"
              /\ Goto(t, "shred") /\ file' = [file EXCEPT ![j] = "shredded"]
    /\ UNCHANGED <<table, dumped, created, old, lockVars, maintenance, up,
                   job, sess, ok, doomed, budget>>

Shredded(t) ==
    /\ step[t] = "shred"
    /\ file' = [file EXCEPT ![target[t]] = "none"]
    /\ Goto(t, "delrow")
    /\ UNCHANGED <<table, dumped, created, old, lockVars, maintenance, up,
                   job, target, sess, ok, doomed, budget>>

(* shred ends with an error, some of the archive overwritten: the request    *)
(* returns it and the row stays.                                             *)
ShredFails(t) ==
    /\ step[t] = "shred"
    /\ target' = [target EXCEPT ![t] = 0]
    /\ Goto(t, "idle")
    /\ UNCHANGED <<storeVars, lockVars, maintenance, up, job, sess, ok, doomed, budget>>

(* The child of a request that is gone is not killed: it may end its work.   *)
ShredGoesOn(T) ==
    \E done \in SUBSET {t \in T : step[t] = "shred"} :
        file' = [j \in Job |-> IF \E t \in done : target[t] = j THEN "none" ELSE file[j]]

DeleteRow(t) ==
    /\ step[t] = "delrow"
    /\ table' = [table EXCEPT ![target[t]] = NoRow]
    /\ target' = [target EXCEPT ![t] = 0]
    /\ Goto(t, "idle")
    /\ UNCHANGED <<file, dumped, created, old, lockVars, maintenance, up,
                   job, sess, ok, doomed, budget>>

(* quick_verify cannot read the archive, or the UPDATE or the DELETE fails:  *)
(* the request returns the error, and the row is as it was.                  *)
RequestFails(t) ==
    /\ step[t] \in {"record", "delrow"}
    /\ Spend("fault")
    /\ target' = [target EXCEPT ![t] = 0]
    /\ ok' = [ok EXCEPT ![t] = FALSE]
    /\ Goto(t, "idle")
    /\ UNCHANGED <<storeVars, lockVars, maintenance, up, job, sess, doomed>>

-----------------------------------------------------------------------------
(* restore *)

(* The row must have a manifest and, unless the form overrides it, a passing *)
(* verdict.                                                                  *)
RestoreAsked(t) ==
    /\ "restore" \in Ops /\ t \in Request
    /\ \E j \in Job, override \in BOOLEAN :
        /\ Present(j) /\ table[j].named
        /\ table[j].verdict = "passed" \/ override
        /\ target' = [target EXCEPT ![t] = j]

(* Then the safety backup begins. *)
StartRestore(t) == RestoreAsked(t) /\ Enqueue(t)

(* Its INSERT fails.  The route does not look at what run_backup returns.    *)
StartUnsaved(t) ==
    /\ RestoreAsked(t)
    /\ up /\ step[t] = "idle"
    /\ Spend("fault")
    /\ Goto(t, "enter")
    /\ UNCHANGED <<storeVars, lockVars, maintenance, up, job, sess, ok, doomed>>

EnterMaintenance(t) ==
    /\ step[t] = "enter"
    /\ maintenance' = TRUE
    /\ Goto(t, "extract")
    /\ UNCHANGED <<storeVars, lockVars, up, job, target, sess, ok, doomed, budget>>

(* Reads the whole archive into the work directory. *)
Extract(t) ==
    /\ step[t] = "extract"
    /\ file[target[t]] = "whole"
    /\ Goto(t, "apply")
    /\ UNCHANGED <<storeVars, lockVars, maintenance, up, job, target, sess, ok, doomed, budget>>

(* The dump's own DROP, CREATE and INSERTs replace the job table.            *)
Apply(t) ==
    /\ step[t] = "apply"
    /\ table' = dumped[target[t]]
    /\ Goto(t, "leave")
    /\ UNCHANGED <<file, dumped, created, old, lockVars, maintenance, up,
                   job, target, sess, ok, doomed, budget>>

(* A load that stops halfway has not reached the job table, or has emptied   *)
(* it and not filled it again.                                               *)
Torn == table' \in {table, NoTable}

RestoreFails(t) ==
    /\ \/ step[t] = "extract" /\ UNCHANGED table
       \/ step[t] = "apply" /\ Torn
    /\ Goto(t, "leave")
    /\ UNCHANGED <<file, dumped, created, old, lockVars, maintenance, up,
                   job, target, sess, ok, doomed, budget>>

(* The drop of MaintenanceGuard. *)
LeaveMaintenance(t) ==
    /\ step[t] = "leave"
    /\ maintenance' = FALSE
    /\ target' = [target EXCEPT ![t] = 0]
    /\ Goto(t, "idle")
    /\ UNCHANGED <<storeVars, lockVars, up, job, sess, ok, doomed, budget>>

-----------------------------------------------------------------------------
(* prune_retention *)

Passing(j) == table[j].verdict = "passed"

(* What prune_retention lists: finished jobs that name an archive. *)
Listed == {j \in Job : table[j].status \in Terminal /\ table[j].named}

(* The loop's index of j, newest first, is below keep_last. *)
Recent(j) == Cardinality({k \in Listed : k > j}) < KeepLast

(* Past the keep_last newest and older than retention_days. *)
Prunable == {j \in Listed : ~Recent(j) /\ j <= old}

(* Mutant: only a backup that is alone in having passed is protected. *)
ProtectedAlone(j) == Passing(j) /\ ~ \E k \in Listed : k # j /\ Passing(k)

(* kept_a_verified_one is still FALSE when the loop comes to j: nothing that *)
(* passed is among the keep_last newest, nor has the loop met one since that *)
(* it might have pruned.                                                     *)
Protected(j) ==
    /\ Passing(j)
    /\ ~ \E k \in Listed : Recent(k) /\ Passing(k)
    /\ ~ \E k \in Prunable : k > j /\ Passing(k)

SelectPrune == {j \in Prunable : ~Protected(j)}

Sweep(t) ==
    /\ step[t] = "sweep"
    /\ doomed' = SelectPrune
    /\ Goto(t, "prune")
    /\ UNCHANGED <<storeVars, lockVars, maintenance, up, job, target, sess, ok, budget>>

Newest(S) == CHOOSE j \in S : \A k \in S : k <= j

PruneFile(t) ==
    /\ step[t] = "prune" /\ doomed # {}
    /\ file' = [file EXCEPT ![Newest(doomed)] = "none"]
    /\ Goto(t, "prunerow")
    /\ UNCHANGED <<table, dumped, created, old, lockVars, maintenance, up,
                   job, target, sess, ok, doomed, budget>>

(* The destination cannot be resolved or the file not deleted: continue. *)
PruneSkip(t) ==
    /\ step[t] = "prune" /\ doomed # {}
    /\ doomed' = doomed \ {Newest(doomed)}
    /\ UNCHANGED <<storeVars, lockVars, maintenance, up, step, job, target, sess, ok, budget>>

(* Mutant: the row goes and the selection keeps it. *)
PruneRowAgain(t) ==
    /\ step[t] = "prunerow"
    /\ table' = [table EXCEPT ![Newest(doomed)] = NoRow]
    /\ Goto(t, "prune")
    /\ UNCHANGED <<file, dumped, created, old, lockVars, maintenance, up,
                   job, target, sess, ok, doomed, budget>>

PruneRow(t) ==
    /\ step[t] = "prunerow"
    /\ table' = [table EXCEPT ![Newest(doomed)] = NoRow]
    /\ doomed' = doomed \ {Newest(doomed)}
    /\ Goto(t, "prune")
    /\ UNCHANGED <<file, dumped, created, old, lockVars, maintenance, up,
                   job, target, sess, ok, budget>>

(* The DELETE fails: prune_retention returns the error. *)
PruneRowLost(t) ==
    /\ step[t] = "prunerow"
    /\ Spend("fault")
    /\ doomed' = {}
    /\ Goto(t, "idle")
    /\ UNCHANGED <<storeVars, lockVars, maintenance, up, job, target, sess, ok>>

PruneDone(t) ==
    /\ step[t] = "prune" /\ doomed = {}
    /\ Goto(t, "idle")
    /\ UNCHANGED <<storeVars, lockVars, maintenance, up, job, target, sess, ok, doomed, budget>>

-----------------------------------------------------------------------------
(* What can go wrong around a task *)

(* Mutant: maintenance mode is left by an explicit call, not by a guard. *)
ClientGoneKeeps(t) ==
    /\ t \in Request /\ step[t] # "idle"
    /\ Spend("drop")
    /\ step' = [step EXCEPT ![t] = "idle"]
    /\ job' = [job EXCEPT ![t] = 0]
    /\ target' = [target EXCEPT ![t] = 0]
    /\ sess' = [sess EXCEPT ![t] = NoSession]
    /\ ok' = [ok EXCEPT ![t] = FALSE]
    /\ UNCHANGED <<storeVars, lockVars, maintenance, up, doomed>>

(* The request's future is dropped where it stands.  The session of          *)
(* with_backup_lock goes back to the pool without RELEASE_LOCK, so the lock  *)
(* stays; a MaintenanceGuard is dropped; kill_on_drop ends a load, not a     *)
(* shred.                                                                    *)
ClientGone(t) ==
    /\ t \in Request /\ step[t] # "idle"
    /\ Spend("drop")
    /\ IF step[t] = "apply" THEN Torn ELSE UNCHANGED table
    /\ ShredGoesOn({t})
    /\ maintenance' = IF step[t] \in Restoring THEN FALSE ELSE maintenance
    /\ step' = [step EXCEPT ![t] = "idle"]
    /\ job' = [job EXCEPT ![t] = 0]
    /\ target' = [target EXCEPT ![t] = 0]
    /\ sess' = [sess EXCEPT ![t] = NoSession]
    /\ ok' = [ok EXCEPT ![t] = FALSE]
    /\ UNCHANGED <<dumped, created, old, lockVars, up, doomed>>

(* A session ends: the pool retires an idle one, or the connection of a      *)
(* running backup is cut.  The server frees the lock it owned.               *)
SessionLost(s) ==
    /\ Spend("loss")
    /\ IF holder = s THEN holder' = NoSession /\ depth' = 0 ELSE UNCHANGED lockVars
    /\ sess' = [t \in Task |-> IF sess[t] = s THEN NoSession ELSE sess[t]]
    /\ UNCHANGED <<storeVars, maintenance, up, step, job, target, ok, doomed>>

Crash ==
    /\ up /\ Spend("crash")
    /\ up' = FALSE
    /\ IF \E t \in Task : step[t] = "apply" THEN Torn ELSE UNCHANGED table
    /\ ShredGoesOn(Task)
    /\ holder' = NoSession /\ depth' = 0
    /\ maintenance' = FALSE
    /\ step' = [t \in Task |-> "idle"]
    /\ job' = [t \in Task |-> 0]
    /\ target' = [t \in Task |-> 0]
    /\ sess' = [t \in Task |-> NoSession]
    /\ ok' = [t \in Task |-> FALSE]
    /\ doomed' = {}
    /\ UNCHANGED <<dumped, created, old>>

(* Mutants: the sweep fails every job; it forgets the queued ones. *)
RecoveredAll(r) == IF r.status # "absent" THEN [r EXCEPT !.status = "failed"] ELSE r
RecoveredRunning(r) == IF r.status = "running" THEN [r EXCEPT !.status = "failed"] ELSE r

(* recover_interrupted_jobs *)
Recovered(r) == IF r.status \in {"queued", "running"} THEN [r EXCEPT !.status = "failed"] ELSE r

(* It runs before anything is served. *)
Restart ==
    /\ ~up
    /\ up' = TRUE
    /\ table' = [j \in Job |-> Recovered(table[j])]
    /\ UNCHANGED <<file, dumped, created, old, lockVars, maintenance, taskVars, budget>>

(* One of its statements fails, after the rows of some jobs.  The error is   *)
(* logged and the control plane serves all the same.                         *)
RestartUnswept ==
    /\ ~up
    /\ Spend("unmarked")
    /\ up' = TRUE
    /\ \E swept \in SUBSET Job :
        table' = [j \in Job |-> IF j \in swept THEN Recovered(table[j]) ELSE table[j]]
    /\ UNCHANGED <<file, dumped, created, old, lockVars, maintenance, taskVars>>

Age ==
    /\ old < created
    /\ old' = old + 1
    /\ UNCHANGED <<table, file, dumped, created, lockVars, maintenance, up, taskVars, budget>>

-----------------------------------------------------------------------------
BackupStep(t) ==
    \/ Lock(t) \/ LockBusy(t) \/ MarkRunning(t) \/ Dump(t) \/ OpenWrite(t) \/ Written(t)
    \/ BuildFails(t) \/ Unlock(t) \/ Mark(t)

RestoreStep(t) ==
    \/ EnterMaintenance(t) \/ Extract(t) \/ Apply(t) \/ RestoreFails(t) \/ LeaveMaintenance(t)

PruneStep(t) == Sweep(t) \/ PruneFile(t) \/ PruneSkip(t) \/ PruneRow(t) \/ PruneDone(t)

Progress(t) ==
    \/ BackupStep(t) \/ RestoreStep(t) \/ PruneStep(t)
    \/ VerifyRecord(t) \/ Shredded(t) \/ ShredFails(t) \/ DeleteRow(t)

Arrive(t) ==
    CreateBackup(t) \/ VerifyRead(t) \/ DeleteFile(t) \/ DeleteShred(t) \/ StartRestore(t)

(* A statement of the task fails, or its client goes away. *)
Trouble(t) ==
    \/ LockFails(t) \/ MarkLost(t) \/ RequestFails(t) \/ StartUnsaved(t) \/ PruneRowLost(t)
    \/ ClientGone(t)

Next ==
    \/ \E t \in Task : Progress(t) \/ Arrive(t) \/ Trouble(t)
    \/ ScheduledBackup
    \/ \E s \in Session : SessionLost(s)
    \/ Crash \/ Restart \/ RestartUnswept \/ Age

Spec == Init /\ [][Next]_vars

(* A task that can go on does.  For the dump, the copy and the shred this is  *)
(* an assumption: the code sets them no time limit.  A supervisor restarts    *)
(* the control plane.                                                        *)
Fairness ==
    /\ WF_vars(Restart \/ RestartUnswept)
    /\ \A t \in Task : WF_vars(Progress(t))

FairSpec == Spec /\ Fairness

-----------------------------------------------------------------------------
TypeOK ==
    /\ table \in [Job -> Row]
    /\ file \in [Job -> {"none", "partial", "whole", "shredded"}]
    /\ dumped \in [Job -> [Job -> Row]]
    /\ created \in 0..MaxJobs /\ old \in 0..MaxJobs
    /\ holder \in Session \cup {NoSession} /\ depth \in Nat
    /\ maintenance \in BOOLEAN /\ up \in BOOLEAN
    /\ step \in [Task -> Step]
    /\ job \in [Task -> 0..MaxJobs] /\ target \in [Task -> 0..MaxJobs]
    /\ sess \in [Task -> Session \cup {NoSession}]
    /\ ok \in [Task -> BOOLEAN]
    /\ doomed \in SUBSET Job
    /\ budget \in [{"crash", "drop", "loss", "unmarked", "fault", "any"} -> Nat]

(* with_backup_lock: of the tasks under the lock whose session is still      *)
(* there, there is never more than one, although a dropped request leaves    *)
(* the lock with a pooled session that a later backup may be handed.         *)
OneBuilder ==
    \A t, u \in Task :
        /\ step[t] \in Building /\ sess[t] # NoSession
        /\ step[u] \in Building /\ sess[u] # NoSession
        => t = u

(* run_backup, mark_succeeded: a row, and a row inside any dump that a       *)
(* restore might bring back, never names an archive that was only partly     *)
(* written, whatever failed, was dropped, crashed or was restored meanwhile: *)
(* what is named was once whole.  It may be gone since, or overwritten by a  *)
(* shred that failed, which keeps the row.                                   *)
NamedWasWhole ==
    \A j \in Job :
        table[j].named \/ (\E k \in Job : dumped[k][j].named) => file[j] # "partial"

(* MaintenanceGuard: maintenance mode is on only while a restore is under    *)
(* way; a failed, dropped or crashed one leaves no guard behind.             *)
MaintenanceMeansRestore == maintenance => \E t \in Task : step[t] \in Restoring

(* select_prune_candidates: whatever is listed, the newest keep_last remain  *)
(* and, if a backup has passed verification, one that has passed remains.    *)
RetentionSafe ==
    LET kept == Listed \ SelectPrune
    IN  /\ \A j \in Listed : Cardinality({k \in Listed : k > j}) < KeepLast => j \in kept
        /\ (\E j \in Listed : Passing(j)) => \E j \in kept : Passing(j)

(* A finished row keeps its status or goes, or this is the load of a dump.   *)
TerminalStep ==
    \A j \in Job :
        table[j].status \in Terminal
        => \/ table'[j].status \in {table[j].status, "absent"}
           \/ \E t \in Task : step[t] = "apply" /\ step'[t] = "leave"

(* BackupStatus::is_terminal: a finished job never changes its status again, *)
(* except that a restore puts back the table of an earlier time.             *)
TerminalStays == [][TerminalStep]_vars

(* Every request and every round of the scheduler ends, also when a dropped  *)
(* request has left the lock with a pooled session: GET_LOCK does not wait.  *)
TasksEnd == \A t \in Task : step[t] # "idle" ~> step[t] = "idle"

(* A request was dropped, or the UPDATE that ends a row has failed: such a   *)
(* row keeps its status until a start of the control plane that sweeps it.   *)
RowsLeft == budget["drop"] < MaxDrops \/ budget["unmarked"] < MaxUnmarked

(* recover_interrupted_jobs: a job that some task has begun does not stay     *)
(* queued or running forever, although the control plane may crash in the    *)
(* middle of it and any other statement fail, unless a row has been left as  *)
(* above.  (A row that a restore brings back as running has no task.)        *)
JobsEnd ==
    \A j \in Job :
        (table[j].status \in {"queued", "running"} /\ \E t \in Task : job[t] = j)
        ~> (table[j].status \notin {"queued", "running"} \/ RowsLeft)

(* docs/reliquary-backups.md: the named lock "prevents two backups, or a     *)
(* backup and a restore, from running at once".                              *)
RestoreAlone ==
    \A t, u \in Task : ~(step[t] \in Restoring /\ step[u] \in Building)
====
