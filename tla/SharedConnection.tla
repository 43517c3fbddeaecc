--------------------------- MODULE SharedConnection ---------------------------
(***************************************************************************)
(* One SQLite connection for every thread (persistence/db.c).  SQLite runs *)
(* one statement at a time under the connection's recursive mutex, but a   *)
(* transaction belongs to the connection and not to the thread that opened *)
(* it.  db_begin therefore keeps the mutex until db_commit or db_rollback; *)
(* db_retry_job opens its transaction without doing so.                    *)
(*                                                                         *)
(* The HTTP thread submits single jobs and batches, purges and retries;    *)
(* the scheduler thread persists reservations, starts jobs, looks at the   *)
(* held ones and sweeps those that run too long; one watcher per execution *)
(* records how it ended.  One step is one statement.  A statement of a     *)
(* transaction, BEGIN and COMMIT may fail (disk full, the file locked by   *)
(* another process); statements outside of transactions do not.            *)
(* Statements that only set other columns of a row (reason, times,         *)
(* timeout, machine) are left out.  Which job is started when is left to   *)
(* JobLifecycle and Dispatch.                                              *)
(***************************************************************************)
EXTENDS Naturals, FiniteSets

CONSTANTS
  Solo,        \* jobs submitted one by one, with an idempotency key
  Batch,       \* the jobs of one batch
  Machines,
  Nobody,      \* no thread, no job, no machine
  MaxFaults,   \* bound on the statements that fail
  MaxCrashes   \* bound on the crashes of a behaviour

Jobs == Solo \cup Batch

ASSUME ConnectionParameters ==
  /\ Solo \cap Batch = {}
  /\ IsFiniteSet(Jobs) /\ IsFiniteSet(Machines)
  /\ Nobody \notin Jobs \cup Machines \cup {"http", "sched", "watch"}
  /\ MaxFaults \in Nat /\ MaxCrashes \in Nat

VARIABLES
  disk,      \* the database file: what a crash leaves
  view,      \* what the connection sees: disk and the open transaction
  promised,  \* history: the statements and commits that returned success
  txn,       \* SQLite's transaction: "none", "kept" (db_begin), "plain"
  active,    \* s_transaction_active
  mutex,     \* owner of the connection's mutex between statements
  changes,   \* sqlite3_changes
  queue,     \* jobs in the in-memory queue
  http,      \* HTTP thread
  sched,     \* scheduler thread
  watch,     \* watcher of each job's execution
  guest,     \* history: a statement ran inside a transaction opened for another
  stray,     \* history: db_rollback without a transaction of its own
  faults, crashes  \* failures and crashes left

connection == <<disk, view, promised, txn, active, mutex, changes>>
history == <<guest, stray>>
vars == <<disk, view, promised, txn, active, mutex, changes, queue, http, sched, watch,
          guest, stray, faults, crashes>>

-----------------------------------------------------------------------------
(* The tables, and what each statement makes of them. *)

Row == {"none", "CREATED", "QUEUED", "RUNNING", "SUCCEEDED", "FAILED", "purged"}
Terminal == {"SUCCEEDED", "FAILED"}

Database == [job : [Jobs -> Row],          \* jobs.status
             batch : BOOLEAN,              \* the batch's row in batches
             key : SUBSET Solo,            \* submission_keys
             artifacts : SUBSET Jobs,      \* jobs with rows in artifacts
             open : [Jobs -> SUBSET Machines],    \* allocations not released
             closed : [Jobs -> SUBSET Machines]]  \* allocations released

Empty == [job |-> [j \in Jobs |-> "none"], batch |-> FALSE, key |-> {}, artifacts |-> {},
          open |-> [j \in Jobs |-> {}], closed |-> [j \in Jobs |-> {}]]

SetStatus(d, j, s) == [d EXCEPT !.job[j] = IF @ = "purged" THEN @ ELSE s]

InsertKey(d, j) == [d EXCEPT !.key = @ \cup {j}]

InsertBatch(d) == [d EXCEPT !.batch = TRUE]

\* INSERT OR REPLACE on (job_id, machine_id), released_at NULL
InsertAllocation(d, j, m) ==
  [d EXCEPT !.open[j] = @ \cup {m}, !.closed[j] = @ \ {m}]

\* released_at is set on every row the job ever had.
ReleaseAllocation(d, j) ==
  [d EXCEPT !.closed[j] = @ \cup d.open[j], !.open[j] = {}]

UpsertArtifact(d, j) == [d EXCEPT !.artifacts = @ \cup {j}]

DeleteArtifacts(d, j) == [d EXCEPT !.artifacts = @ \ {j}]

DeleteKeys(d) == [d EXCEPT !.key = {j \in @ : d.job[j] \notin Terminal}]

DeleteJobs(d) == [d EXCEPT !.job = [j \in Jobs |-> IF d.job[j] \in Terminal THEN "purged" ELSE @[j]]]

\* db_recover_after_restart, one transaction before any thread starts
Recovered(d) ==
  [d EXCEPT !.job = [j \in Jobs |-> IF d.job[j] = "RUNNING" THEN "FAILED" ELSE @[j]],
            !.closed = [j \in Jobs |-> @[j] \cup d.open[j]],
            !.open = [j \in Jobs |-> {}]]

-----------------------------------------------------------------------------
(* The connection. *)

HttpIdle == [pc |-> "idle", op |-> "none", job |-> Nobody, todo |-> {}]

SchedIdle == [pc |-> "idle", job |-> Nobody, at |-> Nobody]

Init ==
  /\ disk = Empty /\ view = Empty /\ promised = Empty
  /\ txn = "none"
  /\ active = FALSE
  /\ mutex = Nobody
  /\ changes = 0
  /\ queue = {}
  /\ http = HttpIdle
  /\ sched = SchedIdle
  /\ watch = [j \in Jobs |-> "none"]
  /\ guest = FALSE /\ stray = FALSE
  /\ faults = MaxFaults
  /\ crashes = MaxCrashes

\* SQLite takes the mutex for each statement; it is recursive.
MayExec(t) == mutex \in {Nobody, t}

\* The scheduler's transaction after a stray db_rollback: open still, but
\* neither db_commit nor db_rollback will end it.
Abandoned == txn = "kept" /\ ~active

\* A statement outside of a transaction of its own thread: into the file,
\* or into whatever transaction is open.
Exec(t, new, acknowledged, n) ==
  /\ MayExec(t)
  /\ view' = new
  /\ disk' = IF txn = "none" THEN new ELSE disk
  /\ promised' = acknowledged
  /\ guest' = (guest \/ txn = "plain" \/ Abandoned)
  /\ changes' = n
  /\ UNCHANGED <<txn, active, mutex, stray, faults, crashes>>

\* A statement of the transaction of its own thread.
ExecInside(t, new, n) ==
  /\ MayExec(t)
  /\ view' = new
  /\ changes' = n
  /\ UNCHANGED <<disk, promised, txn, active, mutex, guest, stray, faults, crashes>>

\* A statement, a BEGIN or a COMMIT that fails changes nothing by itself.
Fails(t) ==
  /\ MayExec(t)
  /\ faults > 0
  /\ faults' = faults - 1

Left(t) == IF mutex = t THEN Nobody ELSE mutex

\* Fault: the mutex is given back once BEGIN has been executed.
db_begin_Unlocked(t) ==
  /\ MayExec(t)
  /\ ~active /\ txn = "none"
  /\ txn' = "kept"
  /\ active' = TRUE
  /\ UNCHANGED <<disk, view, promised, mutex, changes, guest, stray, faults, crashes>>

db_begin(t) ==
  /\ MayExec(t)
  /\ ~active /\ txn = "none"
  /\ txn' = "kept"
  /\ active' = TRUE
  /\ mutex' = t
  /\ UNCHANGED <<disk, view, promised, changes, guest, stray, faults, crashes>>

\* s_transaction_active is set, there is an open transaction, or BEGIN fails.
db_begin_fails(t) ==
  /\ \/ MayExec(t) /\ (active \/ txn # "none") /\ UNCHANGED faults
     \/ Fails(t)
  /\ UNCHANGED <<connection, history, crashes>>

db_commit(t) ==
  /\ MayExec(t)
  /\ active
  /\ disk' = view /\ promised' = view
  /\ txn' = "none"
  /\ active' = FALSE
  /\ mutex' = Left(t)
  /\ UNCHANGED <<view, changes, guest, stray, faults, crashes>>

\* Fault: the early return of a failed COMMIT keeps the mutex.
db_commit_fails_KeepsMutex(t) ==
  /\ active
  /\ Fails(t)
  /\ view' = disk
  /\ txn' = "none"
  /\ active' = FALSE
  /\ UNCHANGED <<disk, promised, mutex, changes, guest, stray, crashes>>

\* COMMIT fails: ROLLBACK, and the transaction is over as well.
db_commit_fails(t) ==
  /\ active
  /\ Fails(t)
  /\ view' = disk
  /\ txn' = "none"
  /\ active' = FALSE
  /\ mutex' = Left(t)
  /\ UNCHANGED <<disk, promised, changes, guest, stray, crashes>>

\* Neither commit nor rollback do anything when the flag is not set.
NotActive ==
  /\ ~active
  /\ UNCHANGED <<connection, history, faults, crashes>>

\* db_rollback, after its test of the flag: ROLLBACK ...
Rollback(t) ==
  /\ MayExec(t)
  /\ view' = disk
  /\ txn' = "none"
  /\ UNCHANGED <<disk, promised, active, mutex, changes, history, faults, crashes>>

\* ... then the flag is cleared and the mutex left, which has no effect on a
\* mutex that another thread holds.
RollbackLeave(t) ==
  /\ active' = FALSE
  /\ mutex' = Left(t)
  /\ stray' = (stray \/ mutex \notin {Nobody, t})
  /\ UNCHANGED <<disk, view, promised, txn, changes, guest, faults, crashes>>

-----------------------------------------------------------------------------
(* HTTP thread: one handler at a time. *)

HttpGoto(pc) == http' = [http EXCEPT !.pc = pc]

HttpDone == http' = HttpIdle

others == <<queue, sched, watch>>

\* submit_job: the row, then the key ...
SubmitInsert(j) ==
  /\ http.pc = "idle"
  /\ j \in Solo /\ view.job[j] = "none"
  /\ Exec("http", SetStatus(view, j, "QUEUED"), SetStatus(promised, j, "QUEUED"), 1)
  /\ http' = [HttpIdle EXCEPT !.pc = "key", !.job = j]
  /\ UNCHANGED others

SubmitKey ==
  /\ http.pc = "key"
  /\ Exec("http", InsertKey(view, http.job), InsertKey(promised, http.job), 1)
  /\ \/ queue' = queue \cup {http.job} /\ HttpDone
     \/ HttpGoto("hold") /\ UNCHANGED queue
  /\ UNCHANGED <<sched, watch>>

\* ... and a job that waits for files or other jobs is CREATED after all.
SubmitHold ==
  /\ http.pc = "hold"
  /\ Exec("http", SetStatus(view, http.job, "CREATED"), SetStatus(promised, http.job, "CREATED"), 1)
  /\ HttpDone
  /\ UNCHANGED others

\* batches_submit: the batch, then its jobs, in one transaction.
BatchBegin ==
  /\ http.pc = "idle"
  /\ Batch # {} /\ \A j \in Batch : view.job[j] = "none"
  /\ \/ db_begin("http") /\ http' = [HttpIdle EXCEPT !.pc = "batch", !.op = "batch", !.todo = Batch]
     \/ db_begin_fails("http") /\ http' = [HttpIdle EXCEPT !.pc = "failed", !.op = "batch"]
  /\ UNCHANGED others

BatchInsert ==
  /\ http.pc = "batch"
  /\ ExecInside("http", InsertBatch(view), 1)
  /\ HttpGoto("batch_jobs")
  /\ UNCHANGED others

BatchJob(j) ==
  /\ http.pc = "batch_jobs" /\ j \in http.todo
  /\ ExecInside("http", SetStatus(view, j, "QUEUED"), 1)
  /\ http' = [http EXCEPT !.todo = @ \ {j}]
  /\ UNCHANGED others

\* Fault: a job that cannot be inserted only ends the loop.
BatchStatementFails_Ignored ==
  /\ http.pc \in {"batch", "batch_jobs"}
  /\ http.pc = "batch_jobs" => http.todo # {}
  /\ Fails("http")
  /\ IF http.pc = "batch" THEN HttpGoto("failed") ELSE http' = [http EXCEPT !.todo = {}]
  /\ UNCHANGED <<connection, history, crashes, others>>

\* Any of the statements fails: goto transaction_failed.
BatchStatementFails ==
  /\ http.pc \in {"batch", "batch_jobs"}
  /\ http.pc = "batch_jobs" => http.todo # {}
  /\ Fails("http")
  /\ HttpGoto("failed")
  /\ UNCHANGED <<connection, history, crashes, others>>

\* Fault: the jobs are pushed before COMMIT is executed.
BatchCommit_PushesFirst ==
  /\ http.pc = "batch_jobs" /\ http.todo = {}
  /\ queue' = queue \cup Batch
  /\ \/ db_commit("http") /\ HttpDone
     \/ (db_commit_fails("http") \/ NotActive) /\ HttpGoto("failed")
  /\ UNCHANGED <<sched, watch>>

\* 201 and the pushes; a commit that fails goes to transaction_failed too.
BatchCommit ==
  /\ http.pc = "batch_jobs" /\ http.todo = {}
  /\ \/ /\ db_commit("http")
        /\ queue' = queue \cup Batch
        /\ HttpDone
     \/ (db_commit_fails("http") \/ NotActive) /\ HttpGoto("failed") /\ UNCHANGED queue
  /\ UNCHANGED <<sched, watch>>

\* db_rollback looks at the flag before it has the mutex: after a failed
\* db_begin or db_commit the flag may be another thread's.
RollbackTest ==
  /\ http.pc = "failed"
  /\ HttpGoto(IF active THEN "rollback" ELSE "answer")
  /\ UNCHANGED <<connection, history, faults, crashes, others>>

RollbackExec ==
  /\ http.pc = "rollback"
  /\ Rollback("http")
  /\ HttpGoto("leave")
  /\ UNCHANGED others

RollbackDone ==
  /\ http.pc = "leave"
  /\ RollbackLeave("http")
  /\ HttpGoto("answer")
  /\ UNCHANGED others

\* "Batch submission failed; no jobs were committed"
AnswerFailure ==
  /\ http.pc = "answer"
  /\ HttpDone
  /\ UNCHANGED <<connection, history, faults, crashes, others>>

\* db_purge_jobs: the keys of finished jobs, then the jobs.  A begin that
\* fails ends it, any other failure calls db_rollback.
PurgeBegin ==
  /\ http.pc = "idle"
  /\ \/ db_begin("http") /\ HttpGoto("purge_keys")
     \/ db_begin_fails("http") /\ UNCHANGED http
  /\ UNCHANGED others

PurgeKeys ==
  /\ http.pc = "purge_keys"
  /\ ExecInside("http", DeleteKeys(view), Cardinality(view.key \ DeleteKeys(view).key))
  /\ HttpGoto("purge_jobs")
  /\ UNCHANGED others

PurgeJobs ==
  /\ http.pc = "purge_jobs"
  /\ ExecInside("http", DeleteJobs(view), Cardinality({j \in Jobs : view.job[j] \in Terminal}))
  /\ HttpGoto("purge_commit")
  /\ UNCHANGED others

PurgeStatementFails ==
  /\ http.pc \in {"purge_keys", "purge_jobs"}
  /\ Fails("http")
  /\ HttpGoto("failed")
  /\ UNCHANGED <<connection, history, crashes, others>>

PurgeCommit ==
  /\ http.pc = "purge_commit"
  /\ \/ db_commit("http") /\ HttpDone
     \/ (db_commit_fails("http") \/ NotActive) /\ HttpGoto("failed")
  /\ UNCHANGED others

\* Fault: the retry does not ask whether an execution is registered.
RetryBegin_WhileActive(j) ==
  /\ http.pc = "idle"
  /\ view.job[j] = "FAILED"
  /\ MayExec("http") /\ txn = "none"
  /\ txn' = "plain"
  /\ http' = [HttpIdle EXCEPT !.pc = "retry_row", !.job = j]
  /\ queue' = queue \ {j}
  /\ UNCHANGED <<disk, view, promised, active, mutex, changes, history, faults, crashes, sched, watch>>

\* retry_job refuses a job that is not FAILED or has an execution; then
\* db_retry_job: BEGIN without the mutex and without the flag ...
RetryBegin(j) ==
  /\ http.pc = "idle"
  /\ view.job[j] = "FAILED" /\ watch[j] = "none"
  /\ MayExec("http") /\ txn = "none"
  /\ txn' = "plain"
  /\ http' = [HttpIdle EXCEPT !.pc = "retry_row", !.job = j]
  /\ queue' = queue \ {j}
  /\ UNCHANGED <<disk, view, promised, active, mutex, changes, history, faults, crashes, sched, watch>>

\* ... the row ...
RetryRow ==
  LET matches == view.job[http.job] = "FAILED" IN
  /\ http.pc = "retry_row"
  /\ ExecInside("http", IF matches THEN SetStatus(view, http.job, "QUEUED") ELSE view,
                IF matches THEN 1 ELSE 0)
  /\ HttpGoto("retry_changes")
  /\ UNCHANGED others

\* ... sqlite3_changes, which counts the last statement of any thread ...
RetryChanges ==
  /\ http.pc = "retry_changes"
  /\ MayExec("http")
  /\ HttpGoto(IF changes = 1 THEN "retry_artifacts" ELSE "retry_rollback")
  /\ UNCHANGED <<connection, history, faults, crashes, others>>

\* ... the artifacts of the previous execution ...
RetryArtifacts ==
  /\ http.pc = "retry_artifacts"
  /\ ExecInside("http", DeleteArtifacts(view, http.job), Cardinality(view.artifacts \cap {http.job}))
  /\ HttpGoto("retry_commit")
  /\ UNCHANGED others

RetryStatementFails ==
  /\ http.pc \in {"retry_row", "retry_artifacts", "retry_commit"}
  /\ Fails("http")
  /\ HttpGoto("retry_rollback")
  /\ UNCHANGED <<connection, history, crashes, others>>

\* ... and COMMIT; only then is the job pushed.
RetryCommit ==
  /\ http.pc = "retry_commit"
  /\ MayExec("http")
  /\ disk' = view /\ promised' = view
  /\ txn' = "none"
  /\ queue' = queue \cup {http.job}
  /\ HttpDone
  /\ UNCHANGED <<view, active, mutex, changes, history, faults, crashes, sched, watch>>

RetryRollback ==
  /\ http.pc = "retry_rollback"
  /\ Rollback("http")
  /\ HttpDone
  /\ UNCHANGED others

HttpStep ==
  \/ SubmitKey \/ SubmitHold
  \/ BatchInsert \/ (\E j \in Batch : BatchJob(j)) \/ BatchStatementFails \/ BatchCommit
  \/ RollbackTest \/ RollbackExec \/ RollbackDone \/ AnswerFailure
  \/ PurgeKeys \/ PurgeJobs \/ PurgeStatementFails \/ PurgeCommit
  \/ RetryRow \/ RetryChanges \/ RetryArtifacts \/ RetryStatementFails \/ RetryCommit
  \/ RetryRollback

-----------------------------------------------------------------------------
(* Scheduler thread: alloc_reserve persists the reservation (persist_record) *)
(* and executor_spawn writes RUNNING.                                        *)

SchedGoto(pc) == sched' = [sched EXCEPT !.pc = pc]

SchedDone == sched' = SchedIdle

PushBack == queue' = queue \cup {sched.job}

\* Fault: the reservation is persisted before its machine is filled in.
Pop_NoMachine(j) ==
  /\ sched.pc = "idle" /\ j \in queue
  /\ MayExec("sched")
  /\ queue' = queue \ {j}
  /\ IF view.job[j] = "QUEUED" THEN sched' = [SchedIdle EXCEPT !.pc = "begin", !.job = j] ELSE SchedDone
  /\ UNCHANGED <<connection, history, faults, crashes, http, watch>>

\* An entry whose row is not QUEUED is dropped.
Pop(j) ==
  /\ sched.pc = "idle" /\ j \in queue
  /\ MayExec("sched")
  /\ queue' = queue \ {j}
  /\ IF view.job[j] = "QUEUED"
     THEN \E m \in Machines : sched' = [pc |-> "begin", job |-> j, at |-> m]
     ELSE SchedDone
  /\ UNCHANGED <<connection, history, faults, crashes, http, watch>>

\* Without a transaction the reservation is undone and the job goes back.
PersistBegin ==
  /\ sched.pc = "begin"
  /\ \/ db_begin("sched") /\ SchedGoto("insert") /\ UNCHANGED queue
     \/ db_begin_fails("sched") /\ SchedDone /\ PushBack
  /\ UNCHANGED <<http, watch>>

PersistInsert ==
  /\ sched.pc = "insert"
  /\ ExecInside("sched", InsertAllocation(view, sched.job, sched.at), 1)
  /\ SchedGoto("commit")
  /\ UNCHANGED <<queue, http, watch>>

\* The insert fails: db_rollback on the transaction just opened.
PersistInsertFails ==
  /\ sched.pc = "insert"
  /\ Fails("sched")
  /\ SchedGoto(IF active THEN "rollback" ELSE "give_up")
  /\ UNCHANGED <<connection, history, crashes, queue, http, watch>>

PersistRollback ==
  /\ sched.pc = "rollback"
  /\ Rollback("sched")
  /\ SchedGoto("leave")
  /\ UNCHANGED <<queue, http, watch>>

PersistLeave ==
  /\ sched.pc = "leave"
  /\ RollbackLeave("sched")
  /\ SchedGoto("give_up")
  /\ UNCHANGED <<queue, http, watch>>

PersistGivesUp ==
  /\ sched.pc = "give_up"
  /\ SchedDone /\ PushBack
  /\ UNCHANGED <<connection, history, faults, crashes, http, watch>>

PersistCommit ==
  /\ sched.pc = "commit"
  /\ \/ db_commit("sched") /\ SchedGoto("run")
     \/ (db_commit_fails("sched") \/ NotActive) /\ SchedGoto("give_up")
  /\ UNCHANGED <<queue, http, watch>>

StartJob ==
  /\ sched.pc = "run"
  /\ Exec("sched", SetStatus(view, sched.job, "RUNNING"), SetStatus(promised, sched.job, "RUNNING"), 1)
  /\ watch' = [watch EXCEPT ![sched.job] = "status"]
  /\ SchedDone
  /\ UNCHANGED <<queue, http>>

SchedStep ==
  \/ PersistBegin \/ PersistInsert \/ PersistInsertFails \/ PersistRollback \/ PersistLeave
  \/ PersistGivesUp \/ PersistCommit \/ StartJob

-----------------------------------------------------------------------------
(* Scheduler thread, between two scans of the queue: held jobs and the      *)
(* timeout sweep, each write a statement outside of any transaction of its *)
(* own.                                                                    *)

\* A held job fails with its dependency, goes on waiting, or is released.
\* Nothing else in this module writes the row of a CREATED job.
HeldCheck(j) ==
  /\ sched.pc = "idle" /\ view.job[j] = "CREATED"
  /\ \E s \in {"FAILED", "CREATED", "QUEUED"} :
       /\ Exec("sched", SetStatus(view, j, s), SetStatus(promised, j, s), 1)
       /\ queue' = IF s = "QUEUED" THEN queue \cup {j} ELSE queue
  /\ UNCHANGED <<http, sched, watch>>

\* A row found RUNNING; its execution may be over when the sweep gets to it.
SweepLoad(j) ==
  /\ sched.pc = "idle" /\ view.job[j] = "RUNNING"
  /\ MayExec("sched")
  /\ sched' = [SchedIdle EXCEPT !.pc = "sweep", !.job = j]
  /\ UNCHANGED <<connection, history, faults, crashes, queue, http, watch>>

SweepFails(j) ==
  Exec("sched", SetStatus(view, j, "FAILED"), SetStatus(promised, j, "FAILED"),
       IF view.job[j] = "purged" THEN 0 ELSE 1)

\* executor_timeout writes FAILED in place of the watcher, unless the outcome
\* is there already; without an execution the sweep does, and releases.
SweepJob ==
  LET j == sched.job IN
  /\ sched.pc = "sweep"
  /\ \/ /\ watch[j] = "status"
        /\ SweepFails(j)
        /\ watch' = [watch EXCEPT ![j] = "artifacts"]
        /\ SchedDone
     \/ /\ watch[j] \in {"artifacts", "release"}
        /\ SchedDone
        /\ UNCHANGED <<connection, history, faults, crashes, watch>>
     \/ /\ watch[j] = "none"
        /\ SweepFails(j)
        /\ SchedGoto("sweep_release")
        /\ UNCHANGED watch
  /\ UNCHANGED <<queue, http>>

SweepRelease ==
  /\ sched.pc = "sweep_release"
  /\ Exec("sched", ReleaseAllocation(view, sched.job), ReleaseAllocation(promised, sched.job),
          Cardinality(view.open[sched.job] \cup view.closed[sched.job]))
  /\ SchedDone
  /\ UNCHANGED <<queue, http, watch>>

Periodic == (\E j \in Jobs : HeldCheck(j) \/ SweepLoad(j)) \/ SweepJob \/ SweepRelease

-----------------------------------------------------------------------------
(* Watchers: the outcome, the artifacts, the reservation, each a statement  *)
(* of its own; then the execution is unregistered.                          *)

WatchGoto(j, pc) == watch' = [watch EXCEPT ![j] = pc]

WatchStatus(j) ==
  /\ watch[j] = "status"
  /\ \E s \in Terminal : Exec("watch", SetStatus(view, j, s), SetStatus(promised, j, s),
                              IF view.job[j] = "purged" THEN 0 ELSE 1)
  /\ WatchGoto(j, "artifacts")
  /\ UNCHANGED <<queue, http, sched>>

WatchArtifacts(j) ==
  /\ watch[j] = "artifacts"
  /\ Exec("watch", UpsertArtifact(view, j), UpsertArtifact(promised, j), 1)
  /\ WatchGoto(j, "release")
  /\ UNCHANGED <<queue, http, sched>>

WatchRelease(j) ==
  /\ watch[j] = "release"
  /\ Exec("watch", ReleaseAllocation(view, j), ReleaseAllocation(promised, j),
          Cardinality(view.open[j] \cup view.closed[j]))
  /\ WatchGoto(j, "none")
  /\ UNCHANGED <<queue, http, sched>>

WatchStep(j) == WatchStatus(j) \/ WatchArtifacts(j) \/ WatchRelease(j)

-----------------------------------------------------------------------------
(* The daemon dies and comes back. *)

CrashRestart ==
  /\ crashes > 0
  /\ crashes' = crashes - 1
  /\ disk' = Recovered(disk) /\ view' = Recovered(disk) /\ promised' = Recovered(promised)
  /\ txn' = "none" /\ active' = FALSE /\ mutex' = Nobody
  /\ changes' = 0
  /\ queue' = {j \in Jobs : disk.job[j] = "QUEUED"}
  /\ http' = HttpIdle /\ sched' = SchedIdle /\ watch' = [j \in Jobs |-> "none"]
  /\ UNCHANGED <<history, faults>>

Next ==
  \/ (\E j \in Jobs : SubmitInsert(j) \/ RetryBegin(j)) \/ BatchBegin \/ PurgeBegin
  \/ HttpStep
  \/ (\E j \in Jobs : Pop(j)) \/ SchedStep \/ Periodic
  \/ \E j \in Jobs : WatchStep(j)
  \/ CrashRestart

Spec == Init /\ [][Next]_vars

-----------------------------------------------------------------------------
(* Properties. *)

\* Every variable stays within the values the C types and the tables allow.
TypeOK ==
  /\ disk \in Database /\ view \in Database /\ promised \in Database
  /\ txn \in {"none", "kept", "plain"}
  /\ active \in BOOLEAN
  /\ mutex \in {Nobody, "http", "sched"}
  /\ changes \in Nat
  /\ queue \subseteq Jobs
  /\ http \in [pc : {"idle", "key", "hold", "batch", "batch_jobs", "failed", "rollback", "leave", "answer",
                     "purge_keys", "purge_jobs", "purge_commit", "retry_row", "retry_changes",
                     "retry_artifacts", "retry_commit", "retry_rollback"},
               op : {"none", "batch"}, job : Jobs \cup {Nobody}, todo : SUBSET Batch]
  /\ sched \in [pc : {"idle", "begin", "insert", "commit", "rollback", "leave", "give_up", "run",
                      "sweep", "sweep_release"},
                job : Jobs \cup {Nobody}, at : Machines \cup {Nobody}]
  /\ watch \in [Jobs -> {"none", "status", "artifacts", "release"}]
  /\ guest \in BOOLEAN /\ stray \in BOOLEAN
  /\ faults \in Nat /\ crashes \in Nat

Present(d, j) == d.job[j] \notin {"none", "purged"}

(* "Either the batch and all jobs are committed, or none are"              *)
(* (doc/api-reference.md:292), and a purge takes keys and jobs together    *)
(* (db.c:1182): the file never holds part of either, whatever statement    *)
(* fails, whoever rolls back and whenever the daemon dies.                 *)
AllOrNothing ==
  /\ \A j \in Batch : disk.batch <=> disk.job[j] # "none"
  /\ \A j \in disk.key : Present(disk, j)

(* A write that was acknowledged reaches the file, unless it ran in a      *)
(* transaction opened for another one: db_retry_job's (db.c:379), or the   *)
(* one that a db_rollback on another thread's flag (db.c:322) made the     *)
(* scheduler leave open, where its own later writes go.  No rollback takes *)
(* anything else with it.                                                  *)
OnlyGuestsLose == guest \/ disk = promised

Inside == [http |-> {"batch", "batch_jobs", "purge_keys", "purge_jobs", "purge_commit",
                     "failed", "rollback", "leave"},
           sched |-> {"insert", "commit", "rollback", "leave"}]

(* Nobody keeps the connection: on every path, with every failure, the     *)
(* mutex taken by db_begin is given back before the thread does anything   *)
(* else, unless a stray db_rollback cleared the flag that the scheduler's  *)
(* db_commit looks at (db.c:293-327).                                      *)
ConnectionIsFreed ==
  /\ mutex = "http" => http.pc \in Inside.http
  /\ mutex = "sched" => stray \/ sched.pc \in Inside.sched

(* The answer to a batch is true: jobs are handed to the queue only when   *)
(* they are in the file, and "no jobs were committed" (batches.c:176) is   *)
(* only said when none are.                                                *)
BatchAnswerIsTrue ==
  /\ queue \cap Batch # {} => disk.batch
  /\ http.pc = "answer" /\ http.op = "batch" => ~disk.batch

(* A retried job starts without the artifacts of its previous execution:   *)
(* the watcher registers them before it unregisters the execution, and the *)
(* retry deletes them in the transaction that makes the row QUEUED         *)
(* (executor.c:979, routes.c:2294, db.c:398).  Only writes made inside the *)
(* transaction of another can break this.                                  *)
QueuedWithoutArtifacts ==
  \A j \in Jobs : disk.job[j] = "QUEUED" => guest \/ j \notin disk.artifacts

(* "persist releases transactionally" (doc/v1-scope.md:34): what a thread  *)
(* was told is stored is in the file once no transaction is open.          *)
AcknowledgedIsDurable == txn = "none" => disk = promised

=============================================================================
