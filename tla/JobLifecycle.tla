---------------------------- MODULE JobLifecycle ----------------------------
(***************************************************************************)
(* The life of a job between POST /jobs and the end of its process: the    *)
(* row in SQLite, the entry in the in-memory queue, the scheduler thread   *)
(* that dispatches it (scheduler.c), the execution with its launcher and   *)
(* watcher threads (executor.c), the HTTP thread that submits, cancels and *)
(* retries it (routes.c), shutdown (main.c) and a crash of the daemon.     *)
(*                                                                         *)
(* One step is one SQLite statement, one critical section of the queue or  *)
(* of s_active_lock, or one read or write of a Job object another thread   *)
(* may touch.  Jobs are never held here (CREATED is a state of its own     *)
(* component), and queue order, quotas and machines are left to others:    *)
(* the scheduler takes any queued entry and finds room or does not.        *)
(***************************************************************************)
EXTENDS Naturals, FiniteSets

CONSTANTS
  Jobs,          \* job identifiers
  Execs,         \* ActiveExecution objects that can exist at once
  NoJob, NoExec, \* "no such object"
  MaxCancels,    \* bound on the cancel requests of a behaviour
  MaxRetries,    \* bound on the retry requests of a behaviour
  MaxTimeouts,   \* bound on the timeout sweeps that find an expired job
  MaxRestarts    \* bound on the times the daemon comes back

ASSUME Identifiers == NoJob \notin Jobs /\ NoExec \notin Execs

ASSUME Bounds == {MaxCancels, MaxRetries, MaxTimeouts, MaxRestarts} \subseteq Nat

VARIABLES
  phase,    \* where main() is: serving, one of the stages of a stop, gone
  db,       \* jobs.status, "none" when there is no row
  queue,    \* bag of queue entries <<job, status of the entry's Job object>>
  sched,    \* scheduler thread: program counter and locals
  http,     \* HTTP thread: program counter and locals
  exec,     \* s_active: execution objects with their thread and process
  lock,     \* s_active_lock while active_request_termination holds it
  alloc,    \* jobs with an active reservation in the allocator
  orphans,  \* jobs with a process that outlived the daemon
  budget    \* requests left, the bounds of the model

vars == <<phase, db, queue, sched, http, exec, lock, alloc, orphans, budget>>

-----------------------------------------------------------------------------
(* Job states (job.c). *)

Terminal == {"SUCCEEDED", "FAILED", "CANCELLED"}

Status == Terminal \cup {"CREATED", "QUEUED", "RUNNING"}

transition_allowed(from, to) ==
  \/ from = "CREATED" /\ to \in {"QUEUED", "CANCELLED"}
  \/ from = "QUEUED"  /\ to \in {"RUNNING", "FAILED", "CANCELLED"}
  \/ from = "RUNNING" /\ to \in Terminal

-----------------------------------------------------------------------------
(* The in-memory queue: priority order is the business of JobQueue. *)

Entries == Jobs \X Status

InQueue(j) == {q \in Entries : q[1] = j /\ queue[q] > 0}

Pushed(j, mem) == [queue EXCEPT ![<<j, mem>>] = @ + 1]

Removed(q) == [queue EXCEPT ![q] = @ - 1]

EmptyQueue == [q \in Entries |-> 0]

-----------------------------------------------------------------------------
(* Execution objects.  pc is the position of whichever thread works on the *)
(* object: executor_spawn, then the launcher, then the watcher.            *)

FreeExec == [job |-> NoJob, pc |-> "free", mem |-> "QUEUED", term |-> "no",
             proc |-> "none", pid |-> FALSE, out |-> "FAILED"]

Active(e) == exec[e].pc # "free"

ActiveFor(j) == {e \in Execs : Active(e) /\ exec[e].job = j}

\* kill(): a live process ends; one that has ended is not affected.
Killed(x) == IF x.proc = "alive" THEN [x EXCEPT !.proc = "exit1"] ELSE x

Unlocked == [by |-> "nobody", exec |-> NoExec, to |-> "FAILED", set |-> FALSE]

SchedIdle == [pc |-> "idle", job |-> NoJob, mem |-> "QUEUED",
              exec |-> NoExec, todo |-> {}]

HttpIdle == [pc |-> "idle", job |-> NoJob, mem |-> "QUEUED"]

Init ==
  /\ phase = "up"
  /\ db = [j \in Jobs |-> "none"]
  /\ queue = EmptyQueue
  /\ sched = SchedIdle
  /\ http = HttpIdle
  /\ exec = [e \in Execs |-> FreeExec]
  /\ lock = Unlocked
  /\ alloc = {}
  /\ orphans = {}
  /\ budget = [cancels |-> MaxCancels, retries |-> MaxRetries,
               timeouts |-> MaxTimeouts, restarts |-> MaxRestarts]

-----------------------------------------------------------------------------
(* active_request_termination: find the execution, set the request flag    *)
(* and test job->status under the lock (TermBegin); write the status to    *)
(* the object and the row, unlock and signal the process (TermCommit).     *)
(* The lock does not stop the threads that write job->status without it.   *)

TermBegin(by, e, status) ==
  /\ lock = Unlocked
  /\ lock' = [by |-> by, exec |-> e, to |-> status,
              set |-> exec[e].term = "no" /\ exec[e].mem \in {"QUEUED", "RUNNING"}]
  /\ exec' = [exec EXCEPT ![e].term = IF @ = "no" THEN status ELSE @]

TermCommit(by) ==
  LET e == lock.exec
      x == IF lock.set THEN [exec[e] EXCEPT !.mem = lock.to] ELSE exec[e]
  IN  /\ lock.by = by
      /\ exec' = [exec EXCEPT ![e] = IF x.pid THEN Killed(x) ELSE x]
      /\ db' = IF lock.set THEN [db EXCEPT ![x.job] = lock.to] ELSE db
      /\ lock' = Unlocked

-----------------------------------------------------------------------------
(* HTTP thread: one handler at a time. *)

HttpGoto(pc) == http' = [http EXCEPT !.pc = pc]

HttpDone == http' = HttpIdle

\* submit_job: db_insert_job writes the row, queue_push comes later.
SubmitInsert(j) ==
  /\ phase = "up" /\ http.pc = "idle"
  /\ db[j] = "none"
  /\ db' = [db EXCEPT ![j] = "QUEUED"]
  /\ http' = [pc |-> "submit_push", job |-> j, mem |-> "QUEUED"]
  /\ UNCHANGED <<phase, queue, sched, exec, lock, alloc, orphans, budget>>

SubmitPush ==
  /\ http.pc = "submit_push"
  /\ queue' = Pushed(http.job, http.mem)
  /\ HttpDone
  /\ UNCHANGED <<phase, db, sched, exec, lock, alloc, orphans, budget>>

\* cancel_job: 409 for a terminal row.
CancelCheck(j) ==
  /\ phase = "up" /\ http.pc = "idle"
  /\ budget.cancels > 0
  /\ db[j] \notin Terminal \cup {"none"}
  /\ http' = [HttpIdle EXCEPT !.pc = "cancel_queue", !.job = j]
  /\ budget' = [budget EXCEPT !.cancels = @ - 1]
  /\ UNCHANGED <<phase, db, queue, sched, exec, lock, alloc, orphans>>

\* scheduler_cancel_job: an entry still in the queue is taken out ...
CancelQueue ==
  /\ http.pc = "cancel_queue"
  /\ \/ \E q \in InQueue(http.job) :
          /\ queue' = Removed(q)
          /\ http' = [http EXCEPT !.pc = "cancel_entry", !.mem = q[2]]
     \/ /\ InQueue(http.job) = {}
        /\ HttpGoto("cancel_active")
        /\ UNCHANGED queue
  /\ UNCHANGED <<phase, db, sched, exec, lock, alloc, orphans, budget>>

\* ... and its Job object decides whether CANCELLED is written to the row;
CancelEntry ==
  /\ http.pc = "cancel_entry"
  /\ db' = IF transition_allowed(http.mem, "CANCELLED")
           THEN [db EXCEPT ![http.job] = "CANCELLED"] ELSE db
  /\ HttpDone
  /\ UNCHANGED <<phase, queue, sched, exec, lock, alloc, orphans, budget>>

\* an active execution is terminated (executor_cancel);
CancelActive ==
  /\ http.pc = "cancel_active"
  /\ \/ \E e \in ActiveFor(http.job) :
          TermBegin("http", e, "CANCELLED") /\ HttpGoto("cancel_term")
     \/ /\ lock = Unlocked /\ ActiveFor(http.job) = {}
        /\ HttpGoto("cancel_db")
        /\ UNCHANGED <<exec, lock>>
  /\ UNCHANGED <<phase, db, queue, sched, alloc, orphans, budget>>

CancelTerm ==
  /\ http.pc = "cancel_term"
  /\ TermCommit("http")
  /\ HttpDone
  /\ UNCHANGED <<phase, queue, sched, alloc, orphans, budget>>

\* otherwise the row is read, and a job that waits is cancelled on a copy.
CancelRead ==
  /\ http.pc = "cancel_db"
  /\ IF db[http.job] \in {"CREATED", "QUEUED"}
     THEN HttpGoto("cancel_write") ELSE HttpDone
  /\ UNCHANGED <<phase, db, queue, sched, exec, lock, alloc, orphans, budget>>

CancelWrite ==
  /\ http.pc = "cancel_write"
  /\ db' = [db EXCEPT ![http.job] = "CANCELLED"]
  /\ HttpDone
  /\ UNCHANGED <<phase, queue, sched, exec, lock, alloc, orphans, budget>>

\* retry_job: only a FAILED or CANCELLED row, ...
RetryCheck(j) ==
  /\ phase = "up" /\ http.pc = "idle"
  /\ budget.retries > 0
  /\ db[j] \in {"FAILED", "CANCELLED"}
  /\ http' = [HttpIdle EXCEPT !.pc = "retry_active", !.job = j]
  /\ budget' = [budget EXCEPT !.retries = @ - 1]
  /\ UNCHANGED <<phase, db, queue, sched, exec, lock, alloc, orphans>>

\* Fault: the retry does not ask whether an execution is registered.
RetryActive_Unchecked ==
  /\ http.pc = "retry_active"
  /\ HttpGoto("retry_remove")
  /\ UNCHANGED <<phase, db, queue, sched, exec, lock, alloc, orphans, budget>>

\* ... only when no execution of it is registered (executor_is_active);
RetryActive ==
  /\ http.pc = "retry_active"
  /\ lock = Unlocked
  /\ IF ActiveFor(http.job) # {} THEN HttpDone ELSE HttpGoto("retry_remove")
  /\ UNCHANGED <<phase, db, queue, sched, exec, lock, alloc, orphans, budget>>

RetryRemove ==
  /\ http.pc = "retry_remove"
  /\ \/ \E q \in InQueue(http.job) : queue' = Removed(q)
     \/ InQueue(http.job) = {} /\ UNCHANGED queue
  /\ HttpGoto("retry_db")
  /\ UNCHANGED <<phase, db, sched, exec, lock, alloc, orphans, budget>>

\* db_retry_job updates the row only if it still is FAILED or CANCELLED.
RetryDb ==
  /\ http.pc = "retry_db"
  /\ \/ /\ db[http.job] \in {"FAILED", "CANCELLED"}
        /\ db' = [db EXCEPT ![http.job] = "QUEUED"]
        /\ HttpGoto("retry_load")
     \/ /\ db[http.job] \notin {"FAILED", "CANCELLED"}
        /\ HttpDone
        /\ UNCHANGED db
  /\ UNCHANGED <<phase, queue, sched, exec, lock, alloc, orphans, budget>>

\* db_get_job builds the entry from the row as it is now ...
RetryLoad ==
  /\ http.pc = "retry_load"
  /\ http' = [http EXCEPT !.pc = "retry_push", !.mem = db[http.job]]
  /\ UNCHANGED <<phase, db, queue, sched, exec, lock, alloc, orphans, budget>>

RetryPush ==
  /\ http.pc = "retry_push"
  /\ queue' = Pushed(http.job, http.mem)
  /\ HttpDone
  /\ UNCHANGED <<phase, db, sched, exec, lock, alloc, orphans, budget>>

Http ==
  \/ SubmitPush
  \/ CancelQueue \/ CancelEntry \/ CancelActive \/ CancelTerm \/ CancelRead \/ CancelWrite
  \/ RetryActive \/ RetryRemove \/ RetryDb \/ RetryLoad \/ RetryPush

-----------------------------------------------------------------------------
(* Scheduler thread: one job in hand at a time. *)

SchedGoto(pc) == sched' = [sched EXCEPT !.pc = pc]

SchedDone == sched' = SchedIdle

Running == phase \in {"up", "http_stop"}   \* s_running

\* Fault: the heap is popped without a look at its size.
Pop_Underflow(q) ==
  /\ Running /\ sched.pc = "idle"
  /\ queue' = [queue EXCEPT ![q] = @ - 1]
  /\ sched' = [SchedIdle EXCEPT !.pc = "popped", !.job = q[1], !.mem = q[2]]
  /\ UNCHANGED <<phase, db, http, exec, lock, alloc, orphans, budget>>

\* queue_try_pop
Pop(q) ==
  /\ Running /\ sched.pc = "idle"
  /\ queue[q] > 0
  /\ queue' = Removed(q)
  /\ sched' = [SchedIdle EXCEPT !.pc = "popped", !.job = q[1], !.mem = q[2]]
  /\ UNCHANGED <<phase, db, http, exec, lock, alloc, orphans, budget>>

\* "The database is authoritative": a stale entry is dropped.
PopRecheck ==
  /\ sched.pc = "popped"
  /\ IF db[sched.job] = "QUEUED" THEN SchedGoto("fit") ELSE SchedDone
  /\ UNCHANGED <<phase, db, queue, http, exec, lock, alloc, orphans, budget>>

\* Fault: "continue" without queue_push.
Blocked_Dropped ==
  /\ sched.pc = "fit"
  /\ SchedDone
  /\ UNCHANGED <<phase, db, queue, http, exec, lock, alloc, orphans, budget>>

\* Quota, capacity or an offline machine send the entry back to the queue.
Blocked ==
  /\ sched.pc = "fit"
  /\ queue' = Pushed(sched.job, sched.mem)
  /\ SchedDone
  /\ UNCHANGED <<phase, db, http, exec, lock, alloc, orphans, budget>>

\* alloc_reserve refuses a job that has a reservation (alloc_record_acquire).
Reserve ==
  /\ sched.pc = "fit"
  /\ sched.job \notin alloc
  /\ alloc' = alloc \cup {sched.job}
  /\ SchedGoto("dispatch")
  /\ UNCHANGED <<phase, db, queue, http, exec, lock, orphans, budget>>

\* Fault: the early return of scheduler_dispatch forgets alloc_release.
Dispatch_Leaks ==
  /\ sched.pc = "dispatch"
  /\ IF db[sched.job] = "QUEUED" THEN SchedGoto("register") ELSE SchedDone
  /\ UNCHANGED <<phase, db, queue, http, exec, lock, alloc, orphans, budget>>

\* scheduler_dispatch
Dispatch ==
  /\ sched.pc = "dispatch"
  /\ \/ /\ db[sched.job] = "QUEUED"
        /\ SchedGoto("register")
        /\ UNCHANGED alloc
     \/ /\ db[sched.job] # "QUEUED"
        /\ alloc' = alloc \ {sched.job}
        /\ SchedDone
  /\ UNCHANGED <<phase, db, queue, http, exec, lock, orphans, budget>>

\* executor_spawn: active_register ...
Register(e) ==
  /\ sched.pc = "register"
  /\ lock = Unlocked
  /\ ~Active(e)
  /\ exec' = [exec EXCEPT ![e] =
                [FreeExec EXCEPT !.job = sched.job, !.pc = "spawn", !.mem = sched.mem]]
  /\ sched' = [sched EXCEPT !.pc = "recheck", !.exec = e]
  /\ UNCHANGED <<phase, db, queue, http, lock, alloc, orphans, budget>>

\* ... or no memory for the execution object: "Executor unavailable".
RegisterFails ==
  /\ sched.pc = "register"
  /\ db' = IF transition_allowed(sched.mem, "FAILED")
           THEN [db EXCEPT ![sched.job] = "FAILED"] ELSE db
  /\ alloc' = alloc \ {sched.job}
  /\ SchedDone
  /\ UNCHANGED <<phase, queue, http, exec, lock, orphans, budget>>

\* The row is read again now that a cancellation can find the execution.
SpawnRecheck ==
  /\ sched.pc = "recheck"
  /\ SchedGoto(IF db[sched.job] = "QUEUED" THEN "dirs" ELSE "abandon")
  /\ UNCHANGED <<phase, db, queue, http, exec, lock, alloc, orphans, budget>>

\* store_init_job_dirs fails: FAILED, if job->status allows it, and give up;
SpawnNoDirs ==
  /\ sched.pc = "dirs"
  /\ SchedGoto(IF transition_allowed(exec[sched.exec].mem, "FAILED") THEN "fail" ELSE "abandon")
  /\ UNCHANGED <<phase, db, queue, http, exec, lock, alloc, orphans, budget>>

SpawnFail ==
  /\ sched.pc = "fail"
  /\ exec' = [exec EXCEPT ![sched.exec].mem = "FAILED"]
  /\ db' = [db EXCEPT ![sched.job] = "FAILED"]
  /\ SchedGoto("abandon")
  /\ UNCHANGED <<phase, queue, http, lock, alloc, orphans, budget>>

\* the early returns of executor_spawn: release, unregister, free.
SpawnAbandon ==
  /\ sched.pc = "abandon"
  /\ lock = Unlocked
  /\ exec' = [exec EXCEPT ![sched.exec] = FreeExec]
  /\ alloc' = alloc \ {sched.job}
  /\ SchedDone
  /\ UNCHANGED <<phase, db, queue, http, lock, orphans, budget>>

\* Otherwise job_set_status(RUNNING) tests job->status ...
SpawnCheck ==
  /\ sched.pc = "dirs"
  /\ SchedGoto(IF transition_allowed(exec[sched.exec].mem, "RUNNING") THEN "run" ELSE "abandon")
  /\ UNCHANGED <<phase, db, queue, http, exec, lock, alloc, orphans, budget>>

\* ... and writes the object and the row.
SpawnRun ==
  /\ sched.pc = "run"
  /\ exec' = [exec EXCEPT ![sched.exec].mem = "RUNNING"]
  /\ db' = [db EXCEPT ![sched.job] = "RUNNING"]
  /\ SchedGoto("started")
  /\ UNCHANGED <<phase, queue, http, lock, alloc, orphans, budget>>

\* finish_without_process on the scheduler thread, which waits for it.
SpawnGivesUp ==
  /\ exec' = [exec EXCEPT ![sched.exec].pc = "settle", ![sched.exec].out = "FAILED"]
  /\ SchedGoto("finish")

\* db_update_job_started writes RUNNING once more, whatever the row says.
SpawnStarted ==
  /\ sched.pc = "started"
  /\ \/ /\ db' = [db EXCEPT ![sched.job] = "RUNNING"]
        /\ SchedGoto("launch")
        /\ UNCHANGED exec
     \/ SpawnGivesUp /\ UNCHANGED db
  /\ UNCHANGED <<phase, queue, http, lock, alloc, orphans, budget>>

SpawnLaunch ==
  /\ sched.pc = "launch"
  /\ \/ exec' = [exec EXCEPT ![sched.exec].pc = "launch"] /\ SchedDone
     \/ SpawnGivesUp
  /\ UNCHANGED <<phase, db, queue, http, lock, alloc, orphans, budget>>

SpawnFinished ==
  /\ sched.pc = "finish"
  /\ ~Active(sched.exec)
  /\ SchedDone
  /\ UNCHANGED <<phase, db, queue, http, exec, lock, alloc, orphans, budget>>

\* scheduler_check_timeouts: a snapshot of the RUNNING rows that are due, ...
TimeoutScan(S) ==
  /\ Running /\ sched.pc = "idle"
  /\ budget.timeouts > 0
  /\ S # {} /\ \A j \in S : db[j] = "RUNNING"
  /\ sched' = [SchedIdle EXCEPT !.pc = "timeout", !.todo = S]
  /\ budget' = [budget EXCEPT !.timeouts = @ - 1]
  /\ UNCHANGED <<phase, db, queue, http, exec, lock, alloc, orphans>>

\* ... each of them terminated, or else failed in the database.
TimeoutJob(j) ==
  /\ sched.pc = "timeout" /\ j \in sched.todo
  /\ \/ \E e \in ActiveFor(j) :
          /\ TermBegin("sched", e, "FAILED")
          /\ sched' = [sched EXCEPT !.pc = "timeout_term", !.todo = @ \ {j}]
     \/ /\ lock = Unlocked /\ ActiveFor(j) = {}
        /\ sched' = [sched EXCEPT !.pc = "timeout_db", !.job = j, !.todo = @ \ {j}]
        /\ UNCHANGED <<exec, lock>>
  /\ UNCHANGED <<phase, db, queue, http, alloc, orphans, budget>>

\* Fault: the sweep releases the reservation of a job it just terminated.
TimeoutTerm_Releases ==
  /\ sched.pc = "timeout_term"
  /\ TermCommit("sched")
  /\ alloc' = alloc \ {exec[lock.exec].job}
  /\ SchedGoto("timeout")
  /\ UNCHANGED <<phase, queue, http, orphans, budget>>

TimeoutTerm ==
  /\ sched.pc = "timeout_term"
  /\ TermCommit("sched")
  /\ SchedGoto("timeout")
  /\ UNCHANGED <<phase, queue, http, alloc, orphans, budget>>

TimeoutDb ==
  /\ sched.pc = "timeout_db"
  /\ db' = [db EXCEPT ![sched.job] = "FAILED"]
  /\ alloc' = alloc \ {sched.job}
  /\ sched' = [sched EXCEPT !.pc = "timeout", !.job = NoJob]
  /\ UNCHANGED <<phase, queue, http, exec, lock, orphans, budget>>

TimeoutEnd ==
  /\ sched.pc = "timeout" /\ sched.todo = {}
  /\ SchedDone
  /\ UNCHANGED <<phase, db, queue, http, exec, lock, alloc, orphans, budget>>

Scheduler ==
  \/ \E q \in Entries : Pop(q)
  \/ PopRecheck \/ Blocked \/ Reserve \/ Dispatch
  \/ (\E e \in Execs : Register(e)) \/ RegisterFails
  \/ SpawnRecheck \/ SpawnNoDirs \/ SpawnFail \/ SpawnAbandon
  \/ SpawnCheck \/ SpawnRun \/ SpawnStarted \/ SpawnLaunch \/ SpawnFinished
  \/ (\E S \in SUBSET Jobs : TimeoutScan(S)) \/ (\E j \in Jobs : TimeoutJob(j))
  \/ TimeoutTerm \/ TimeoutDb \/ TimeoutEnd

-----------------------------------------------------------------------------
(* Launcher and watcher threads of an execution. *)

ExecGoto(e, from, to) ==
  /\ exec[e].pc = from
  /\ exec' = [exec EXCEPT ![e].pc = to]

\* launcher_thread: an execution terminated before launch never forks.
Launch(e) ==
  /\ exec[e].pc = "launch"
  /\ lock = Unlocked
  /\ exec' = IF exec[e].term = "no"
             THEN [exec EXCEPT ![e].pc = "prepare"]
             ELSE [exec EXCEPT ![e].pc = "settle", ![e].out = "CANCELLED"]
  /\ UNCHANGED <<phase, db, queue, sched, http, lock, alloc, orphans, budget>>

\* spawn_process: remote set-up or fork fails, or there is a process.
Prepare(e) ==
  /\ exec[e].pc = "prepare"
  /\ \/ exec' = [exec EXCEPT ![e].pc = "forked", ![e].proc = "alive"]
     \/ exec' = [exec EXCEPT ![e].pc = "settle", ![e].out = "FAILED"]
  /\ UNCHANGED <<phase, db, queue, sched, http, lock, alloc, orphans, budget>>

\* Fault: a termination requested before the pid was known is forgotten.
SetProcess_NoKill(e) ==
  /\ exec[e].pc = "forked"
  /\ lock = Unlocked
  /\ exec' = [exec EXCEPT ![e].pid = TRUE, ![e].pc = "watcher"]
  /\ UNCHANGED <<phase, db, queue, sched, http, lock, alloc, orphans, budget>>

\* active_set_process publishes the pid, and kills if termination was asked.
SetProcess(e) ==
  /\ exec[e].pc = "forked"
  /\ lock = Unlocked
  /\ LET x == [exec[e] EXCEPT !.pid = TRUE, !.pc = "watcher"]
     IN  exec' = [exec EXCEPT ![e] = IF x.term # "no" THEN Killed(x) ELSE x]
  /\ UNCHANGED <<phase, db, queue, sched, http, lock, alloc, orphans, budget>>

\* The watcher thread starts; if it cannot, the process is killed and reaped.
StartWatcher(e) ==
  /\ exec[e].pc = "watcher"
  /\ \/ exec' = [exec EXCEPT ![e].pc = "watch"]
     \/ exec' = [exec EXCEPT ![e].pc = "clear", ![e].proc = "none", ![e].out = "FAILED"]
  /\ UNCHANGED <<phase, db, queue, sched, http, lock, alloc, orphans, budget>>

\* The simulation ends by itself, with or without success.
ProcessExits(e) ==
  /\ exec[e].proc = "alive"
  /\ \E code \in {"exit0", "exit1"} : exec' = [exec EXCEPT ![e].proc = code]
  /\ UNCHANGED <<phase, db, queue, sched, http, lock, alloc, orphans, budget>>

\* watcher_thread: waitpid.
Reap(e) ==
  /\ exec[e].pc = "watch"
  /\ exec[e].proc \in {"exit0", "exit1"}
  /\ exec' = [exec EXCEPT ![e].pc = "clear", ![e].proc = "none",
                ![e].out = IF exec[e].proc = "exit0" THEN "SUCCEEDED" ELSE "FAILED"]
  /\ UNCHANGED <<phase, db, queue, sched, http, lock, alloc, orphans, budget>>

\* active_clear_process
ClearProcess(e) ==
  /\ exec[e].pc = "clear"
  /\ lock = Unlocked
  /\ exec' = [exec EXCEPT ![e].pc = "settle", ![e].pid = FALSE]
  /\ UNCHANGED <<phase, db, queue, sched, http, lock, alloc, orphans, budget>>

\* active_terminal_snapshot: a requested termination overrides the outcome.
Settle(e) ==
  /\ exec[e].pc = "settle"
  /\ lock = Unlocked
  /\ exec' = [exec EXCEPT ![e].pc = "check",
                ![e].out = IF exec[e].term # "no" THEN exec[e].term ELSE @]
  /\ UNCHANGED <<phase, db, queue, sched, http, lock, alloc, orphans, budget>>

\* job_set_status_r, not under the lock: test job->status ...
OutcomeCheck(e) ==
  /\ ExecGoto(e, "check",
       IF transition_allowed(exec[e].mem, exec[e].out) THEN "write" ELSE "release")
  /\ UNCHANGED <<phase, db, queue, sched, http, lock, alloc, orphans, budget>>

\* ... then write the object and the row.
OutcomeWrite(e) ==
  /\ exec[e].pc = "write"
  /\ exec' = [exec EXCEPT ![e].pc = "release", ![e].mem = exec[e].out]
  /\ db' = [db EXCEPT ![exec[e].job] = exec[e].out]
  /\ UNCHANGED <<phase, queue, sched, http, lock, alloc, orphans, budget>>

\* alloc_release, and only then active_unregister.
Release(e) ==
  /\ ExecGoto(e, "release", "unregister")
  /\ alloc' = alloc \ {exec[e].job}
  /\ UNCHANGED <<phase, db, queue, sched, http, lock, orphans, budget>>

Unregister(e) ==
  /\ exec[e].pc = "unregister"
  /\ lock = Unlocked
  /\ exec' = [exec EXCEPT ![e] = FreeExec]
  /\ UNCHANGED <<phase, db, queue, sched, http, lock, alloc, orphans, budget>>

\* The steps of an execution's threads that wait for s_active_lock, ...
ExecLocked(e) ==
  Launch(e) \/ SetProcess(e) \/ ClearProcess(e) \/ Settle(e) \/ Unregister(e)

\* ... and those that do not.
ExecFree(e) ==
  Prepare(e) \/ StartWatcher(e) \/ Reap(e) \/ OutcomeCheck(e) \/ OutcomeWrite(e) \/ Release(e)

-----------------------------------------------------------------------------
(* Stop, crash and restart. *)

\* orchestrator_run: httpd_stop joins the HTTP thread, ...
Stop ==
  /\ phase = "up" /\ budget.restarts > 0
  /\ phase' = "http_stop"
  /\ UNCHANGED <<db, queue, sched, http, exec, lock, alloc, orphans, budget>>

StopHttp ==
  /\ phase = "http_stop" /\ http.pc = "idle"
  /\ phase' = "sched_stop"
  /\ UNCHANGED <<db, queue, sched, http, exec, lock, alloc, orphans, budget>>

\* ... scheduler_stop joins the scheduler thread, ...
StopSched ==
  /\ phase = "sched_stop" /\ sched.pc = "idle"
  /\ phase' = "exec_stop"
  /\ UNCHANGED <<db, queue, sched, http, exec, lock, alloc, orphans, budget>>

\* Fault: an execution that has its process already is left to end by itself.
StopExec_OnlyStarting(e) ==
  /\ phase = "exec_stop" /\ Active(e) /\ ~exec[e].pid /\ exec[e].term = "no"
  /\ TermBegin("main", e, "CANCELLED")
  /\ UNCHANGED <<phase, db, queue, sched, http, alloc, orphans, budget>>

\* ... executor_shutdown marks and kills what still runs ...
StopExec(e) ==
  /\ phase = "exec_stop" /\ Active(e) /\ exec[e].term = "no"
  /\ TermBegin("main", e, "CANCELLED")
  /\ UNCHANGED <<phase, db, queue, sched, http, alloc, orphans, budget>>

StopExecTerm ==
  /\ TermCommit("main")
  /\ UNCHANGED <<phase, queue, sched, http, alloc, orphans, budget>>

\* Fault: executor_shutdown does not wait.
Stopped_NoWait ==
  /\ phase = "exec_stop"
  /\ phase' = "stopped"
  /\ queue' = EmptyQueue
  /\ alloc' = {}
  /\ UNCHANGED <<db, sched, http, exec, lock, orphans, budget>>

\* ... and waits for s_active to be empty; queue and allocator are dropped.
Stopped ==
  /\ phase = "exec_stop" /\ \A e \in Execs : ~Active(e)
  /\ phase' = "stopped"
  /\ queue' = EmptyQueue
  /\ alloc' = {}
  /\ UNCHANGED <<db, sched, http, exec, lock, orphans, budget>>

\* The daemon dies; its children, in process groups of their own, do not.
Crash ==
  /\ phase # "stopped" /\ phase # "crashed"
  /\ budget.restarts > 0
  /\ phase' = "crashed"
  /\ queue' = EmptyQueue
  /\ sched' = SchedIdle
  /\ http' = HttpIdle
  /\ exec' = [e \in Execs |-> FreeExec]
  /\ lock' = Unlocked
  /\ alloc' = {}
  /\ orphans' = orphans \cup {exec[e].job : e \in {x \in Execs : exec[x].proc = "alive"}}
  /\ UNCHANGED <<db, budget>>

\* scheduler_init: db_recover_after_restart, then the QUEUED rows reloaded.
Restart ==
  LET recovered == [j \in Jobs |-> IF db[j] = "RUNNING" THEN "FAILED" ELSE db[j]]
  IN  /\ phase \in {"stopped", "crashed"} /\ budget.restarts > 0
      /\ phase' = "up"
      /\ db' = recovered
      /\ queue' = [q \in Entries |->
                     IF q[2] = "QUEUED" /\ recovered[q[1]] = "QUEUED" THEN 1 ELSE 0]
      /\ budget' = [budget EXCEPT !.restarts = @ - 1]
      /\ UNCHANGED <<sched, http, exec, lock, alloc, orphans>>

OrphanExits(j) ==
  /\ j \in orphans
  /\ orphans' = orphans \ {j}
  /\ UNCHANGED <<phase, db, queue, sched, http, exec, lock, alloc, budget>>

Main == StopHttp \/ StopSched \/ (\E e \in Execs : StopExec(e)) \/ StopExecTerm \/ Stopped

-----------------------------------------------------------------------------

Next ==
  \/ \E j \in Jobs : SubmitInsert(j) \/ CancelCheck(j) \/ RetryCheck(j) \/ OrphanExits(j)
  \/ Http
  \/ Scheduler
  \/ \E e \in Execs : ExecLocked(e) \/ ExecFree(e) \/ ProcessExits(e)
  \/ Main
  \/ Stop \/ Crash \/ Restart

Spec == Init /\ [][Next]_vars

(* The program's threads keep running; users, simulations and the operator *)
(* promise nothing.  A step that waits for s_active_lock gets strong       *)
(* fairness: every holder releases it, and between two timeout sweeps the  *)
(* scheduler sleeps, so a waiting thread is not overtaken for ever.        *)
Fairness ==
  /\ WF_vars(Http) /\ SF_vars(CancelActive) /\ SF_vars(RetryActive)
  /\ WF_vars(Scheduler)
  /\ WF_vars(Main)
  /\ \A e \in Execs : WF_vars(ExecFree(e)) /\ SF_vars(ExecLocked(e))

FairSpec == Spec /\ Fairness

-----------------------------------------------------------------------------
(* Properties. *)

SchedPcs == {"idle", "popped", "fit", "dispatch", "register", "recheck", "dirs", "fail",
             "abandon", "run", "started", "launch", "finish",
             "timeout", "timeout_term", "timeout_db"}

HttpPcs == {"idle", "submit_push", "cancel_queue", "cancel_entry", "cancel_active",
            "cancel_term", "cancel_db", "cancel_write", "retry_active",
            "retry_remove", "retry_db", "retry_load", "retry_push"}

ExecPcs == {"free", "spawn", "launch", "prepare", "forked", "watcher", "watch", "clear",
            "settle", "check", "write", "release", "unregister"}

ExecType == [job : Jobs \cup {NoJob}, pc : ExecPcs, mem : Status,
             term : {"no", "CANCELLED", "FAILED"},
             proc : {"none", "alive", "exit0", "exit1"}, pid : BOOLEAN, out : Terminal]

SchedType == [pc : SchedPcs, job : Jobs \cup {NoJob}, mem : Status,
              exec : Execs \cup {NoExec}, todo : SUBSET Jobs]

HttpType == [pc : HttpPcs, job : Jobs \cup {NoJob}, mem : Status]

LockType == [by : {"nobody", "http", "sched", "main"}, exec : Execs \cup {NoExec},
             to : {"CANCELLED", "FAILED"}, set : BOOLEAN]

BudgetType == [cancels : Nat, retries : Nat, timeouts : Nat, restarts : Nat]

\* Every variable stays within the values the C types allow.
TypeOK ==
  /\ phase \in {"up", "http_stop", "sched_stop", "exec_stop", "stopped", "crashed"}
  /\ db \in [Jobs -> Status \cup {"none"}]
  /\ queue \in [Entries -> Nat]
  /\ sched \in SchedType
  /\ http \in HttpType
  /\ exec \in [Execs -> ExecType]
  /\ lock \in LockType
  /\ alloc \subseteq Jobs
  /\ orphans \subseteq Jobs
  /\ budget \in BudgetType

(* A job has at most one execution: neither a stale queue entry nor a      *)
(* retry that overtakes the dispatch of one lets executor_spawn start a    *)
(* job whose previous execution is still registered (executor.c:1204,      *)
(* routes.c:2282).                                                         *)
AtMostOneExecution ==
  \A e, f \in Execs : Active(e) /\ Active(f) /\ exec[e].job = exec[f].job => e = f

(* A process that exists is covered by its job's reservation from fork to  *)
(* waitpid, so no other release (the scheduler's recheck, the timeout      *)
(* sweep) gives its capacity away (scheduler.c:305, executor.c:981).       *)
LiveProcessReserved ==
  \A e \in Execs : exec[e].proc # "none" => exec[e].job \in alloc

(* A reservation always has an owner that will release it: the scheduler   *)
(* about to spawn, or an execution that has not released yet ("No ...      *)
(* leaked capacity", doc/v1-scope.md:32).                                  *)
NoLeakedReservation ==
  \A j \in alloc :
    \/ sched.pc \in {"dispatch", "register"} /\ sched.job = j
    \/ \E e \in ActiveFor(j) : exec[e].pc # "unregister"

(* A row that says QUEUED is on its way: in the queue, in the hands of the *)
(* scheduler, of a submission or retry about to push it, or of a           *)
(* cancellation; so the in-memory queue never forgets a job               *)
(* (scheduler.c:369, scheduler.c:838, routes.c:2304).                      *)
QueuedRowNotLost ==
  \A j \in Jobs :
    db[j] = "QUEUED" /\ phase \notin {"stopped", "crashed"} =>
      \/ InQueue(j) # {}
      \/ sched.job = j
      \/ http.job = j

(* When executor_shutdown has returned, no execution, process or           *)
(* reservation is left, whatever was being launched when the stop began    *)
(* (executor.c:1310, scheduler.c:813).                                     *)
StopLeavesNothing ==
  [][phase' = "stopped" /\ phase = "exec_stop" =>
       alloc = {} /\ \A e \in Execs : exec[e].proc = "none"]_vars

(* A termination request (cancel, timeout, stop) ends the execution        *)
(* wherever the launcher or watcher was when it came (executor.c:100,      *)
(* executor.c:166).                                                        *)
TerminationCompletes ==
  \A e \in Execs : exec[e].term # "no" ~> ~Active(e)

(* A stop request completes, although executor_shutdown waits for every    *)
(* execution without a time limit.                                         *)
StopCompletes == (phase = "http_stop") ~> (phase \in {"stopped", "crashed"})

-----------------------------------------------------------------------------
(* What the documentation says and the code does not keep. *)

(* "terminal states" (job.c:49): the only way out of one is a retry, which *)
(* makes the row QUEUED.  The executor writes RUNNING over a cancellation  *)
(* that arrives while it starts the job (executor.c:1234-1241); the        *)
(* timeout sweep fails a job of its snapshot that has succeeded meanwhile  *)
(* (scheduler.c:302-305); active_request_termination and the watcher both  *)
(* test job->status before either writes it (executor.c:189, job.c:117).   *)
TerminalStatesAreFinal ==
  [][\A j \in Jobs : db[j] \in Terminal => db'[j] \in {db[j], "QUEUED"}]_vars

=============================================================================
