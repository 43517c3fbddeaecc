# BHC Scheduler: TLA+ models and proofs

BHC Scheduler is a C daemon that takes simulation jobs over HTTP, stores them in
SQLite, queues them in memory, reserves machine capacity for them and runs them
as local or remote processes. This directory models the parts of it in which
threads, failures and orders of events matter, checks them with TLC on small
instances, and proves the central invariants with TLAPS for every size.

## 1. Inventory

Threads: one HTTP thread (handlers run one at a time), one scheduler thread, a
launcher and a watcher thread per running job, a probe thread, and `main`.
They share one SQLite connection (its recursive mutex and a flag that says a
transaction is open), the ring of events (own mutex), the queue (own mutex), the
list of active executions (`s_active_lock`), the registry (own mutex), the
allocator (own mutex) and `Job` objects, which no lock protects.

| component | state | operations | hard because | what makes it correct |
|---|---|---|---|---|
| job state machine (`core/job.c`) | status in row and object | `job_set_status_r` | tested on an object, written to a row, by several threads | terminal states are final |
| queue (`core/queue.c`) | heap, capacity, shutdown flag, sleepers | push, pop, try_pop, try_pop_matching, remove, shutdown | removal from the middle, condition variable | heap order; no lost wake-up; it is a priority queue |
| scheduler: dispatch (`core/scheduler.c:343`) | job in hand, scan counter | recheck, quota, pin, fit, reserve, dispatch | everything read is stale when used | quotas and pins hold at the start; scans end; queued jobs proceed |
| scheduler: held jobs (`:104`) | snapshot of CREATED rows, answer of the decision core | cascade, clear, refine, file check, release | races release, upload, cancel, purge | dependencies and files first; nobody waits for ever |
| scheduler: timeouts, cancel (`:278`, `:838`) | snapshot of RUNNING rows | terminate or fail | job moves between queue, scheduler and executor | no orphan, no overwritten outcome |
| executor (`core/executor.c`) | executions, pids, termination requests | spawn, launch, watch, terminate, shut down | termination may come before the process | one execution per job; reservation covers the process; stop ends |
| registry, allocator, probe (`resources/`) | machines, reservations, records, rows | upsert, remove, reserve, release, probe | choice from a stale snapshot; SQLite may fail | no overcommitment; no leaked reservation |
| cloud instances (`cloud/cloud.c`, `http/routes.c:3871`) | instances at the provider, their registry entries | provision, deprovision | check, command and registry are three steps | no instance ends under a job |
| submission (`http/routes.c`, `http/batches.c`) | rows, keys, drain flag | submit, workflow, batch, release, upload, purge | several statements per request; crash between them | idempotency; no row without queue entry |
| quotas (`persistence/db.c:1402`) | table quotas | resolve, count, edit | scope of limit and of usage | the limit found is the limit kept |
| SQLite connection (`persistence/db.c:293`) | open transaction, `s_transaction_active`, mutex, `sqlite3_changes` | begin, commit, rollback, single statements of every thread | a statement joins whatever transaction is open; any statement may fail | batches and purges are whole; the mutex is given back; what was acknowledged is stored |
| artifacts (`transfer/artifacts.c`, `persistence/db.c:398`) | table artifacts | registered by the watcher, deleted by a retry | the watcher registers them after the outcome | a retried job starts without old artifacts |
| events (`http/events.c`, `http/httpd.c`) | ring, table of subscribers, open connections | push, drain, broadcast, subscribe, close, keepalive | the row is written before its event is posted; full ring; freed connections in the table | a subscriber is not left behind without a reason |
| recovery (`main.c`, `scheduler_init`) | rows | fail RUNNING, reload QUEUED | processes outlive the daemon | nothing lost, nothing run twice |

Not modelled: authentication, users, API keys and who may do what; applications,
reports, saved workflow definitions; directories, downloads and remote copies of
files; pre-simulation in the main loop and the automatic cloud requests (both
behind `experimental_features_enabled`, the latter also out of reach, see
section 4); configuration and logging, service glue, the Windows executor (same
protocol as the POSIX one), tools and solvers; `alloc_reserve_multi` and
`alloc_can_fit_multi`, which nothing calls. `PROJECT.json` gives the reason for
each component, and lists the hazards of the code with the properties that cover
them.

## 2. Modules

| module | models | abstracts |
|---|---|---|
| `JobLifecycle` | one job's row, queue entries, scheduler, HTTP and execution threads, stop, crash, restart; one step is one statement, one critical section, or one access to a shared object | order of the queue, quotas, machines; elapsed time (a sweep picks any RUNNING jobs) |
| `Resources` | registry, allocator, probe, administrator, cloud instances, restart | order of the machines in the array; the limit of the table (a new entry is accepted or refused) |
| `JobQueue` | `queue.c` cell by cell, and the sleepers of `queue_pop` | a call is one step: the mutex is held throughout |
| `PriorityQueue` | what `queue.h` promises: the abstract specification | the heap |
| `Dispatch` | one scan step by step, with quota edits, cancels, retries, purges and probes between the steps | one resource instead of four; `executor_spawn` and cancellation are one step |
| `HeldJobs` | submission statement by statement, workflows, batches, release, upload, held-job check with the refinement jobs of the decision core, keys, crash | life after QUEUED; the arithmetic of the decision core (any set of refinement jobs) |
| `SharedConnection` | the SQLite connection under the statements of the HTTP thread (submit, batch, purge, retry), the scheduler (reservation, start, held-job check, timeout sweep) and the watchers (outcome, artifacts, release), each statement one step; failing statements, crash and recovery | columns other than `status`; workflows, whose transaction has the form of a batch's; a failure of a single statement outside of a transaction |
| `EventStream` | ring, writers, the poll-drain-send loop, subscription with its snapshot, closing, table of subscribers, keepalives, stop | a status is the number of the write that made it; the text of a message |
| `Sums` | the totals that quota check and reservations need (`SUM` of `db_quota_check`, the counters of the registry), by counting | - |
| `EventChannel` | what `events.h` promises: the abstract specification of the ring | the array and its three counters |

Workflows, same-machine pins and the administrator's cloud requests need
`experimental_features_enabled`; the models have them on, and nothing else that
switch turns on.

`MCJobLifecycle`, `MCResources`, `MCJobQueue`, `MCDispatch`, `MCHeldJobs` and
`MCEventStream` define the instances; `JobLifecycleProofs`, `ResourcesProofs`,
`SharedConnectionProofs`, `EventStreamProofs`, `HeldJobsProofs`,
`DispatchProofs` and `JobQueueProofs` hold the proofs, and `SumsProofs` the lemmas about totals. Operators whose
name ends in a suffix such as `_NoKill` are faulty variants of the operator they
are named after; `PROJECT.json` lists the property each of them breaks.

**Correspondence.** In `JobLifecycle`, `db` is `jobs.status`, `queue` a bag of
entries with the status of their `Job` object, `sched` and `http` are the two
threads with their locals, `exec` is `s_active` with the position of whichever
thread works on the execution (`spawn` = `executor_spawn`, `launch` to `watcher`
= launcher, `watch` to `unregister` = watcher), `lock` is
`active_request_termination` between its test and its write, `alloc` the
allocator's records. `TermBegin`/`TermCommit` are two steps because the watcher
and `executor_spawn` write `job->status` without the lock. In `Resources`,
`sched # Idle` means that the allocator's mutex is held, and `cloud # NoRequest`
that the HTTP thread waits for a provider's command. `unsaved` is history: the
jobs whose last release is not in the file, because `db_release_allocation` failed
(`allocator.c:411-413` only warns) or because the transaction of a retry it had
joined was rolled back, which `SharedConnection` shows possible. In `Dispatch`, jobs are
numbered by their rank in the queue. In `HeldJobs`, `http.pc` and `sched.pc`
name the next statement; the order of a list of dependencies is left open, so
that a check that meets a failed and an unfinished one may cascade or wait, where
`db_check_deps_status` decides by the first in the list.

In `SharedConnection`, `disk` is the file, `view` what a statement sees on the
connection (file plus open transaction) and `promised` what the callers were told
is stored. `txn` is `"kept"` for a transaction of `db_begin`, which keeps the
mutex, and `"plain"` for the bare `BEGIN` of `db_retry_job`; `active` is
`s_transaction_active`, `changes` the answer of `sqlite3_changes`. Two history
variables record that a statement ran inside a transaction opened for another one
(`guest`: a retry's, or one the scheduler has abandoned) and that a `db_rollback`
cleared the flag of a transaction that was not its caller's (`stray`). After the
latter the scheduler keeps the mutex and an open transaction nobody will end
(`Abandoned`), and its own later writes, those of the held-job check
(`scheduler.c:123`, `:222`, `:270`) and of the timeout sweep (`:303`, `:305`), succeed
inside it: `Periodic` has them. The held-job check is one step per job and decides
freely, `HeldJobs` has its conditions; a submission stores its key and pushes in one
step, and `HeldJobs` has the key that cannot be stored. SQLite's mutex is a recursive `pthread` mutex:
to leave one that another thread holds is an error without effect, which is what
`RollbackLeave` says.

In `EventStream`, `row` numbers the writes of a job's status, `writer` holds what
a thread has written and not yet posted, `out` the drained messages still to be
sent and `at` the position of the sweep in the table. `conn` maps the memory a
connection can occupy to the connection in it, so that an entry of the table may
outlive its connection and come to denote a later one. `fate` is history: why the
event about the latest status will not come (`silent`: the write posts none;
`overwritten` in the full ring; `overtaken` by the event of an earlier write).

Out-of-memory failures of `queue_push` are left out of every module but
`JobQueue`.

## 3. Runs

| run | checks | bounds |
|---|---|---|
| `lifecycle` | types, one execution, reserved processes, owned reservations, no lost row, clean stop; terminations and stops complete | 1 job, 2 executions, 2 cancels, 1 retry, 1 sweep, 1 stop or crash with restart: a retry can overlap the end of the previous execution, and a cancel both |
| `resources` | types, overcommitment, reservations, removals, rows, instances under jobs; PROBING ends | 2 machines (one on the loopback, one remote or in the cloud), 2 jobs, 2 resource kinds, machines of 0/0 (refused), 2/1 and 2/2, requests of 1/1, 1 restart; any release may fail: two requests fill a machine in one kind or in both, and a machine can be shrunk below what two jobs hold |
| `queue` | heap, array, wake-ups and shutdown, refinement of `PriorityQueue` | 7 objects (three heap levels) with ties on every key and two objects of one id, 4 cells growing to 8, 2 blocked threads |
| `dispatch` | types, quota and pin at the start; scans end, jobs proceed | 3 jobs (the third pinned to the first), 2 machines, 2 apps, one limit per app and one per user, 1 disturbance: a quota edit, a retry, or a probe of the remote machine |
| `held` | types, entries, keys | 2 submissions of one key, 1 job with a dependency and files, 1 refinement job |
| `held_groups` | entries across crashes; held jobs settle | a workflow of two or a batch of one, 1 refinement job, 1 crash |
| `connection` | types, whole batches and purges, freed mutex, lost writes, true answers, old artifacts | 1 submitted job, held or not, and a batch of one, 1 machine, 2 failing statements, 1 crash |
| `events` | types, refinement of `EventChannel`, outdated subscribers; news arrives | 1 job with 2 writes, 2 writers, a ring of 2 cells, 2 connections, a table of 2 entries |

In `connection`, `sqlite3_changes` answers 0 for a purged row; `retry_durability`
has two machines instead of failures, which make it answer 2: a job that ran on
both has two rows to release. Two failures reach a failing `db_begin` followed
by a stray `db_rollback` and one more failure of the thread it disturbs; a third
thread issues only single statements, so one more failure adds no new order. In
`events`, two writers and two writes are what an overtaking event needs, two
cells what an overwritten one needs, and two connections let a freed cell be
reused while its old entry is still in the table. Sizes 256 and 32 of the code
are constants of the module; the proofs are for every size. The disturbances of
`dispatch` share one budget because one of them is enough for each of the
hazards; purges and cancellations are not bounded.

Bounds on requests only limit what users and operators do; the program's own
steps are never bounded. Sets of ids are finite, so a refinement job can be
created once. Deadlock is checked everywhere except in the `JobLifecycle` runs,
where the system may stop for good once the bounded requests are used up, and in
`SharedConnection`, where a mutex that is never given back, or jobs that have all
been purged, leave nothing to do; `ConnectionIsFreed` asks for the first directly.

`ImplementsPriorityQueue` compares the answers of the calls as well as the
contents: `ret` carries the call and the object it returned.

**Fairness.** Threads keep running: weak fairness for the scheduler, the HTTP
handler in progress, launcher, watcher, probe and stop sequence. Steps that wait
for `s_active_lock` have strong fairness: each holder releases it after a bounded
number of statements and the scheduler sleeps between ticks. In `HeldJobs`, the
held-job check has weak fairness (every tenth tick begins with it) and the scan of
the queue has none: run `starvation` shows that a scan need not reach every entry.
Users promise nothing either. `HeldJobsSettle` says both by its premises: the files
of a job are uploaded, and no job stays QUEUED for ever. Without the second premise
TLC refutes it, by a job that depends on one nobody dispatches. `Dispatch` and `HeldJobs` assume that simulations
end; `JobLifecycle` does not. `EventStream` has weak fairness for a writer that
has written a row and goes on to post its event, and for the steps of the HTTP
loop, whose poll returns after 100 ms; clients promise nothing, and nothing says
that the next status is ever written. `SharedConnection` and
`JobQueue` assume no fairness: their properties are invariants.

## 4. Where the code departs from what it says

Four runs are expected to fail; each states a sentence of a document or a
comment, and `PROJECT.json` quotes it with its line.

* `starvation` - a blocked job goes back to the top of the heap and is popped
  again by the same scan; a runnable job behind it never starts.
* `terminal_final` - a cancellation during dispatch is overwritten by RUNNING,
  and a timeout sweep turns SUCCEEDED into FAILED.
* `release_conditions` - an upload releases a job before its dependencies; the
  held-job check releases one before its files are listed, or right after it
  has made it wait for refinement jobs.
* `retry_durability` - `db_retry_job` opens its transaction without the mutex; a
  statement of another thread joins it, changes what `sqlite3_changes` answers
  and is rolled back with it, although its caller was told that it is stored.

Seen in the models as well, without a run of their own:

* A cancellation between the queue and the executor finds the job in neither
  (`core/scheduler.c:847-856`) and marks the row; the process starts anyway,
  while `doc/v1-scope.md:32` promises "No orphan simulations".
* A user-wide limit (`persistence/db.c:1504`) is compared with the usage of the
  candidate's own app (`:1523`), so a user may exceed it with a second app.
* After a failed `db_begin`, `transaction_failed` calls `db_rollback`
  (`http/batches.c:172`), which tests the flag without the mutex
  (`persistence/db.c:322`). If the scheduler opens a transaction in between, the
  HTTP thread waits for it, rolls back nothing and clears a flag that may by
  then be that of the next transaction: the scheduler's `db_commit` then returns
  early and keeps the mutex, with a transaction that nobody ends. All other threads
  wait from then on; the scheduler's own later writes succeed and never reach the
  file. `ConnectionIsFreed` and `OnlyGuestsLose` name exactly this exception.
* A release that SQLite refuses (`resources/allocator.c:411-413`), or that is rolled
  back with a retry, leaves an open row in table `allocations` without a record; only
  the recovery of the next start closes it. `RowsFollowRecords` names the exception.
* `doc/api-reference.md:275-276` says that an event is sent every time a job
  changes state. `db_update_job_status` is called directly, without an event, by
  the held-job check (`core/scheduler.c:118-126`) among others; `EventStream`
  has these writes as `WriteSilently`. The 33rd subscriber is told nothing and
  listed nowhere (`http/httpd.c:32`).
* The decision core of the held-job check (`core/scheduler.c:157`) runs in the
  default configuration, although `doc/v1-scope.md:46` lists decision-core
  automation as disabled; with few free cores the default core asks for
  refinement jobs.
* A process outlives a daemon that crashed; its row becomes FAILED
  (`persistence/db.c:504`) and a retry may start a second process beside it,
  while `doc/v1-scope.md:41` says "Retry same ID only after exit".
* A cloud machine stays PROBING: `probe_refresh_all` visits static machines only
  (`resources/probe.c:146`), and a PROBING machine gets no job. So
  `InstanceOutlivesJobs` holds, and `maybe_auto_deprovision`
  (`core/executor.c:243`) is never reached.
* A crash between the insert of a job and that of its key
  (`http/routes.c:1497`, `:1543`) makes a repeated submission a second job;
  `OneJobPerKey` is therefore checked without crashes.
* The held-job check (`core/scheduler.c:261-270`) may queue a job that was
  cancelled after the check had read its row.

## 5. Proofs

`JobLifecycleProofs` proves, for any sets of jobs and executions and any bounds:
`TypeCorrect`, `SingleExecution`, `ProcessesAreReserved`, `ReservationsAreOwned`,
`StopIsClean` and `QueuedRowsAreCarried`. Assumptions: the "no object" values are not objects, and the
bounds are natural numbers. None of the properties is inductive. The invariant
that is says who owns a reservation: while the scheduler is between reservation
and spawn it holds the only claim on its job, an execution holds it until it
releases, and two claims never meet because `alloc_reserve` refuses a job that
has a record. `AtMostOneExecution` follows: a second execution would need a
second reservation. That the timeout sweep's release (`scheduler.c:305`) cannot
take a running execution's reservation needs the further fact that only the
scheduler registers executions, and it is busy with the sweep.

`QueuedRowNotLost` only asks that a thread has the job in hand; its inductive
form `QueuedIsCarried` says at which step of which thread. The entry in the queue
is one whose object still says QUEUED, because the scheduler throws any other
away (`scheduler.c:369`); a retry or submission carries the row from its write to
the push, a cancellation from the removal of the entry to the write of the row,
and the scheduler from the pop to the write of RUNNING or, when the directories
cannot be made, of FAILED. The recovery makes entries for all of them.

`ResourcesProofs` proves `TypeCorrect`, `NeverOvercommitted`, `RowsFollow`,
`ReservationsAreExact`, `UsedMachinesStay` and `InstancesOutliveJobs` for any
machines, resource kinds, sizes and requests. `NoOvercommit` is
inductive with the types because `registry_reserve` tests again and
`registry_upsert` refuses to shrink below what is reserved; `RowsFollowRecords`
needs `InProgress`: the job a reservation is made for is not being released, has its
record once `registry_reserve` has succeeded, and an open row only if its last
release is unsaved; a release in progress has taken the record. Cloud requests come in with one
more conjunct: a request in progress names a machine.

The other three come from the invariant `Accounts`: what is reserved on a machine
is the total of the records on it (`ReservedIsHeld`), a record names a registered
machine and at least one core there (`RecordsPlaced`), and cloud machines keep
apart (`CloudApart`). They belong together: `registry_remove` looks at the counters
only, so a held machine stays because the counters are exact and a record is never
empty, and the counters stay exact because a machine is never replaced while a
record names it. A cloud machine stays PROBING and so carries no record at all,
which is why the late termination does no harm. `Total(f, S)` is the number of units `f` assigns to the
members of `S`; defined by counting, its laws (one term more, one less, nothing
changed) follow from the theorems about finite cardinalities and need no
induction. `SumsProofs` has them; that the definition is the sum is what the
assumption `TotalAddsUp` of `MCResources` compares with the community modules'
`MapThenSumSet`. Assumption added: there are finitely many jobs.

`SharedConnectionProofs` proves, for any jobs, batch, machines, failures and
crashes: `ConnectionTypes`, `ConnectionFreed`, `GuestsAloneLose`,
`BatchesAreWhole`, `BatchAnswers` and `RetriesStartClean`. Assumptions: single jobs and the batch are
disjoint, all sets are finite (a statement counts the rows it changes), the
bounds are natural numbers. The argument has three layers. `Owned` says who holds
the connection: a transaction of `db_begin` is open only while its thread has the
mutex and is inside it, that of `db_retry_job` only while nobody has the mutex,
and only after a stray rollback does the scheduler keep the mutex outside of its
transaction, which is then open, with the flag cleared; `ConnectionFreed` follows. `Stored` relates
the three databases: outside of a transaction `view = disk`, and without a guest
`disk = promised`, because no statement runs inside a kept transaction but those of
its own thread, until it is abandoned; `GuestsAloneLose` is the second half. `Complete` says that the file is always whole and the connection's
view is too, unless the HTTP thread is in the middle of a batch, which has the
mutex then, and that the other threads see no row that is not in the file
(`Matching`); `Known`, that whoever works on a job finds its row in the file. The
hard case of all three is the rollback whose test of the flag is out of date.
For `RetriesStartClean` the invariant `Clean` adds, as long as there was no guest: in the file a job with artifacts is neither CREATED
nor QUEUED, nor in the view except between the two statements of a retry (`Freshness`); a job with a
watcher is not waiting and not being retried, because `retry_job` asks for active
executions first (`Watched`); the job the scheduler is about to start, and the one being submitted,
are QUEUED and not being retried (`Held`); and what a transaction has not committed concerns the
jobs of its own thread (`Apart`).

`EventStreamProofs` proves `TypeCorrect`, `RingIsChannel` and `SubscribersKeepUp`
for rings, tables and connections of any number. The first contains the relation
between head, tail and count, and the second, the refinement of `EventChannel`,
rests on it: the sequence of pending events is the ring read from its tail, and a
push or a drain changes it as the channel does. The invariant of the third adds
that a connection marked as listed has an entry of its own (`ListedHasEntry`) and
that an old status in the pipeline is followed by the present one while the fate
of the latter is `coming` (`NewsFollows`): sending an old status makes a client
outdated, and only these two facts say that this is mended.

`HeldJobsProofs` proves `TypeCorrect`, `QueuedRowsAreKept`, `KeysNameTheirJobs`,
`OneJobPerKeyUntilCrash` and `OneJobPerKeyWithoutCrash` for any jobs, groups,
files, keys and number of crashes. Assumptions: what the module says of requests
(jobs of workflows and batches and refinement jobs carry no key, as the code stores
none for them). The invariant: a QUEUED row has an entry or a thread whose next step
is its push (`QueuedIsOwned`, which names the step, where the property only names
the job); a handler past its insert works on an existing row (`HttpJobExists`);
a stored key names its job (`KeyNamesItsJob`); and before the first crash every
row with a key is the one the key names, that of the handler that has yet to store
it, or the FAILED remainder of a submission whose key could not be stored, which no
release, upload or held-job check has in hand (`KeysAreUsed`). The last conjunct is what a crash between the two
inserts breaks, so it is conditional on there having been none.

`DispatchProofs` proves `TypeCorrect`, `StartsWithinQuota` and
`PinnedShareMachine` for any jobs, machines, apps, limits, pins and number of
disturbances, with finitely many jobs. Both are action properties, about a limit
or a pin that was read many steps before the start; the invariant carries them
across. `Admitted`: from the check to the start, the running jobs of the
candidate's user and app plus the candidate are within the limit in the
scheduler's hands; it survives because only the scheduler makes rows RUNNING, and
everything that others do (finish, cancel, purge, retry) can only lower the total.
`PinKept`: past the pin, the row the pin names is purged, or the job holds a
reservation on the machine in that row, or the row names none any more; a retry of
that row clears it, a purge removes it, and neither ever names another machine. `LimitResolved` says that no limit of an
earlier candidate is left over.

`JobQueueProofs` proves `ArrayIsSafe`, `HeapStaysOrdered`, `WakeupsArrive` and
`QueueIsPriorityQueue` for any objects, keys, threads and capacities. Assumptions:
keys are integers, there is at least one cell and a finite number of threads. The
loops of `heap_up` and `heap_down` are the iterates of their bodies `Rise` and
`Sink`, as many as there are cells; the proof shows that this is enough, since
every turn that moves a job brings it at least one cell nearer the root, or
farther from it. The loop invariants are those of a textbook: `RisingAt(h, m)`
and `SinkingAt(h, m)` say that the array is in order except between the cell `m`
and its parent, or its children, and that the children of `m` do not precede its
parent. `MovedNearlyOrdered` is the point of a removal from the middle: whichever
way the test of `queue.c:166` and `:188` goes, the array has the invariant of the
loop it chooses. `RootFirst` (nothing precedes the root) and `BestFound` (the scan
of `queue_try_pop_matching` ends at a best match) make the answers of the calls
those of `PriorityQueue`. Existence of the recursive functions and inductions over
cells are proved from the least element of a set of naturals, because the library's
induction rules cannot be used here. The wake-up argument is a count: a push adds
one job and wakes one sleeper, if there is one; a thread that was woken takes one
job or goes back to sleep only when there is none.

Model-checked only: everything about liveness and fairness, which is out of the
prover's reach: `TerminationCompletes`, `StopCompletes`, `ProbingEnds`, `TickEnds`,
`QueuedJobsProceed`, `HeldJobsSettle` and `NewsArrives`. All other properties that
the passing runs check are theorems.

## 6. Not modelled, and plan

The models leave out, besides the components named in section 1: the lifetime of
`Job` objects after `queue_push` (`http/routes.c:1577`), process ids that are
reused between copy and signal (`core/executor.c:205`), failures of single
statements outside of a transaction, whose results the code ignores almost
everywhere, messages cut off at 511 characters, and the directories of jobs,
which retry and purge empty while watchers may still write
(`http/routes.c:2308`, `:2329-2350`); a failed copy of outputs from a remote
machine only warns (`core/executor.c:951`). These are facts about memory, the
operating system or files in which a model would restate the code's assumptions.

1. Done: `JobLifecycle`, `Resources` with cloud instances, `JobQueue` with
   `PriorityQueue`, `Dispatch`, `HeldJobs` with the decision core,
   `SharedConnection`, `EventStream` with `EventChannel`, and the proofs of every
   invariant, action property and refinement the passing runs check.
2. To come: a composition that shows `JobLifecycle`'s reservations to be those of
   `Resources`, with its refinement proved.
3. Then pre-simulation in `Dispatch`, should it leave the experimental features.
