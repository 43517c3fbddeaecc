------------------------------- MODULE Dispatch -------------------------------
(***************************************************************************)
(* Which queued job starts where: one tick of scheduler_thread             *)
(* (src/core/scheduler.c:343-752) with the quota tables of db.c, the       *)
(* same-machine pin of workflow jobs, the capacity test and the dispatch,  *)
(* interleaved with what the HTTP and probe threads do to the rows, the    *)
(* queue, the quotas and the machines meanwhile.                           *)
(*                                                                         *)
(* One resource dimension (cores) stands for the four of a request; the    *)
(* accounting itself is Resources.  executor_spawn is one step here and a  *)
(* cancellation is one step; their own races are JobLifecycle.  The queue  *)
(* yields a job no other queued job precedes, which JobQueue establishes.  *)
(* The pre-simulation and decision-core blocks (experimental, off by       *)
(* default) are left out.                                                  *)
(***************************************************************************)
EXTENDS Integers, Sequences, FiniteSetsExt, Sums

CONSTANTS
    Jobs,           \* job ids, numbered in the order the queue ranks them
    UserOf, AppOf,  \* user_id and app_id of each job
    Cores,          \* req_cores of each job
    SameMachineAs,  \* same_machine_as of each job, or None
    Machines,       \* static machines, numbered in registry order
    Remote,         \* those on another host, which the probe really contacts
    Capacity,       \* cores of each machine
    Any,            \* the empty string, a wildcard in quotas and usage
    None,           \* no job, no machine
    QuotaTables,    \* quota tables an administrator may have set up
    Limits,         \* limits an administrator may set later on
    MaxDisturbances \* bound on quota edits, probes and retries together

Users == {UserOf[j] : j \in Jobs} \cup {Any}
Apps  == {AppOf[j] : j \in Jobs} \cup {Any}
Scope == Users \X Apps

\* A limit of 0 is no limit (routes.c upsert_quota, db_quota_check).
Limit == [jobs : Nat, cores : Nat]
Unlimited == [jobs |-> 0, cores |-> 0]

ASSUME DispatchParameters ==
    /\ Jobs \subseteq Nat /\ IsFiniteSet(Jobs)
    /\ Machines \subseteq Nat /\ IsFiniteSet(Machines)
    /\ Cores \in [Jobs -> Nat \ {0}]
    /\ Capacity \in [Machines -> Nat]
    /\ Remote \subseteq Machines
    /\ SameMachineAs \in [Jobs -> Jobs \cup {None}]
    /\ QuotaTables \subseteq [Scope -> Limits \cup {Unlimited, None}]
    /\ Limits \subseteq Limit
    /\ None \notin Jobs \cup Machines \cup Limit
    /\ MaxDisturbances \in Nat

VARIABLES
    row,        \* the status column of each job
    place,      \* the machine_id column of each job
    queue,      \* number of entries of each job in the in-memory queue
    alloc,      \* the machine each job holds a reservation on
    quota,      \* the quotas table: scope -> limit, None when there is no row
    probed,     \* probe_status of each machine
    sched,      \* the scheduler thread
    budget      \* quota edits, probes and retries left

vars == <<row, place, queue, alloc, quota, probed, sched, budget>>

Statuses == {"CREATED", "QUEUED", "RUNNING", "SUCCEEDED", "FAILED", "CANCELLED", "PURGED"}
Terminal == {"SUCCEEDED", "FAILED", "CANCELLED"}

Asleep == [pc |-> "sleep", job |-> None, left |-> 0, scopes |-> <<>>,
           limit |-> Unlimited, at |-> None]

Init ==
    /\ row = [j \in Jobs |-> "CREATED"]
    /\ place = [j \in Jobs |-> None]
    /\ queue = [j \in Jobs |-> 0]
    /\ alloc = [j \in Jobs |-> None]
    /\ quota \in QuotaTables
    /\ probed = [m \in Machines |-> "ONLINE"]
    /\ sched = Asleep
    /\ budget = MaxDisturbances

-----------------------------------------------------------------------------
(* Helpers *)

QueueSize == Total(queue, Jobs)
Queued == {j \in Jobs : queue[j] > 0}
Pushed(j) == [queue EXCEPT ![j] = @ + 1]

\* The rows db_quota_check counts for a job: its own user and its own app,
\* an empty one matching every row.
Counted(j) ==
    {k \in Jobs : /\ row[k] = "RUNNING"
                  /\ UserOf[j] = Any \/ UserOf[k] = UserOf[j]
                  /\ AppOf[j] = Any \/ AppOf[k] = AppOf[j]}

CoresOf(S) == Total(Cores, S)

\* Does a limit leave room for S?
Within(limit, S) ==
    /\ limit.jobs > 0 => Cardinality(S) <= limit.jobs
    /\ limit.cores > 0 => CoresOf(S) <= limit.cores

\* The scopes resolve_quota looks up, most specific first.
Scopes(j) ==
    LET u == UserOf[j]
        a == AppOf[j]
    IN  (IF u # Any /\ a # Any THEN << <<u, a>> >> ELSE <<>>)
        \o (IF u # Any THEN << <<u, Any>> >> ELSE <<>>)
        \o (IF a # Any THEN << <<Any, a>> >> ELSE <<>>)
        \o << <<Any, Any>> >>

FreeCores(m) == Capacity[m] - CoresOf({j \in Jobs : alloc[j] = m})

machine_can_fit(m, j) == probed[m] = "ONLINE" /\ FreeCores(m) >= Cores[j]

Fitting(j) == {m \in Machines : machine_can_fit(m, j)}

\* The scan goes on with the next queue entry.
NextEntry == sched' = [Asleep EXCEPT !.pc = "scan", !.left = sched.left]

-----------------------------------------------------------------------------
(* The scheduler thread *)

\* jobs_to_scan is the queue size when the tick begins.
TickBegins ==
    /\ sched.pc = "sleep"
    /\ sched' = [sched EXCEPT !.pc = "scan", !.left = QueueSize]
    /\ UNCHANGED <<row, place, queue, alloc, quota, probed, budget>>

ScanEnds ==
    /\ sched.pc = "scan"
    /\ sched.left = 0 \/ Queued = {}
    /\ sched' = Asleep
    /\ UNCHANGED <<row, place, queue, alloc, quota, probed, budget>>

\* Bug: the scan counter does not count.
Pop_Uncounted ==
    /\ sched.pc = "scan"
    /\ sched.left > 0
    /\ Queued # {}
    /\ sched' = [sched EXCEPT !.pc = "recheck", !.job = Min(Queued)]
    /\ queue' = [queue EXCEPT ![Min(Queued)] = @ - 1]
    /\ UNCHANGED <<row, place, alloc, quota, probed, budget>>

Pop ==
    /\ sched.pc = "scan"
    /\ sched.left > 0
    /\ Queued # {}
    /\ sched' = [sched EXCEPT !.pc = "recheck", !.job = Min(Queued), !.left = @ - 1]
    /\ queue' = [queue EXCEPT ![Min(Queued)] = @ - 1]
    /\ UNCHANGED <<row, place, alloc, quota, probed, budget>>

\* A popped object whose row is not QUEUED any more is dropped.
Recheck ==
    /\ sched.pc = "recheck"
    /\ IF row[sched.job] = "QUEUED"
       THEN sched' = [sched EXCEPT !.pc = "quota", !.scopes = Scopes(sched.job)]
       ELSE NextEntry
    /\ UNCHANGED <<row, place, queue, alloc, quota, probed, budget>>

\* One lookup of resolve_quota; no row in any scope means no limit.
ResolveQuota ==
    /\ sched.pc = "quota"
    /\ LET found == quota[Head(sched.scopes)] IN
       IF found # None
       THEN sched' = [sched EXCEPT !.pc = "usage", !.limit = found, !.scopes = <<>>]
       ELSE IF Len(sched.scopes) > 1
       THEN sched' = [sched EXCEPT !.scopes = Tail(@)]
       ELSE sched' = [sched EXCEPT !.pc = "pin", !.scopes = <<>>]
    /\ UNCHANGED <<row, place, queue, alloc, quota, probed, budget>>

\* The blocked job goes back into the queue, keeping its rank.
PushBack ==
    /\ queue' = Pushed(sched.job)
    /\ NextEntry
    /\ UNCHANGED <<row, place, quota, probed, budget>>

\* Bug: the usage is compared before the candidate is added to it.
QuotaCheck_OffByOne ==
    /\ sched.pc = "usage"
    /\ \/ /\ Within(sched.limit, Counted(sched.job))
          /\ sched' = [sched EXCEPT !.pc = "pin"]
          /\ UNCHANGED <<row, place, queue, alloc, quota, probed, budget>>
       \/ /\ ~Within(sched.limit, Counted(sched.job))
          /\ PushBack
          /\ UNCHANGED alloc

\* The job itself is QUEUED, so it is not among the rows counted.
QuotaCheck ==
    LET usage == Counted(sched.job) \cup {sched.job} IN
    /\ sched.pc = "usage"
    /\ \/ /\ Within(sched.limit, usage)
          /\ sched' = [sched EXCEPT !.pc = "pin"]
          /\ UNCHANGED <<row, place, queue, alloc, quota, probed, budget>>
       \/ /\ ~Within(sched.limit, usage)
          /\ PushBack
          /\ UNCHANGED alloc

\* same_machine_as names a job whose row still exists.
PinnedTo(r) ==
    /\ sched.pc = "pin"
    /\ SameMachineAs[sched.job] = r
    /\ row[r] # "PURGED"

Unpinned ==
    /\ sched.pc = "pin"
    /\ SameMachineAs[sched.job] \notin {r \in Jobs : row[r] # "PURGED"}
    /\ sched' = [sched EXCEPT !.pc = "fit"]
    /\ UNCHANGED <<row, place, queue, alloc, quota, probed, budget>>

\* alloc_reserve_on the machine of the reference, then straight to dispatch.
PinReserve(r) ==
    /\ PinnedTo(r)
    /\ place[r] \in Fitting(sched.job)
    /\ alloc' = [alloc EXCEPT ![sched.job] = place[r]]
    /\ sched' = [sched EXCEPT !.pc = "dispatch", !.at = place[r]]
    /\ UNCHANGED <<row, place, queue, quota, probed, budget>>

\* Bug: a pinned job whose machine is full takes any other machine.
PinWait_FallsThrough(r) ==
    /\ PinnedTo(r)
    /\ place[r] \notin Fitting(sched.job)
    /\ sched' = [sched EXCEPT !.pc = "fit"]
    /\ UNCHANGED <<row, place, queue, alloc, quota, probed, budget>>

\* No machine yet, or no room on it: back into the queue.
PinWait(r) ==
    /\ PinnedTo(r)
    /\ place[r] \notin Fitting(sched.job)
    /\ PushBack
    /\ UNCHANGED alloc

CanFit ==
    /\ sched.pc = "fit"
    /\ Fitting(sched.job) # {}
    /\ sched' = [sched EXCEPT !.pc = "reserve"]
    /\ UNCHANGED <<row, place, queue, alloc, quota, probed, budget>>

\* Bug: a job nothing fits is dropped instead of going back.
NoFit_Dropped ==
    /\ sched.pc = "fit"
    /\ Fitting(sched.job) = {}
    /\ NextEntry
    /\ UNCHANGED <<row, place, queue, alloc, quota, probed, budget>>

NoFit ==
    /\ sched.pc = "fit"
    /\ Fitting(sched.job) = {}
    /\ PushBack
    /\ UNCHANGED alloc

\* alloc_reserve chooses again: the first machine, in registry order, that fits.
Reserve ==
    /\ sched.pc = "reserve"
    /\ Fitting(sched.job) # {}
    /\ LET m == Min(Fitting(sched.job)) IN
       /\ alloc' = [alloc EXCEPT ![sched.job] = m]
       /\ sched' = [sched EXCEPT !.pc = "probe", !.at = m]
    /\ UNCHANGED <<row, place, queue, quota, probed, budget>>

ReserveFails ==
    /\ sched.pc = "reserve"
    /\ Fitting(sched.job) = {}
    /\ PushBack
    /\ UNCHANGED alloc

\* Only OFFLINE stops a dispatch here, a machine being probed does not.
MachineOnline ==
    /\ sched.pc = "probe"
    /\ probed[sched.at] # "OFFLINE"
    /\ sched' = [sched EXCEPT !.pc = "dispatch"]
    /\ UNCHANGED <<row, place, queue, alloc, quota, probed, budget>>

\* The machine went offline since it was chosen: undo and go back.
MachineOffline ==
    /\ sched.pc = "probe"
    /\ probed[sched.at] = "OFFLINE"
    /\ alloc' = [alloc EXCEPT ![sched.job] = None]
    /\ PushBack

\* scheduler_dispatch and executor_spawn: the row goes RUNNING before the
\* scheduler looks at the next entry.
Start ==
    /\ sched.pc = "dispatch"
    /\ row[sched.job] = "QUEUED"
    /\ row' = [row EXCEPT ![sched.job] = "RUNNING"]
    /\ place' = [place EXCEPT ![sched.job] = sched.at]
    /\ NextEntry
    /\ UNCHANGED <<queue, alloc, quota, probed, budget>>

\* The row was cancelled meanwhile: the reservation and the object go.
DispatchStale ==
    /\ sched.pc = "dispatch"
    /\ row[sched.job] # "QUEUED"
    /\ alloc' = [alloc EXCEPT ![sched.job] = None]
    /\ NextEntry
    /\ UNCHANGED <<row, place, queue, quota, probed, budget>>

Scheduler ==
    \/ TickBegins \/ ScanEnds \/ Pop \/ Recheck \/ ResolveQuota \/ QuotaCheck
    \/ Unpinned \/ \E r \in Jobs : PinReserve(r) \/ PinWait(r)
    \/ CanFit \/ NoFit \/ Reserve \/ ReserveFails
    \/ MachineOnline \/ MachineOffline \/ Start \/ DispatchStale

-----------------------------------------------------------------------------
(* The other threads *)

\* A created job is released into the queue, by hand or by the held-job check.
Enqueue(j) ==
    /\ row[j] = "CREATED"
    /\ row' = [row EXCEPT ![j] = "QUEUED"]
    /\ queue' = Pushed(j)
    /\ UNCHANGED <<place, alloc, quota, probed, sched, budget>>

\* The executor has the job: it holds a reservation the scheduler handed over.
Active(j) == alloc[j] # None /\ sched.job # j

\* The watcher records the outcome, then gives the reservation back.
Finish(j) ==
    /\ row[j] = "RUNNING"
    /\ \E outcome \in {"SUCCEEDED", "FAILED"} : row' = [row EXCEPT ![j] = outcome]
    /\ UNCHANGED <<place, queue, alloc, quota, probed, sched, budget>>

Release(j) ==
    /\ Active(j)
    /\ row[j] # "RUNNING"
    /\ alloc' = [alloc EXCEPT ![j] = None]
    /\ UNCHANGED <<row, place, queue, quota, probed, sched, budget>>

\* Bug: the entry is counted out even when the scheduler has already popped it.
Cancel_Underflow(j) ==
    /\ row[j] \in {"CREATED", "QUEUED", "RUNNING"}
    /\ row' = [row EXCEPT ![j] = "CANCELLED"]
    /\ queue' = [queue EXCEPT ![j] = @ - 1]
    /\ UNCHANGED <<place, alloc, quota, probed, sched, budget>>

\* scheduler_cancel_job: the first queue entry goes, the row becomes CANCELLED.
Cancel(j) ==
    /\ row[j] \in {"CREATED", "QUEUED", "RUNNING"}
    /\ row' = [row EXCEPT ![j] = "CANCELLED"]
    /\ queue' = [queue EXCEPT ![j] = IF @ > 0 THEN @ - 1 ELSE 0]
    /\ UNCHANGED <<place, alloc, quota, probed, sched, budget>>

\* retry_job: only after the executor let go; a stale queue entry is replaced.
Retry(j) ==
    /\ budget > 0
    /\ row[j] \in {"FAILED", "CANCELLED"}
    /\ ~Active(j)
    /\ row' = [row EXCEPT ![j] = "QUEUED"]
    /\ place' = [place EXCEPT ![j] = None]
    /\ queue' = [queue EXCEPT ![j] = IF @ > 0 THEN @ ELSE 1]
    /\ budget' = budget - 1
    /\ UNCHANGED <<alloc, quota, probed, sched>>

\* db_purge_jobs deletes every finished row at once.
Purge ==
    /\ \E j \in Jobs : row[j] \in Terminal
    /\ row' = [j \in Jobs |-> IF row[j] \in Terminal THEN "PURGED" ELSE row[j]]
    /\ UNCHANGED <<place, queue, alloc, quota, probed, sched, budget>>

upsert_quota(s, limit) ==
    /\ budget > 0
    /\ quota' = [quota EXCEPT ![s] = limit]
    /\ budget' = budget - 1
    /\ UNCHANGED <<row, place, queue, alloc, probed, sched>>

delete_quota(s) ==
    /\ budget > 0
    /\ quota[s] # None
    /\ quota' = [quota EXCEPT ![s] = None]
    /\ budget' = budget - 1
    /\ UNCHANGED <<row, place, queue, alloc, probed, sched>>

\* probe_refresh_all: a machine is PROBING while it is contacted ...
ProbeMark(m) ==
    /\ budget > 0
    /\ probed[m] # "PROBING"
    /\ probed' = [probed EXCEPT ![m] = "PROBING"]
    /\ budget' = budget - 1
    /\ UNCHANGED <<row, place, queue, alloc, quota, sched>>

\* ... and then what the answer says.
ProbeAnswer(m) ==
    /\ probed[m] = "PROBING"
    /\ \E verdict \in {"ONLINE", "OFFLINE"} : probed' = [probed EXCEPT ![m] = verdict]
    /\ UNCHANGED <<row, place, queue, alloc, quota, sched, budget>>

Next ==
    \/ Scheduler
    \/ \E j \in Jobs : Enqueue(j) \/ Finish(j) \/ Release(j) \/ Cancel(j) \/ Retry(j)
    \/ Purge
    \/ \E s \in Scope : delete_quota(s) \/ \E l \in Limits : upsert_quota(s, l)
    \/ \E m \in Remote : ProbeMark(m) \/ ProbeAnswer(m)

Spec == Init /\ [][Next]_vars

\* The scheduler thread keeps running, simulations end and watchers clean up.
Fairness ==
    /\ WF_vars(Scheduler)
    /\ \A j \in Jobs : WF_vars(Finish(j)) /\ WF_vars(Release(j))

FairSpec == Spec /\ Fairness

-----------------------------------------------------------------------------
(* Properties *)

\* Every variable stays within the values the C types allow: no queue entry is
\* counted out twice, no scan counter falls below zero.
TypeOK ==
    /\ row \in [Jobs -> Statuses]
    /\ place \in [Jobs -> Machines \cup {None}]
    /\ queue \in [Jobs -> Nat]
    /\ alloc \in [Jobs -> Machines \cup {None}]
    /\ quota \in [Scope -> Limits \cup {Unlimited, None}]
    /\ probed \in [Machines -> {"ONLINE", "PROBING", "OFFLINE"}]
    /\ sched.left \in Nat
    /\ sched.job \in Jobs \cup {None}
    /\ budget \in Nat

\* A job only starts if the running jobs of its user and app, itself included,
\* stay within the limit that was resolved for it, whatever was finished,
\* cancelled, retried or edited between the check (scheduler.c:380) and the
\* write of RUNNING (executor.c:1234).
StartWithinQuota ==
    [][\A j \in Jobs : row[j] = "QUEUED" /\ row'[j] = "RUNNING"
          => Within(sched.limit, Counted(j)')]_vars

\* A job pinned to another job's machine (scheduler.c:394-439) never starts on
\* a different machine while that job's row still names one.
PinnedJobsShareMachine ==
    [][\A j \in Jobs : LET r == SameMachineAs[j] IN
          row[j] = "QUEUED" /\ row'[j] = "RUNNING" /\ r # None
             => row[r] = "PURGED" \/ place[r] \in {None, place'[j]}]_vars

\* A scan always comes to its end, so the same thread gets back to the
\* timeouts and held jobs (scheduler.c:355-358) however many jobs are blocked.
TickEnds == []<>(sched.pc = "sleep")

\* A queued job that is not waiting for a pin: the job it must share a machine
\* with, if any, has been placed.
Serviceable(j) ==
    row[j] = "QUEUED" /\ (SameMachineAs[j] # None => place[SameMachineAs[j]] # None)

\* When every request fits some idle machine and the limits admit each job on
\* its own, no job stays serviceable and queued for ever, provided the machines
\* do not stay offline: the scan (scheduler.c:362-752) reaches it whatever is
\* cancelled, retried, probed or edited in between.
QueuedJobsProceed ==
    <>[](\A m \in Machines : probed[m] = "ONLINE")
        => \A j \in Jobs : Serviceable(j) ~> ~Serviceable(j)

\* Ready to run right now: unpinned, within quota, and a machine has room.
Runnable(j) ==
    /\ row[j] = "QUEUED"
    /\ SameMachineAs[j] = None
    /\ Fitting(j) # {}
    /\ \A s \in Scope : quota[s] \in {None, Unlimited}

\* "Scan at most the jobs present at the beginning of this tick so one blocked
\* head cannot starve runnable jobs behind it" (scheduler.c:360-361).
BlockedHeadCannotStarve ==
    \A j \in Jobs : []<>(~Runnable(j))

=============================================================================
