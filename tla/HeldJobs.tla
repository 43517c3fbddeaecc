------------------------------- MODULE HeldJobs -------------------------------
(***************************************************************************)
(* How a job comes to be QUEUED.  The HTTP thread accepts single jobs,     *)
(* workflows and batches (routes.c, batches.c), holds those that wait for  *)
(* other jobs or for input files in CREATED, and releases them by hand or  *)
(* when the last upload arrives; every tenth tick the scheduler thread     *)
(* looks for held jobs it can release or must fail (scheduler.c:104-275);  *)
(* submissions may carry an idempotency key; the daemon may die anywhere.  *)
(*                                                                         *)
(* One step is one SQLite statement (or one transaction) or one queue      *)
(* call.  What happens to a QUEUED job afterwards is JobLifecycle: here it *)
(* is dispatched and ends.  The decision core is consulted once the        *)
(* dependencies of a job are done; its arithmetic is left open, so it asks *)
(* for any set of refinement jobs.                                         *)
(***************************************************************************)
EXTENDS Naturals, FiniteSets

CONSTANTS
  Jobs,        \* job ids, as gen_uuid hands them out
  WantDeps,    \* depends_on of each job's request
  WantFiles,   \* does the request name input files?
  KeyOf,       \* Idempotency-Key of the request, or NoKey
  Keys, NoKey, \* idempotency keys of one user
  NoJob,
  Workflows,   \* sets of jobs submitted together through POST /workflows
  Batches,     \* sets of jobs submitted together through POST /batches
  Children,    \* job ids for the refinement jobs of the decision core
  MaxCrashes   \* bound on the crashes of a behaviour

Alone == Jobs \ (Children \cup UNION (Workflows \cup Batches))

ASSUME Requests ==
  /\ WantDeps \in [Jobs -> SUBSET Jobs]
  /\ WantFiles \in [Jobs -> BOOLEAN]
  /\ KeyOf \in [Jobs -> Keys \cup {NoKey}]
  /\ NoKey \notin Keys /\ NoJob \notin Jobs
  /\ Children \subseteq Jobs
  /\ Workflows \cup Batches \subseteq SUBSET (Jobs \ Children)
  /\ \A G \in Workflows \cup Batches \cup {Children} : \A j \in G : KeyOf[j] = NoKey
  /\ \A G \in Batches : \A j \in G : WantDeps[j] = {} /\ ~WantFiles[j]
  /\ MaxCrashes \in Nat

VARIABLES
  row,        \* jobs.status, "none" before the insert, "purged" after DELETE
  deps,       \* jobs.depends_on
  files,      \* jobs.input_files is not empty
  got,        \* jobs whose input files are all in their input directory
  queue,      \* entries of each job in the in-memory queue
  keys,       \* table submission_keys
  accepting,  \* s_accepting_jobs
  http,       \* HTTP thread
  sched,      \* scheduler thread
  forced,     \* history: jobs released by POST /jobs/:id/release
  crashes     \* crashes left

vars == <<row, deps, files, got, queue, keys, accepting, http, sched, forced, crashes>>

Terminal == {"SUCCEEDED", "FAILED", "CANCELLED"}

Exists(j) == row[j] \notin {"none", "purged"}

Held(j) == WantDeps[j] # {} \/ WantFiles[j]

HttpIdle == [pc |-> "idle", job |-> NoJob, todo |-> {}]

NoEntry == [job |-> NoJob, deps |-> {}, files |-> FALSE]

SchedIdle == [pc |-> "idle", todo |-> {}, at |-> NoEntry, mem |-> "none",
              zones |-> {}, child |-> NoJob, made |-> {}]

Pushed(j) == [queue EXCEPT ![j] = @ + 1]

Init ==
  /\ row = [j \in Jobs |-> "none"]
  /\ deps = [j \in Jobs |-> {}]
  /\ files = [j \in Jobs |-> FALSE]
  /\ got = {}
  /\ queue = [j \in Jobs |-> 0]
  /\ keys = [k \in Keys |-> NoJob]
  /\ accepting = TRUE
  /\ http = HttpIdle
  /\ sched = SchedIdle
  /\ forced = {}
  /\ crashes = MaxCrashes

-----------------------------------------------------------------------------
(* submit_job, one statement after the other. *)

HttpGoto(pc) == http' = [http EXCEPT !.pc = pc]

HttpDone == http' = HttpIdle

\* db_get_submission_job: the key of the request has a job whose row exists.
Answered(j) == \E k \in Keys, i \in Jobs : KeyOf[j] = k /\ keys[k] = i /\ Exists(i)

\* Fault: the key is not looked up.
SubmitInsert_NoLookup(j) ==
  /\ http.pc = "idle" /\ accepting
  /\ j \in Alone /\ row[j] = "none"
  /\ \A d \in WantDeps[j] : Exists(d)
  /\ row' = [row EXCEPT ![j] = "QUEUED"]
  /\ http' = [HttpIdle EXCEPT !.pc = "deps", !.job = j]
  /\ UNCHANGED <<deps, files, got, queue, keys, accepting, sched, forced, crashes>>

\* A known key is answered with its job; otherwise the dependencies must
\* exist, and job_create_ex inserts the row as QUEUED.
SubmitInsert(j) ==
  /\ http.pc = "idle" /\ accepting
  /\ j \in Alone /\ row[j] = "none"
  /\ ~Answered(j)
  /\ \A d \in WantDeps[j] : Exists(d)
  /\ row' = [row EXCEPT ![j] = "QUEUED"]
  /\ http' = [HttpIdle EXCEPT !.pc = "deps", !.job = j]
  /\ UNCHANGED <<deps, files, got, queue, keys, accepting, sched, forced, crashes>>

SubmitDeps ==
  /\ http.pc = "deps"
  /\ deps' = [deps EXCEPT ![http.job] = WantDeps[http.job]]
  /\ HttpGoto("key")
  /\ UNCHANGED <<row, files, got, queue, keys, accepting, sched, forced, crashes>>

\* The key is stored after the job; when that fails the job is FAILED.
SubmitKey ==
  LET k == KeyOf[http.job] IN
  /\ http.pc = "key"
  /\ \/ /\ k = NoKey
        /\ HttpGoto(IF Held(http.job) THEN "hold" ELSE "push")
        /\ UNCHANGED <<row, keys>>
     \/ /\ k # NoKey
        /\ keys' = [keys EXCEPT ![k] = http.job]
        /\ HttpGoto(IF Held(http.job) THEN "hold" ELSE "push")
        /\ UNCHANGED row
     \/ /\ k # NoKey
        /\ row' = [row EXCEPT ![http.job] = "FAILED"]
        /\ HttpDone
        /\ UNCHANGED keys
  /\ UNCHANGED <<deps, files, got, queue, accepting, sched, forced, crashes>>

\* A job that must wait becomes CREATED, and then gets its list of files.
SubmitHold ==
  /\ http.pc = "hold"
  /\ row' = [row EXCEPT ![http.job] = "CREATED"]
  /\ HttpGoto("files")
  /\ UNCHANGED <<deps, files, got, queue, keys, accepting, sched, forced, crashes>>

SubmitFiles ==
  /\ http.pc = "files"
  /\ files' = [files EXCEPT ![http.job] = WantFiles[http.job]]
  /\ HttpDone
  /\ UNCHANGED <<row, deps, got, queue, keys, accepting, sched, forced, crashes>>

SubmitPush ==
  /\ http.pc = "push"
  /\ queue' = Pushed(http.job)
  /\ HttpDone
  /\ UNCHANGED <<row, deps, files, got, keys, accepting, sched, forced, crashes>>

-----------------------------------------------------------------------------
(* submit_workflow and batches_submit: one transaction, then the pushes. *)

Committed(G) ==
  /\ row' = [j \in Jobs |-> IF j \notin G THEN row[j]
                            ELSE IF Held(j) THEN "CREATED" ELSE "QUEUED"]
  /\ deps' = [j \in Jobs |-> IF j \in G THEN WantDeps[j] ELSE deps[j]]
  /\ files' = [j \in Jobs |-> IF j \in G THEN WantFiles[j] ELSE files[j]]
  /\ http' = [HttpIdle EXCEPT !.pc = "group", !.todo = {j \in G : ~Held(j)}]
  /\ UNCHANGED <<got, queue, keys, accepting, sched, forced, crashes>>

SubmitWorkflow(G) ==
  /\ http.pc = "idle" /\ accepting
  /\ \A j \in G : row[j] = "none" /\ \A d \in WantDeps[j] \ G : Exists(d)
  /\ Committed(G)

\* Drain mode does not apply to batches.
SubmitBatch(G) ==
  /\ http.pc = "idle"
  /\ \A j \in G : row[j] = "none"
  /\ Committed(G)

GroupPush(j) ==
  /\ http.pc = "group" /\ j \in http.todo
  /\ queue' = Pushed(j)
  /\ http' = [http EXCEPT !.todo = @ \ {j}]
  /\ UNCHANGED <<row, deps, files, got, keys, accepting, sched, forced, crashes>>

GroupDone ==
  /\ http.pc = "group" /\ http.todo = {}
  /\ HttpDone
  /\ UNCHANGED <<row, deps, files, got, queue, keys, accepting, sched, forced, crashes>>

-----------------------------------------------------------------------------
(* Release by hand and by upload.  The row is read, job_set_status_r       *)
(* writes QUEUED from what was read, and the object is pushed.             *)

\* release_job
ReleaseRead(j) ==
  /\ http.pc = "idle"
  /\ row[j] = "CREATED"
  /\ forced' = forced \cup {j}
  /\ http' = [HttpIdle EXCEPT !.pc = "release", !.job = j]
  /\ UNCHANGED <<row, deps, files, got, queue, keys, accepting, sched, crashes>>

\* upload_input stores the last missing file ...
Upload(j) ==
  /\ http.pc = "idle"
  /\ Exists(j) /\ j \notin got
  /\ got' = got \cup {j}
  /\ http' = [HttpIdle EXCEPT !.pc = "upload", !.job = j]
  /\ UNCHANGED <<row, deps, files, queue, keys, accepting, sched, forced, crashes>>

\* ... and check_and_auto_release looks at the files, not at depends_on.
UploadRead ==
  /\ http.pc = "upload"
  /\ IF row[http.job] = "CREATED" /\ files[http.job] THEN HttpGoto("release") ELSE HttpDone
  /\ UNCHANGED <<row, deps, files, got, queue, keys, accepting, sched, forced, crashes>>

ReleaseSet ==
  /\ http.pc = "release"
  /\ row' = [row EXCEPT ![http.job] = "QUEUED"]
  /\ HttpGoto("push")
  /\ UNCHANGED <<deps, files, got, queue, keys, accepting, sched, forced, crashes>>

-----------------------------------------------------------------------------
(* Other requests. *)

\* Fault: the entry is counted out even when the scan has already popped it.
Cancel_Underflow(j) ==
  /\ http.pc = "idle"
  /\ row[j] \in {"CREATED", "QUEUED", "RUNNING"}
  /\ row' = [row EXCEPT ![j] = "CANCELLED"]
  /\ queue' = [queue EXCEPT ![j] = @ - 1]
  /\ UNCHANGED <<deps, files, got, keys, accepting, http, sched, forced, crashes>>

\* scheduler_cancel_job, whose own races are in JobLifecycle
Cancel(j) ==
  /\ http.pc = "idle"
  /\ row[j] \in {"CREATED", "QUEUED", "RUNNING"}
  /\ row' = [row EXCEPT ![j] = "CANCELLED"]
  /\ queue' = [queue EXCEPT ![j] = IF @ > 0 THEN @ - 1 ELSE 0]
  /\ UNCHANGED <<deps, files, got, keys, accepting, http, sched, forced, crashes>>

\* Fault: the keys of purged jobs stay and shadow the next submission.
Purge_KeepsKeys ==
  /\ http.pc = "idle"
  /\ \E j \in Jobs : row[j] \in Terminal
  /\ row' = [j \in Jobs |-> IF row[j] \in Terminal THEN "purged" ELSE row[j]]
  /\ UNCHANGED <<deps, files, got, queue, keys, accepting, http, sched, forced, crashes>>

\* db_purge_jobs: finished rows and their keys, in one transaction.
Purge ==
  /\ http.pc = "idle"
  /\ \E j \in Jobs : row[j] \in Terminal
  /\ row' = [j \in Jobs |-> IF row[j] \in Terminal THEN "purged" ELSE row[j]]
  /\ keys' = [k \in Keys |-> IF \E j \in Jobs : keys[k] = j /\ row[j] \in Terminal
                             THEN NoJob ELSE keys[k]]
  /\ UNCHANGED <<deps, files, got, queue, accepting, http, sched, forced, crashes>>

admin_maintenance(on) ==
  /\ http.pc = "idle"
  /\ accepting # on
  /\ accepting' = on
  /\ UNCHANGED <<row, deps, files, got, queue, keys, http, sched, forced, crashes>>

Http ==
  \/ SubmitDeps \/ SubmitKey \/ SubmitHold \/ SubmitFiles \/ SubmitPush
  \/ (\E j \in Jobs : GroupPush(j)) \/ GroupDone
  \/ UploadRead \/ ReleaseSet

-----------------------------------------------------------------------------
(* scheduler_check_held_jobs *)

\* A snapshot of the CREATED rows.
HeldSnapshot ==
  /\ sched.pc = "idle"
  /\ \E j \in Jobs : row[j] = "CREATED"
  /\ sched' = [SchedIdle EXCEPT !.pc = "next", !.todo =
                 {[job |-> j, deps |-> deps[j], files |-> files[j]] :
                    j \in {i \in Jobs : row[i] = "CREATED"}}]
  /\ UNCHANGED <<row, deps, files, got, queue, keys, accepting, http, forced, crashes>>

\* db_check_deps_status answers for the first dependency of the list that has
\* not succeeded, one that is gone counting as failed.  The order of the list
\* is left open: with one failed and one unfinished, either answer is possible.
DepsFailed(D) == \E d \in D : ~Exists(d) \/ row[d] \in {"FAILED", "CANCELLED"}
DepsUnfinished(D) == \E d \in D : row[d] \in {"CREATED", "QUEUED", "RUNNING"}
DepsDone(D) == \A d \in D : row[d] = "SUCCEEDED"

SchedNext == sched' = [SchedIdle EXCEPT !.pc = "next", !.todo = sched.todo]

\* Fault: a failed dependency is treated like one that still runs.
HeldDeps_IgnoresFailure(x) ==
  /\ sched.pc = "next" /\ x \in sched.todo
  /\ sched' = [sched EXCEPT !.todo = @ \ {x}, !.at = IF DepsDone(x.deps) THEN x ELSE NoEntry,
                            !.pc = IF DepsDone(x.deps) THEN "clear" ELSE "next"]
  /\ UNCHANGED <<row, deps, files, got, queue, keys, accepting, http, forced, crashes>>

\* The next job of the snapshot: fail it, skip it, or go on with it.
HeldDeps(x) ==
  /\ sched.pc = "next" /\ x \in sched.todo
  /\ \/ /\ DepsFailed(x.deps)
        /\ sched' = [sched EXCEPT !.todo = @ \ {x}, !.at = x, !.pc = "cascade"]
     \/ /\ DepsUnfinished(x.deps)
        /\ sched' = [sched EXCEPT !.todo = @ \ {x}]
     \/ /\ DepsDone(x.deps)
        /\ sched' = [sched EXCEPT !.todo = @ \ {x}, !.at = x,
                                  !.pc = IF x.deps = {} THEN "files" ELSE "clear"]
  /\ UNCHANGED <<row, deps, files, got, queue, keys, accepting, http, forced, crashes>>

HeldCascade ==
  /\ sched.pc = "cascade"
  /\ row' = [row EXCEPT ![sched.at.job] = IF Exists(sched.at.job) THEN "FAILED" ELSE @]
  /\ SchedNext
  /\ UNCHANGED <<deps, files, got, queue, keys, accepting, http, forced, crashes>>

\* The outputs of the dependencies are forwarded, depends_on is emptied, ...
HeldClear ==
  /\ sched.pc = "clear"
  /\ deps' = [deps EXCEPT ![sched.at.job] = {}]
  /\ sched' = [sched EXCEPT !.pc = "decide"]
  /\ UNCHANGED <<row, files, got, queue, keys, accepting, http, forced, crashes>>

\* ... the decision core names the zones to refine (none: the job is gone,
\* or any action but REFINE, which only writes status_reason), ...
HeldDecide(Z) ==
  /\ sched.pc = "decide"
  /\ Z \subseteq {c \in Children : row[c] = "none"}
  /\ Z # {} => Exists(sched.at.job)
  /\ sched' = [sched EXCEPT !.pc = IF Z = {} THEN "files" ELSE "refine", !.zones = Z]
  /\ UNCHANGED <<row, deps, files, got, queue, keys, accepting, http, forced, crashes>>

\* ... job_create_ex inserts a child for each of them as QUEUED ...
RefineInsert(c) ==
  /\ sched.pc = "refine" /\ c \in sched.zones
  /\ row' = [row EXCEPT ![c] = "QUEUED"]
  /\ sched' = [sched EXCEPT !.pc = "child", !.child = c, !.zones = @ \ {c}, !.made = @ \cup {c}]
  /\ UNCHANGED <<deps, files, got, queue, keys, accepting, http, forced, crashes>>

RefinePush ==
  /\ sched.pc = "child"
  /\ queue' = Pushed(sched.child)
  /\ sched' = [sched EXCEPT !.pc = "refine", !.child = NoJob]
  /\ UNCHANGED <<row, deps, files, got, keys, accepting, http, forced, crashes>>

\* ... and the job is made to depend on them ...
RefineDeps ==
  /\ sched.pc = "refine" /\ sched.zones = {}
  /\ deps' = [deps EXCEPT ![sched.at.job] = sched.made]
  /\ sched' = [sched EXCEPT !.pc = "hold", !.made = {}]
  /\ UNCHANGED <<row, files, got, queue, keys, accepting, http, forced, crashes>>

\* ... and CREATED again, whatever its row says now; yet the check goes on.
RefineHold ==
  /\ sched.pc = "hold"
  /\ row' = [row EXCEPT ![sched.at.job] = IF Exists(sched.at.job) THEN "CREATED" ELSE @]
  /\ sched' = [sched EXCEPT !.pc = "files"]
  /\ UNCHANGED <<deps, files, got, queue, keys, accepting, http, forced, crashes>>

\* The files of the snapshot are looked for, ...
HeldFiles ==
  /\ sched.pc = "files"
  /\ IF sched.at.files => sched.at.job \in got
     THEN sched' = [sched EXCEPT !.pc = "load"] ELSE SchedNext
  /\ UNCHANGED <<row, deps, files, got, queue, keys, accepting, http, forced, crashes>>

\* ... the row is read again, ...
HeldLoad ==
  /\ sched.pc = "load"
  /\ IF Exists(sched.at.job)
     THEN sched' = [sched EXCEPT !.pc = "set", !.mem = row[sched.at.job]] ELSE SchedNext
  /\ UNCHANGED <<row, deps, files, got, queue, keys, accepting, http, forced, crashes>>

\* ... QUEUED is written if the transition is allowed from what was read ...
HeldSet ==
  /\ sched.pc = "set"
  /\ row' = [row EXCEPT ![sched.at.job] =
               IF sched.mem = "CREATED" /\ Exists(sched.at.job) THEN "QUEUED" ELSE @]
  /\ sched' = [sched EXCEPT !.pc = "push"]
  /\ UNCHANGED <<deps, files, got, queue, keys, accepting, http, forced, crashes>>

\* Fault: the released job is not pushed.
HeldPush_Forgotten ==
  /\ sched.pc = "push"
  /\ SchedNext
  /\ UNCHANGED <<row, deps, files, got, queue, keys, accepting, http, forced, crashes>>

\* ... and the object is pushed in any case.
HeldPush ==
  /\ sched.pc = "push"
  /\ queue' = Pushed(sched.at.job)
  /\ SchedNext
  /\ UNCHANGED <<row, deps, files, got, keys, accepting, http, forced, crashes>>

HeldEnd ==
  /\ sched.pc = "next" /\ sched.todo = {}
  /\ sched' = SchedIdle
  /\ UNCHANGED <<row, deps, files, got, queue, keys, accepting, http, forced, crashes>>

CheckHeld ==
  \/ \E x \in sched.todo : HeldDeps(x)
  \/ HeldCascade \/ HeldClear \/ (\E Z \in SUBSET Children : HeldDecide(Z))
  \/ (\E c \in sched.zones : RefineInsert(c)) \/ RefinePush \/ RefineDeps \/ RefineHold
  \/ HeldFiles \/ HeldLoad \/ HeldSet \/ HeldPush \/ HeldEnd

-----------------------------------------------------------------------------
(* The rest of the life of a queued job, and the daemon's. *)

\* The scheduler's scan: an entry whose row is not QUEUED is dropped.
Dispatch(j) ==
  /\ sched.pc = "idle"
  /\ queue[j] > 0
  /\ queue' = [queue EXCEPT ![j] = @ - 1]
  /\ row' = [row EXCEPT ![j] = IF @ = "QUEUED" THEN "RUNNING" ELSE @]
  /\ UNCHANGED <<deps, files, got, keys, accepting, http, sched, forced, crashes>>

Finish(j) ==
  /\ row[j] = "RUNNING"
  /\ \E end \in {"SUCCEEDED", "FAILED"} : row' = [row EXCEPT ![j] = end]
  /\ UNCHANGED <<deps, files, got, queue, keys, accepting, http, sched, forced, crashes>>

\* Fault: the in-memory queue starts empty.
CrashRestart_NoReload ==
  /\ crashes > 0
  /\ crashes' = crashes - 1
  /\ row' = [j \in Jobs |-> IF row[j] = "RUNNING" THEN "FAILED" ELSE row[j]]
  /\ queue' = [j \in Jobs |-> 0]
  /\ accepting' = TRUE
  /\ http' = HttpIdle
  /\ sched' = SchedIdle
  /\ UNCHANGED <<deps, files, got, keys, forced>>

\* The daemon dies and comes back: scheduler_init fails the RUNNING rows and
\* reloads the QUEUED ones; s_accepting_jobs is 1 again.
CrashRestart ==
  /\ crashes > 0
  /\ crashes' = crashes - 1
  /\ row' = [j \in Jobs |-> IF row[j] = "RUNNING" THEN "FAILED" ELSE row[j]]
  /\ queue' = [j \in Jobs |-> IF row[j] = "QUEUED" THEN 1 ELSE 0]
  /\ accepting' = TRUE
  /\ http' = HttpIdle
  /\ sched' = SchedIdle
  /\ UNCHANGED <<deps, files, got, keys, forced>>

Next ==
  \/ \E j \in Jobs : SubmitInsert(j) \/ ReleaseRead(j) \/ Upload(j) \/ Cancel(j)
  \/ \E G \in Workflows : SubmitWorkflow(G)
  \/ \E G \in Batches : SubmitBatch(G)
  \/ Purge
  \/ \E on \in BOOLEAN : admin_maintenance(on)
  \/ Http
  \/ HeldSnapshot \/ CheckHeld
  \/ \E j \in Jobs : Dispatch(j) \/ Finish(j)
  \/ CrashRestart

Spec == Init /\ [][Next]_vars

(* Both threads keep running, and every tenth tick begins with the held    *)
(* jobs; dispatched jobs end.  Nothing is assumed of the scan of the queue *)
(* (Dispatch): it may pass over an entry for ever.                         *)
Fairness ==
  /\ WF_vars(Http) /\ WF_vars(CheckHeld) /\ WF_vars(HeldSnapshot)
  /\ \A j \in Jobs : WF_vars(Finish(j))

FairSpec == Spec /\ Fairness

-----------------------------------------------------------------------------
(* Properties. *)

Entry == [job : Jobs, deps : SUBSET Jobs, files : BOOLEAN]

Status == Terminal \cup {"CREATED", "QUEUED", "RUNNING"}

\* Every variable stays within the values the C types allow.
TypeOK ==
  /\ row \in [Jobs -> Status \cup {"none", "purged"}]
  /\ deps \in [Jobs -> SUBSET Jobs]
  /\ files \in [Jobs -> BOOLEAN]
  /\ got \subseteq Jobs
  /\ queue \in [Jobs -> Nat]
  /\ keys \in [Keys -> Jobs \cup {NoJob}]
  /\ accepting \in BOOLEAN
  /\ http \in [pc : {"idle", "deps", "key", "hold", "files", "push", "group", "upload",
                     "release"},
               job : Jobs \cup {NoJob}, todo : SUBSET Jobs]
  /\ sched \in [pc : {"idle", "next", "cascade", "clear", "decide", "refine", "child", "hold",
                      "files", "load", "set", "push"},
                todo : SUBSET Entry, at : Entry \cup {NoEntry},
                mem : Status \cup {"none"},
                zones : SUBSET Children, child : Children \cup {NoJob},
                made : SUBSET Children]
  /\ forced \subseteq Jobs
  /\ crashes \in Nat

(* A QUEUED row is in the queue or about to be pushed by the thread that   *)
(* made it QUEUED, whichever of the seven ways into the queue it took and  *)
(* wherever the daemon died (routes.c:1573, routes.c:1595, routes.c:2384,  *)
(* scheduler.c:271, scheduler.c:215, scheduler.c:766, batches.c:153).      *)
QueuedRowHasEntry ==
  \A j \in Jobs : row[j] = "QUEUED" =>
    \/ queue[j] > 0
    \/ http.job = j \/ j \in http.todo
    \/ j \in {sched.at.job, sched.child}

(* As long as the daemon does not die, a key never has two jobs: at most   *)
(* one of the jobs submitted with it is there and is not the FAILED        *)
(* remainder of a submission whose key could not be stored                 *)
(* (routes.c:1317-1339, routes.c:1543).                                    *)
OneJobPerKey ==
  \A i, j \in Jobs :
    i # j /\ KeyOf[i] = KeyOf[j] /\ KeyOf[i] # NoKey /\ Exists(i) /\ Exists(j)
      => "FAILED" \in {row[i], row[j]}

(* A key in the table names a job that is there: no client is answered     *)
(* with a job that was purged (db.c:1182, routes.c:1328).                  *)
KeyNamesItsJob ==
  \A k \in Keys : keys[k] # NoJob => Exists(keys[k]) /\ KeyOf[keys[k]] = k

(* The held-job check strands nobody: a job is released or failed, through *)
(* any chain of dependencies and refinements (scheduler.c:104), provided   *)
(* that its files come and that no job stays QUEUED for ever.  The scan    *)
(* does not grant the latter: a job behind a blocked head of the queue may *)
(* starve, and with it those that depend on it.                            *)
HeldJobsSettle ==
  (\A j \in Jobs : /\ []<>(Exists(j) /\ WantFiles[j] => j \in got)
                  /\ []<>(row[j] # "QUEUED"))
    => \A j \in Jobs : row[j] = "CREATED" ~> row[j] # "CREATED"

(* "All conditions met (deps done + files present) - release"              *)
(* (scheduler.c:260): unless the user forced it, a held job enters the     *)
(* queue with its dependencies done and its files uploaded.                *)
(* check_and_auto_release does not look at depends_on (routes.c:2352), and *)
(* submit_job writes CREATED before input_files, so that the held-job      *)
(* check finds a job that waits for nothing (routes.c:1554-1557); and the  *)
(* check releases a job it has just made to wait for refinement jobs       *)
(* (scheduler.c:219).                                                      *)
ConditionsMetOnRelease ==
  [][\A j \in Jobs : row[j] = "CREATED" /\ row'[j] = "QUEUED" /\ j \notin forced
       => DepsDone(deps[j]) /\ (WantFiles[j] => j \in got)]_vars

=============================================================================
