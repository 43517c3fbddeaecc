---------------------------- MODULE HeldJobsProofs ----------------------------
(***************************************************************************)
(* Proofs about HeldJobs, for any jobs, dependencies, keys, groups and     *)
(* number of crashes.                                                      *)
(***************************************************************************)
EXTENDS HeldJobs, TLAPS

-----------------------------------------------------------------------------
(* The inductive invariant. *)

\* The handlers of routes.c that have a job in their hands.
WithJob == {"deps", "key", "hold", "files", "push", "upload", "release"}

\* The tables, the in-memory queue and the counters.
StoreTyped ==
  /\ row \in [Jobs -> Status \cup {"none", "purged"}]
  /\ deps \in [Jobs -> SUBSET Jobs]
  /\ files \in [Jobs -> BOOLEAN]
  /\ got \subseteq Jobs
  /\ queue \in [Jobs -> Nat]
  /\ keys \in [Keys -> Jobs \cup {NoJob}]
  /\ accepting \in BOOLEAN
  /\ forced \subseteq Jobs
  /\ crashes \in Nat

\* A thread in the middle of a job knows which one.
HttpTyped ==
  /\ http \in [pc : {"idle", "deps", "key", "hold", "files", "push", "group", "upload",
                     "release"},
               job : Jobs \cup {NoJob}, todo : SUBSET Jobs]
  /\ http.pc \in WithJob => http.job \in Jobs

SchedTyped ==
  /\ sched \in [pc : {"idle", "next", "cascade", "clear", "decide", "refine", "child", "hold",
                      "files", "load", "set", "push"},
                todo : SUBSET Entry, at : Entry \cup {NoEntry},
                mem : Status \cup {"none"},
                zones : SUBSET Children, child : Children \cup {NoJob},
                made : SUBSET Children]
  /\ sched.pc \notin {"idle", "next"} => sched.at \in Entry
  /\ sched.pc = "child" => sched.child \in Children

Typed == StoreTyped /\ HttpTyped /\ SchedTyped

\* The job of the HTTP thread has a row: only that thread deletes rows.
HttpJobExists == http.pc \in WithJob => Exists(http.job)

\* Who is going to push a job whose row was just made QUEUED.
HttpPushes(j) ==
  \/ http.pc \in {"deps", "key", "hold", "push"} /\ http.job = j
  \/ http.pc = "group" /\ j \in http.todo

SchedPushes(j) ==
  \/ sched.pc = "push" /\ sched.at.job = j
  \/ sched.pc = "child" /\ sched.child = j

\* QueuedRowHasEntry with the owner of the pending push named.
QueuedIsOwned ==
  \A j \in Jobs : row[j] = "QUEUED" => queue[j] > 0 \/ HttpPushes(j) \/ SchedPushes(j)

\* The job is being submitted and its key is not yet stored.
Unkeyed(j) == http.pc \in {"deps", "key"} /\ http.job = j

\* If the job has a key and a row, the key is stored for it.
Settled(j) == Exists(j) /\ KeyOf[j] # NoKey => keys[KeyOf[j]] = j

\* Without a crash, only jobs whose key is stored can be released, refined
\* or made CREATED again, so that a job that failed for want of its key
\* never comes back.
KeysAreUsed ==
  /\ \A j \in Jobs : Settled(j) \/ Unkeyed(j) \/ row[j] = "FAILED"
  /\ \A j \in Jobs : Unkeyed(j) /\ KeyOf[j] # NoKey
                       => keys[KeyOf[j]] = NoJob /\ row[j] # "CREATED"
  /\ http.pc \in {"hold", "files", "push", "release"} => Settled(http.job)
  /\ sched.pc \notin {"idle", "next"} => row[sched.at.job] # "none" /\ Settled(sched.at.job)
  /\ \A x \in sched.todo : row[x.job] # "none" /\ Settled(x.job)

\* The bound on crashes is only counted down.
CrashesCounted == crashes \in 0..MaxCrashes

IInv ==
  /\ Typed /\ HttpJobExists
  /\ QueuedIsOwned
  /\ KeyNamesItsJob
  /\ CrashesCounted
  /\ crashes = MaxCrashes => KeysAreUsed

-----------------------------------------------------------------------------
\* The parts make up the type invariant.
LEMMA TypeOKOfTyped == Typed => TypeOK
BY DEF Typed, TypeOK, StoreTyped, HttpTyped, SchedTyped

\* A new database, an empty queue and two idle threads.
LEMMA InitTyped == Init => Typed
BY Requests DEF Init, Typed, StoreTyped, HttpTyped, SchedTyped, HttpIdle, SchedIdle, NoEntry,
     WithJob, Terminal, Status

\* Every statement writes a status, a list of jobs or a flag, and every push
\* or pop counts an entry (job_queue.c); a queue never holds fewer than none.
LEMMA StoreStep ==
  ASSUME Typed, [Next]_vars
  PROVE  StoreTyped'
<1>1. ASSUME NEW j \in Jobs, SubmitInsert(j)
      PROVE  StoreTyped'
  BY <1>1, Requests DEF SubmitInsert, Typed, StoreTyped, HttpTyped, SchedTyped, WithJob,
     Exists, Terminal, Status, Entry
<1>2. ASSUME NEW j \in Jobs, ReleaseRead(j)
      PROVE  StoreTyped'
  BY <1>2, Requests DEF ReleaseRead, Typed, StoreTyped, HttpTyped, SchedTyped, WithJob,
     Exists, Terminal, Status, Entry
<1>3. ASSUME NEW j \in Jobs, Upload(j)
      PROVE  StoreTyped'
  BY <1>3, Requests DEF Upload, Typed, StoreTyped, HttpTyped, SchedTyped, WithJob, Exists,
     Terminal, Status, Entry
<1>4. ASSUME NEW j \in Jobs, Cancel(j)
      PROVE  StoreTyped'
  BY <1>4, Requests DEF Cancel, Typed, StoreTyped, HttpTyped, SchedTyped, WithJob, Exists,
     Terminal, Status, Entry
<1>5. ASSUME NEW G \in Workflows, SubmitWorkflow(G)
      PROVE  StoreTyped'
  BY <1>5, Requests DEF SubmitWorkflow, Committed, Typed, StoreTyped, HttpTyped, SchedTyped,
     WithJob, Exists, Terminal, Status, Entry
<1>6. ASSUME NEW G \in Batches, SubmitBatch(G)
      PROVE  StoreTyped'
  BY <1>6, Requests DEF SubmitBatch, Committed, Typed, StoreTyped, HttpTyped, SchedTyped,
     WithJob, Exists, Terminal, Status, Entry
<1>7. ASSUME Purge PROVE StoreTyped'
  BY <1>7, Requests DEF Purge, Typed, StoreTyped, HttpTyped, SchedTyped, WithJob, Exists,
     Terminal, Status, Entry
<1>8. ASSUME NEW on \in BOOLEAN, admin_maintenance(on)
      PROVE  StoreTyped'
  BY <1>8, Requests DEF admin_maintenance, Typed, StoreTyped, HttpTyped, SchedTyped,
     WithJob, Exists, Terminal, Status, Entry
<1>9. ASSUME SubmitDeps PROVE StoreTyped'
  BY <1>9, Requests DEF SubmitDeps, Typed, StoreTyped, HttpTyped, SchedTyped, WithJob,
     Exists, Terminal, Status, Entry
<1>10. ASSUME SubmitKey PROVE StoreTyped'
  BY <1>10, Requests DEF SubmitKey, Typed, StoreTyped, HttpTyped, SchedTyped, WithJob,
     Exists, Terminal, Status, Entry
<1>11. ASSUME SubmitHold PROVE StoreTyped'
  BY <1>11, Requests DEF SubmitHold, Typed, StoreTyped, HttpTyped, SchedTyped, WithJob,
     Exists, Terminal, Status, Entry
<1>12. ASSUME SubmitFiles PROVE StoreTyped'
  BY <1>12, Requests DEF SubmitFiles, Typed, StoreTyped, HttpTyped, SchedTyped, WithJob,
     Exists, Terminal, Status, Entry
<1>13. ASSUME SubmitPush PROVE StoreTyped'
  BY <1>13, Requests DEF SubmitPush, Pushed, Typed, StoreTyped, HttpTyped, SchedTyped,
     WithJob, Exists, Terminal, Status, Entry
<1>14. ASSUME NEW j \in Jobs, GroupPush(j)
      PROVE  StoreTyped'
  BY <1>14, Requests DEF GroupPush, Pushed, Typed, StoreTyped, HttpTyped, SchedTyped,
     WithJob, Exists, Terminal, Status, Entry
<1>15. ASSUME GroupDone PROVE StoreTyped'
  BY <1>15, Requests DEF GroupDone, Typed, StoreTyped, HttpTyped, SchedTyped, WithJob,
     Exists, Terminal, Status, Entry
<1>16. ASSUME UploadRead PROVE StoreTyped'
  BY <1>16, Requests DEF UploadRead, Typed, StoreTyped, HttpTyped, SchedTyped, WithJob,
     Exists, Terminal, Status, Entry
<1>17. ASSUME ReleaseSet PROVE StoreTyped'
  BY <1>17, Requests DEF ReleaseSet, Typed, StoreTyped, HttpTyped, SchedTyped, WithJob,
     Exists, Terminal, Status, Entry
<1>18. ASSUME HeldSnapshot PROVE StoreTyped'
  BY <1>18, Requests DEF HeldSnapshot, Typed, StoreTyped, HttpTyped, SchedTyped, WithJob,
     Exists, Terminal, Status, Entry
<1>19. ASSUME NEW x \in sched.todo, HeldDeps(x)
      PROVE  StoreTyped'
  BY <1>19, Requests DEF HeldDeps, Typed, StoreTyped, HttpTyped, SchedTyped, WithJob,
     Exists, Terminal, Status, Entry
<1>20. ASSUME HeldCascade PROVE StoreTyped'
  BY <1>20, Requests DEF HeldCascade, Typed, StoreTyped, HttpTyped, SchedTyped, WithJob,
     Exists, Terminal, Status, Entry
<1>21. ASSUME HeldClear PROVE StoreTyped'
  BY <1>21, Requests DEF HeldClear, Typed, StoreTyped, HttpTyped, SchedTyped, WithJob,
     Exists, Terminal, Status, Entry
<1>22. ASSUME NEW Z \in SUBSET Children, HeldDecide(Z)
      PROVE  StoreTyped'
  BY <1>22, Requests DEF HeldDecide, Typed, StoreTyped, HttpTyped, SchedTyped, WithJob,
     Exists, Terminal, Status, Entry
<1>23. ASSUME NEW c \in sched.zones, RefineInsert(c)
      PROVE  StoreTyped'
  BY <1>23, Requests DEF RefineInsert, Typed, StoreTyped, HttpTyped, SchedTyped, WithJob,
     Exists, Terminal, Status, Entry
<1>24. ASSUME RefinePush PROVE StoreTyped'
  BY <1>24, Requests DEF RefinePush, Pushed, Typed, StoreTyped, HttpTyped, SchedTyped,
     WithJob, Exists, Terminal, Status, Entry
<1>25. ASSUME RefineDeps PROVE StoreTyped'
  BY <1>25, Requests DEF RefineDeps, Typed, StoreTyped, HttpTyped, SchedTyped, WithJob,
     Exists, Terminal, Status, Entry
<1>26. ASSUME RefineHold PROVE StoreTyped'
  BY <1>26, Requests DEF RefineHold, Typed, StoreTyped, HttpTyped, SchedTyped, WithJob,
     Exists, Terminal, Status, Entry
<1>27. ASSUME HeldFiles PROVE StoreTyped'
  BY <1>27, Requests DEF HeldFiles, Typed, StoreTyped, HttpTyped, SchedTyped, WithJob,
     Exists, Terminal, Status, Entry
<1>28. ASSUME HeldLoad PROVE StoreTyped'
  BY <1>28, Requests DEF HeldLoad, Typed, StoreTyped, HttpTyped, SchedTyped, WithJob,
     Exists, Terminal, Status, Entry
<1>29. ASSUME HeldSet PROVE StoreTyped'
  BY <1>29, Requests DEF HeldSet, Typed, StoreTyped, HttpTyped, SchedTyped, WithJob, Exists,
     Terminal, Status, Entry
<1>30. ASSUME HeldPush PROVE StoreTyped'
  BY <1>30, Requests DEF HeldPush, Pushed, Typed, StoreTyped, HttpTyped, SchedTyped,
     WithJob, Exists, Terminal, Status, Entry
<1>31. ASSUME HeldEnd PROVE StoreTyped'
  BY <1>31, Requests DEF HeldEnd, Typed, StoreTyped, HttpTyped, SchedTyped, WithJob, Exists,
     Terminal, Status, Entry
<1>32. ASSUME NEW j \in Jobs, Dispatch(j)
      PROVE  StoreTyped'
  BY <1>32, Requests DEF Dispatch, Typed, StoreTyped, HttpTyped, SchedTyped, WithJob,
     Exists, Terminal, Status, Entry
<1>33. ASSUME NEW j \in Jobs, Finish(j)
      PROVE  StoreTyped'
  BY <1>33, Requests DEF Finish, Typed, StoreTyped, HttpTyped, SchedTyped, WithJob, Exists,
     Terminal, Status, Entry
<1>34. ASSUME CrashRestart PROVE StoreTyped'
  BY <1>34, Requests DEF CrashRestart, Typed, StoreTyped, HttpTyped, SchedTyped, WithJob,
     Exists, Terminal, Status, Entry
<1>35. CASE UNCHANGED vars
  BY <1>35 DEF vars, Typed, StoreTyped, HttpTyped, SchedTyped, WithJob, Exists, Terminal,
     Status, Entry
<1>36. QED
  BY <1>1, <1>2, <1>3, <1>4, <1>5, <1>6, <1>7, <1>8, <1>9, <1>10, <1>11, <1>12, <1>13,
     <1>14, <1>15, <1>16, <1>17, <1>18, <1>19, <1>20, <1>21, <1>22, <1>23, <1>24, <1>25,
     <1>26, <1>27, <1>28, <1>29, <1>30, <1>31, <1>32, <1>33, <1>34, <1>35 DEF Next, Http, CheckHeld

\* The handlers of routes.c pass on the job they began with.
LEMMA HttpStep ==
  ASSUME Typed, [Next]_vars
  PROVE  HttpTyped'
<1>1. ASSUME NEW j \in Jobs, SubmitInsert(j)
      PROVE  HttpTyped'
  BY <1>1, Requests DEF SubmitInsert, HttpIdle, Typed, StoreTyped, HttpTyped, WithJob
<1>2. ASSUME NEW j \in Jobs, ReleaseRead(j)
      PROVE  HttpTyped'
  BY <1>2, Requests DEF ReleaseRead, HttpIdle, Typed, StoreTyped, HttpTyped, WithJob
<1>3. ASSUME NEW j \in Jobs, Upload(j)
      PROVE  HttpTyped'
  BY <1>3, Requests DEF Upload, HttpIdle, Typed, StoreTyped, HttpTyped, WithJob
<1>4. ASSUME NEW j \in Jobs, Cancel(j)
      PROVE  HttpTyped'
  BY <1>4, Requests DEF Cancel, Typed, StoreTyped, HttpTyped, WithJob
<1>5. ASSUME NEW G \in Workflows, SubmitWorkflow(G)
      PROVE  HttpTyped'
  BY <1>5, Requests DEF SubmitWorkflow, Committed, HttpIdle, Typed, StoreTyped, HttpTyped,
     WithJob
<1>6. ASSUME NEW G \in Batches, SubmitBatch(G)
      PROVE  HttpTyped'
  BY <1>6, Requests DEF SubmitBatch, Committed, HttpIdle, Typed, StoreTyped, HttpTyped,
     WithJob
<1>7. ASSUME Purge PROVE HttpTyped'
  BY <1>7, Requests DEF Purge, Typed, StoreTyped, HttpTyped, WithJob
<1>8. ASSUME NEW on \in BOOLEAN, admin_maintenance(on)
      PROVE  HttpTyped'
  BY <1>8, Requests DEF admin_maintenance, Typed, StoreTyped, HttpTyped, WithJob
<1>9. ASSUME SubmitDeps PROVE HttpTyped'
  BY <1>9, Requests DEF SubmitDeps, HttpGoto, Typed, StoreTyped, HttpTyped, WithJob
<1>10. ASSUME SubmitKey PROVE HttpTyped'
  BY <1>10, Requests DEF SubmitKey, HttpGoto, HttpDone, HttpIdle, Typed, StoreTyped,
     HttpTyped, WithJob
<1>11. ASSUME SubmitHold PROVE HttpTyped'
  BY <1>11, Requests DEF SubmitHold, HttpGoto, Typed, StoreTyped, HttpTyped, WithJob
<1>12. ASSUME SubmitFiles PROVE HttpTyped'
  BY <1>12, Requests DEF SubmitFiles, HttpDone, HttpIdle, Typed, StoreTyped, HttpTyped,
     WithJob
<1>13. ASSUME SubmitPush PROVE HttpTyped'
  BY <1>13, Requests DEF SubmitPush, HttpDone, HttpIdle, Typed, StoreTyped, HttpTyped,
     WithJob
<1>14. ASSUME NEW j \in Jobs, GroupPush(j)
      PROVE  HttpTyped'
  BY <1>14, Requests DEF GroupPush, Typed, StoreTyped, HttpTyped, WithJob
<1>15. ASSUME GroupDone PROVE HttpTyped'
  BY <1>15, Requests DEF GroupDone, HttpDone, HttpIdle, Typed, StoreTyped, HttpTyped,
     WithJob
<1>16. ASSUME UploadRead PROVE HttpTyped'
  BY <1>16, Requests DEF UploadRead, HttpGoto, HttpDone, HttpIdle, Typed, StoreTyped,
     HttpTyped, WithJob
<1>17. ASSUME ReleaseSet PROVE HttpTyped'
  BY <1>17, Requests DEF ReleaseSet, HttpGoto, Typed, StoreTyped, HttpTyped, WithJob
<1>18. ASSUME HeldSnapshot PROVE HttpTyped'
  BY <1>18, Requests DEF HeldSnapshot, Typed, StoreTyped, HttpTyped, WithJob
<1>19. ASSUME NEW x \in sched.todo, HeldDeps(x)
      PROVE  HttpTyped'
  BY <1>19, Requests DEF HeldDeps, Typed, StoreTyped, HttpTyped, WithJob
<1>20. ASSUME HeldCascade PROVE HttpTyped'
  BY <1>20, Requests DEF HeldCascade, Typed, StoreTyped, HttpTyped, WithJob
<1>21. ASSUME HeldClear PROVE HttpTyped'
  BY <1>21, Requests DEF HeldClear, Typed, StoreTyped, HttpTyped, WithJob
<1>22. ASSUME NEW Z \in SUBSET Children, HeldDecide(Z)
      PROVE  HttpTyped'
  BY <1>22, Requests DEF HeldDecide, Typed, StoreTyped, HttpTyped, WithJob
<1>23. ASSUME NEW c \in sched.zones, RefineInsert(c)
      PROVE  HttpTyped'
  BY <1>23, Requests DEF RefineInsert, Typed, StoreTyped, HttpTyped, WithJob
<1>24. ASSUME RefinePush PROVE HttpTyped'
  BY <1>24, Requests DEF RefinePush, Typed, StoreTyped, HttpTyped, WithJob
<1>25. ASSUME RefineDeps PROVE HttpTyped'
  BY <1>25, Requests DEF RefineDeps, Typed, StoreTyped, HttpTyped, WithJob
<1>26. ASSUME RefineHold PROVE HttpTyped'
  BY <1>26, Requests DEF RefineHold, Typed, StoreTyped, HttpTyped, WithJob
<1>27. ASSUME HeldFiles PROVE HttpTyped'
  BY <1>27, Requests DEF HeldFiles, Typed, StoreTyped, HttpTyped, WithJob
<1>28. ASSUME HeldLoad PROVE HttpTyped'
  BY <1>28, Requests DEF HeldLoad, Typed, StoreTyped, HttpTyped, WithJob
<1>29. ASSUME HeldSet PROVE HttpTyped'
  BY <1>29, Requests DEF HeldSet, Typed, StoreTyped, HttpTyped, WithJob
<1>30. ASSUME HeldPush PROVE HttpTyped'
  BY <1>30, Requests DEF HeldPush, Typed, StoreTyped, HttpTyped, WithJob
<1>31. ASSUME HeldEnd PROVE HttpTyped'
  BY <1>31, Requests DEF HeldEnd, Typed, StoreTyped, HttpTyped, WithJob
<1>32. ASSUME NEW j \in Jobs, Dispatch(j)
      PROVE  HttpTyped'
  BY <1>32, Requests DEF Dispatch, Typed, StoreTyped, HttpTyped, WithJob
<1>33. ASSUME NEW j \in Jobs, Finish(j)
      PROVE  HttpTyped'
  BY <1>33, Requests DEF Finish, Typed, StoreTyped, HttpTyped, WithJob
<1>34. ASSUME CrashRestart PROVE HttpTyped'
  BY <1>34, Requests DEF CrashRestart, HttpIdle, Typed, StoreTyped, HttpTyped, WithJob
<1>35. CASE UNCHANGED vars
  BY <1>35 DEF vars, Typed, StoreTyped, HttpTyped, WithJob
<1>36. QED
  BY <1>1, <1>2, <1>3, <1>4, <1>5, <1>6, <1>7, <1>8, <1>9, <1>10, <1>11, <1>12, <1>13,
     <1>14, <1>15, <1>16, <1>17, <1>18, <1>19, <1>20, <1>21, <1>22, <1>23, <1>24, <1>25,
     <1>26, <1>27, <1>28, <1>29, <1>30, <1>31, <1>32, <1>33, <1>34, <1>35 DEF Next, Http, CheckHeld

\* The held-job check goes on with the rest of its snapshot.
LEMMA SchedNextTyped ==
  ASSUME Typed, SchedNext
  PROVE  SchedTyped'
<1>1. sched.todo \in SUBSET Entry
  BY DEF Typed, SchedTyped
<1>2. sched' = [pc |-> "next", todo |-> sched.todo, at |-> NoEntry, mem |-> "none",
                zones |-> {}, child |-> NoJob, made |-> {}]
  BY DEF SchedNext, SchedIdle
<1>3. QED
  BY <1>1, <1>2 DEF SchedTyped, Entry

\* scheduler_check_held_jobs goes on with an entry of its snapshot.
LEMMA SchedStep ==
  ASSUME Typed, [Next]_vars
  PROVE  SchedTyped'
<1>1. ASSUME NEW j \in Jobs, SubmitInsert(j)
      PROVE  SchedTyped'
  BY <1>1, Requests DEF SubmitInsert, Typed, StoreTyped, SchedTyped, Exists, Status, Entry
<1>2. ASSUME NEW j \in Jobs, ReleaseRead(j)
      PROVE  SchedTyped'
  BY <1>2, Requests DEF ReleaseRead, Typed, StoreTyped, SchedTyped, Exists, Status, Entry
<1>3. ASSUME NEW j \in Jobs, Upload(j)
      PROVE  SchedTyped'
  BY <1>3, Requests DEF Upload, Typed, StoreTyped, SchedTyped, Exists, Status, Entry
<1>4. ASSUME NEW j \in Jobs, Cancel(j)
      PROVE  SchedTyped'
  BY <1>4, Requests DEF Cancel, Typed, StoreTyped, SchedTyped, Exists, Status, Entry
<1>5. ASSUME NEW G \in Workflows, SubmitWorkflow(G)
      PROVE  SchedTyped'
  BY <1>5, Requests DEF SubmitWorkflow, Committed, Typed, StoreTyped, SchedTyped, Exists,
     Status, Entry
<1>6. ASSUME NEW G \in Batches, SubmitBatch(G)
      PROVE  SchedTyped'
  BY <1>6, Requests DEF SubmitBatch, Committed, Typed, StoreTyped, SchedTyped, Exists,
     Status, Entry
<1>7. ASSUME Purge PROVE SchedTyped'
  BY <1>7, Requests DEF Purge, Typed, StoreTyped, SchedTyped, Exists, Status, Entry
<1>8. ASSUME NEW on \in BOOLEAN, admin_maintenance(on)
      PROVE  SchedTyped'
  BY <1>8, Requests DEF admin_maintenance, Typed, StoreTyped, SchedTyped, Exists, Status,
     Entry
<1>9. ASSUME SubmitDeps PROVE SchedTyped'
  BY <1>9, Requests DEF SubmitDeps, Typed, StoreTyped, SchedTyped, Exists, Status, Entry
<1>10. ASSUME SubmitKey PROVE SchedTyped'
  BY <1>10, Requests DEF SubmitKey, Typed, StoreTyped, SchedTyped, Exists, Status, Entry
<1>11. ASSUME SubmitHold PROVE SchedTyped'
  BY <1>11, Requests DEF SubmitHold, Typed, StoreTyped, SchedTyped, Exists, Status, Entry
<1>12. ASSUME SubmitFiles PROVE SchedTyped'
  BY <1>12, Requests DEF SubmitFiles, Typed, StoreTyped, SchedTyped, Exists, Status, Entry
<1>13. ASSUME SubmitPush PROVE SchedTyped'
  BY <1>13, Requests DEF SubmitPush, Typed, StoreTyped, SchedTyped, Exists, Status, Entry
<1>14. ASSUME NEW j \in Jobs, GroupPush(j)
      PROVE  SchedTyped'
  BY <1>14, Requests DEF GroupPush, Typed, StoreTyped, SchedTyped, Exists, Status, Entry
<1>15. ASSUME GroupDone PROVE SchedTyped'
  BY <1>15, Requests DEF GroupDone, Typed, StoreTyped, SchedTyped, Exists, Status, Entry
<1>16. ASSUME UploadRead PROVE SchedTyped'
  BY <1>16, Requests DEF UploadRead, Typed, StoreTyped, SchedTyped, Exists, Status, Entry
<1>17. ASSUME ReleaseSet PROVE SchedTyped'
  BY <1>17, Requests DEF ReleaseSet, Typed, StoreTyped, SchedTyped, Exists, Status, Entry
<1>18. ASSUME HeldSnapshot PROVE SchedTyped'
  <2>1. {[job |-> j, deps |-> deps[j], files |-> files[j]] : j \in {i \in Jobs : row[i] = "CREATED"}}
          \in SUBSET Entry
    BY DEF Typed, StoreTyped, Entry
  <2>2. PICK T \in SUBSET Entry : sched' = [SchedIdle EXCEPT !.pc = "next", !.todo = T]
    BY <1>18, <2>1 DEF HeldSnapshot
  <2>3. sched' = [pc |-> "next", todo |-> T, at |-> NoEntry, mem |-> "none",
                  zones |-> {}, child |-> NoJob, made |-> {}]
    BY <2>2 DEF SchedIdle
  <2>4. QED
    BY <2>3 DEF SchedTyped
<1>19. ASSUME NEW x \in sched.todo, HeldDeps(x)
      PROVE  SchedTyped'
  <2>1. x \in Entry /\ sched.todo \ {x} \in SUBSET Entry
    BY DEF Typed, SchedTyped
  <2>2. CASE sched' = [sched EXCEPT !.todo = @ \ {x}, !.at = x, !.pc = "cascade"]
    BY <2>1, <2>2 DEF Typed, SchedTyped
  <2>3. CASE sched' = [sched EXCEPT !.todo = @ \ {x}]
    BY <1>19, <2>1, <2>3 DEF Typed, SchedTyped, HeldDeps
  <2>4. CASE sched' = [sched EXCEPT !.todo = @ \ {x}, !.at = x,
                                    !.pc = IF x.deps = {} THEN "files" ELSE "clear"]
    BY <2>1, <2>4 DEF Typed, SchedTyped
  <2>5. QED
    BY <1>19, <2>2, <2>3, <2>4 DEF HeldDeps
<1>20. ASSUME HeldCascade PROVE SchedTyped'
  BY <1>20, SchedNextTyped DEF HeldCascade
<1>21. ASSUME HeldClear PROVE SchedTyped'
  BY <1>21, Requests DEF HeldClear, Typed, StoreTyped, SchedTyped, Exists, Status, Entry
<1>22. ASSUME NEW Z \in SUBSET Children, HeldDecide(Z)
      PROVE  SchedTyped'
  BY <1>22, Requests DEF HeldDecide, Typed, StoreTyped, SchedTyped, Exists, Status, Entry
<1>23. ASSUME NEW c \in sched.zones, RefineInsert(c)
      PROVE  SchedTyped'
  <2>1. sched.pc = "refine" /\ sched.at \in Entry /\ c \in Children
    BY <1>23 DEF RefineInsert, Typed, SchedTyped
  <2>2. sched' = [sched EXCEPT !.pc = "child", !.child = c, !.zones = @ \ {c}, !.made = @ \cup {c}]
    BY <1>23 DEF RefineInsert
  <2>3. QED
    BY <2>1, <2>2 DEF Typed, SchedTyped
<1>24. ASSUME RefinePush PROVE SchedTyped'
  BY <1>24, Requests DEF RefinePush, Typed, StoreTyped, SchedTyped, Exists, Status, Entry
<1>25. ASSUME RefineDeps PROVE SchedTyped'
  BY <1>25, Requests DEF RefineDeps, Typed, StoreTyped, SchedTyped, Exists, Status, Entry
<1>26. ASSUME RefineHold PROVE SchedTyped'
  BY <1>26, Requests DEF RefineHold, Typed, StoreTyped, SchedTyped, Exists, Status, Entry
<1>27. ASSUME HeldFiles PROVE SchedTyped'
  <2>1. CASE SchedNext
    BY <2>1, SchedNextTyped
  <2>2. CASE sched' = [sched EXCEPT !.pc = "load"]
    BY <1>27, <2>2 DEF HeldFiles, Typed, SchedTyped
  <2>3. QED
    BY <1>27, <2>1, <2>2 DEF HeldFiles
<1>28. ASSUME HeldLoad PROVE SchedTyped'
  <2>1. CASE SchedNext
    BY <2>1, SchedNextTyped
  <2>2. CASE ~SchedNext
    <3>1. sched.pc = "load" /\ sched.at \in Entry /\ Exists(sched.at.job)
      BY <1>28, <2>2 DEF HeldLoad, Typed, SchedTyped
    <3>2. row[sched.at.job] \in Status
      BY <3>1 DEF Exists, Entry, Typed, StoreTyped
    <3>3. sched' = [sched EXCEPT !.pc = "set", !.mem = row[sched.at.job]]
      BY <1>28, <2>2 DEF HeldLoad
    <3>4. QED
      BY <3>1, <3>2, <3>3 DEF Typed, SchedTyped
  <2>3. QED
    BY <2>1, <2>2
<1>29. ASSUME HeldSet PROVE SchedTyped'
  BY <1>29, Requests DEF HeldSet, Typed, StoreTyped, SchedTyped, Exists, Status, Entry
<1>30. ASSUME HeldPush PROVE SchedTyped'
  BY <1>30, SchedNextTyped DEF HeldPush
<1>31. ASSUME HeldEnd PROVE SchedTyped'
  BY <1>31, Requests DEF HeldEnd, SchedIdle, NoEntry, Typed, StoreTyped, SchedTyped, Exists,
     Status, Entry
<1>32. ASSUME NEW j \in Jobs, Dispatch(j)
      PROVE  SchedTyped'
  BY <1>32, Requests DEF Dispatch, Typed, StoreTyped, SchedTyped, Exists, Status, Entry
<1>33. ASSUME NEW j \in Jobs, Finish(j)
      PROVE  SchedTyped'
  BY <1>33, Requests DEF Finish, Typed, StoreTyped, SchedTyped, Exists, Status, Entry
<1>34. ASSUME CrashRestart PROVE SchedTyped'
  BY <1>34, Requests DEF CrashRestart, SchedIdle, NoEntry, Typed, StoreTyped, SchedTyped,
     Exists, Status, Entry
<1>35. CASE UNCHANGED vars
  BY <1>35 DEF vars, Typed, StoreTyped, SchedTyped, Exists, Status, Entry
<1>36. QED
  BY <1>1, <1>2, <1>3, <1>4, <1>5, <1>6, <1>7, <1>8, <1>9, <1>10, <1>11, <1>12, <1>13,
     <1>14, <1>15, <1>16, <1>17, <1>18, <1>19, <1>20, <1>21, <1>22, <1>23, <1>24, <1>25,
     <1>26, <1>27, <1>28, <1>29, <1>30, <1>31, <1>32, <1>33, <1>34, <1>35 DEF Next, Http, CheckHeld

\* Every step keeps the types.
LEMMA TypedStep ==
  ASSUME Typed, [Next]_vars
  PROVE  Typed'
BY StoreStep, HttpStep, SchedStep DEF Typed

-----------------------------------------------------------------------------
(* Rows do not disappear, and QUEUED rows are pushed. *)

\* Only db_purge_jobs deletes rows.
LEMMA OnlyPurgeDeletes ==
  ASSUME Typed, NEW i \in Jobs, Exists(i), [Next]_vars
  PROVE  Purge \/ Exists(i)'
<1>1. ASSUME NEW j \in Jobs, SubmitInsert(j)
      PROVE  Purge \/ Exists(i)'
  BY <1>1, Requests DEF SubmitInsert, Typed, StoreTyped, HttpTyped, SchedTyped, WithJob,
     Exists, Terminal, Status, Entry
<1>2. ASSUME NEW j \in Jobs, ReleaseRead(j)
      PROVE  Purge \/ Exists(i)'
  BY <1>2, Requests DEF ReleaseRead, Typed, StoreTyped, HttpTyped, SchedTyped, WithJob,
     Exists, Terminal, Status, Entry
<1>3. ASSUME NEW j \in Jobs, Upload(j)
      PROVE  Purge \/ Exists(i)'
  BY <1>3, Requests DEF Upload, Typed, StoreTyped, HttpTyped, SchedTyped, WithJob, Exists,
     Terminal, Status, Entry
<1>4. ASSUME NEW j \in Jobs, Cancel(j)
      PROVE  Purge \/ Exists(i)'
  BY <1>4, Requests DEF Cancel, Typed, StoreTyped, HttpTyped, SchedTyped, WithJob, Exists,
     Terminal, Status, Entry
<1>5. ASSUME NEW G \in Workflows, SubmitWorkflow(G)
      PROVE  Purge \/ Exists(i)'
  BY <1>5, Requests DEF SubmitWorkflow, Committed, Typed, StoreTyped, HttpTyped, SchedTyped,
     WithJob, Exists, Terminal, Status, Entry
<1>6. ASSUME NEW G \in Batches, SubmitBatch(G)
      PROVE  Purge \/ Exists(i)'
  BY <1>6, Requests DEF SubmitBatch, Committed, Typed, StoreTyped, HttpTyped, SchedTyped,
     WithJob, Exists, Terminal, Status, Entry
<1>7. ASSUME Purge PROVE Purge \/ Exists(i)'
  BY <1>7, Requests DEF Purge, Typed, StoreTyped, HttpTyped, SchedTyped, WithJob, Exists,
     Terminal, Status, Entry
<1>8. ASSUME NEW on \in BOOLEAN, admin_maintenance(on)
      PROVE  Purge \/ Exists(i)'
  BY <1>8, Requests DEF admin_maintenance, Typed, StoreTyped, HttpTyped, SchedTyped,
     WithJob, Exists, Terminal, Status, Entry
<1>9. ASSUME SubmitDeps PROVE Purge \/ Exists(i)'
  BY <1>9, Requests DEF SubmitDeps, Typed, StoreTyped, HttpTyped, SchedTyped, WithJob,
     Exists, Terminal, Status, Entry
<1>10. ASSUME SubmitKey PROVE Purge \/ Exists(i)'
  BY <1>10, Requests DEF SubmitKey, Typed, StoreTyped, HttpTyped, SchedTyped, WithJob,
     Exists, Terminal, Status, Entry
<1>11. ASSUME SubmitHold PROVE Purge \/ Exists(i)'
  BY <1>11, Requests DEF SubmitHold, Typed, StoreTyped, HttpTyped, SchedTyped, WithJob,
     Exists, Terminal, Status, Entry
<1>12. ASSUME SubmitFiles PROVE Purge \/ Exists(i)'
  BY <1>12, Requests DEF SubmitFiles, Typed, StoreTyped, HttpTyped, SchedTyped, WithJob,
     Exists, Terminal, Status, Entry
<1>13. ASSUME SubmitPush PROVE Purge \/ Exists(i)'
  BY <1>13, Requests DEF SubmitPush, Typed, StoreTyped, HttpTyped, SchedTyped, WithJob,
     Exists, Terminal, Status, Entry
<1>14. ASSUME NEW j \in Jobs, GroupPush(j)
      PROVE  Purge \/ Exists(i)'
  BY <1>14, Requests DEF GroupPush, Typed, StoreTyped, HttpTyped, SchedTyped, WithJob,
     Exists, Terminal, Status, Entry
<1>15. ASSUME GroupDone PROVE Purge \/ Exists(i)'
  BY <1>15, Requests DEF GroupDone, Typed, StoreTyped, HttpTyped, SchedTyped, WithJob,
     Exists, Terminal, Status, Entry
<1>16. ASSUME UploadRead PROVE Purge \/ Exists(i)'
  BY <1>16, Requests DEF UploadRead, Typed, StoreTyped, HttpTyped, SchedTyped, WithJob,
     Exists, Terminal, Status, Entry
<1>17. ASSUME ReleaseSet PROVE Purge \/ Exists(i)'
  BY <1>17, Requests DEF ReleaseSet, Typed, StoreTyped, HttpTyped, SchedTyped, WithJob,
     Exists, Terminal, Status, Entry
<1>18. ASSUME HeldSnapshot PROVE Purge \/ Exists(i)'
  BY <1>18, Requests DEF HeldSnapshot, Typed, StoreTyped, HttpTyped, SchedTyped, WithJob,
     Exists, Terminal, Status, Entry
<1>19. ASSUME NEW x \in sched.todo, HeldDeps(x)
      PROVE  Purge \/ Exists(i)'
  BY <1>19, Requests DEF HeldDeps, Typed, StoreTyped, HttpTyped, SchedTyped, WithJob,
     Exists, Terminal, Status, Entry
<1>20. ASSUME HeldCascade PROVE Purge \/ Exists(i)'
  BY <1>20, Requests DEF HeldCascade, Typed, StoreTyped, HttpTyped, SchedTyped, WithJob,
     Exists, Terminal, Status, Entry
<1>21. ASSUME HeldClear PROVE Purge \/ Exists(i)'
  BY <1>21, Requests DEF HeldClear, Typed, StoreTyped, HttpTyped, SchedTyped, WithJob,
     Exists, Terminal, Status, Entry
<1>22. ASSUME NEW Z \in SUBSET Children, HeldDecide(Z)
      PROVE  Purge \/ Exists(i)'
  BY <1>22, Requests DEF HeldDecide, Typed, StoreTyped, HttpTyped, SchedTyped, WithJob,
     Exists, Terminal, Status, Entry
<1>23. ASSUME NEW c \in sched.zones, RefineInsert(c)
      PROVE  Purge \/ Exists(i)'
  BY <1>23, Requests DEF RefineInsert, Typed, StoreTyped, HttpTyped, SchedTyped, WithJob,
     Exists, Terminal, Status, Entry
<1>24. ASSUME RefinePush PROVE Purge \/ Exists(i)'
  BY <1>24, Requests DEF RefinePush, Typed, StoreTyped, HttpTyped, SchedTyped, WithJob,
     Exists, Terminal, Status, Entry
<1>25. ASSUME RefineDeps PROVE Purge \/ Exists(i)'
  BY <1>25, Requests DEF RefineDeps, Typed, StoreTyped, HttpTyped, SchedTyped, WithJob,
     Exists, Terminal, Status, Entry
<1>26. ASSUME RefineHold PROVE Purge \/ Exists(i)'
  BY <1>26, Requests DEF RefineHold, Typed, StoreTyped, HttpTyped, SchedTyped, WithJob,
     Exists, Terminal, Status, Entry
<1>27. ASSUME HeldFiles PROVE Purge \/ Exists(i)'
  BY <1>27, Requests DEF HeldFiles, Typed, StoreTyped, HttpTyped, SchedTyped, WithJob,
     Exists, Terminal, Status, Entry
<1>28. ASSUME HeldLoad PROVE Purge \/ Exists(i)'
  BY <1>28, Requests DEF HeldLoad, Typed, StoreTyped, HttpTyped, SchedTyped, WithJob,
     Exists, Terminal, Status, Entry
<1>29. ASSUME HeldSet PROVE Purge \/ Exists(i)'
  BY <1>29, Requests DEF HeldSet, Typed, StoreTyped, HttpTyped, SchedTyped, WithJob, Exists,
     Terminal, Status, Entry
<1>30. ASSUME HeldPush PROVE Purge \/ Exists(i)'
  BY <1>30, Requests DEF HeldPush, Typed, StoreTyped, HttpTyped, SchedTyped, WithJob,
     Exists, Terminal, Status, Entry
<1>31. ASSUME HeldEnd PROVE Purge \/ Exists(i)'
  BY <1>31, Requests DEF HeldEnd, Typed, StoreTyped, HttpTyped, SchedTyped, WithJob, Exists,
     Terminal, Status, Entry
<1>32. ASSUME NEW j \in Jobs, Dispatch(j)
      PROVE  Purge \/ Exists(i)'
  BY <1>32, Requests DEF Dispatch, Typed, StoreTyped, HttpTyped, SchedTyped, WithJob,
     Exists, Terminal, Status, Entry
<1>33. ASSUME NEW j \in Jobs, Finish(j)
      PROVE  Purge \/ Exists(i)'
  BY <1>33, Requests DEF Finish, Typed, StoreTyped, HttpTyped, SchedTyped, WithJob, Exists,
     Terminal, Status, Entry
<1>34. ASSUME CrashRestart PROVE Purge \/ Exists(i)'
  BY <1>34, Requests DEF CrashRestart, Typed, StoreTyped, HttpTyped, SchedTyped, WithJob,
     Exists, Terminal, Status, Entry
<1>35. CASE UNCHANGED vars
  BY <1>35 DEF vars, Typed, StoreTyped, HttpTyped, SchedTyped, WithJob, Exists, Terminal,
     Status, Entry
<1>36. QED
  BY <1>1, <1>2, <1>3, <1>4, <1>5, <1>6, <1>7, <1>8, <1>9, <1>10, <1>11, <1>12, <1>13,
     <1>14, <1>15, <1>16, <1>17, <1>18, <1>19, <1>20, <1>21, <1>22, <1>23, <1>24, <1>25,
     <1>26, <1>27, <1>28, <1>29, <1>30, <1>31, <1>32, <1>33, <1>34, <1>35 DEF Next, Http, CheckHeld

\* Only the HTTP thread deletes rows, and it does nothing else meanwhile.
LEMMA HttpJobStep ==
  ASSUME Typed, HttpJobExists, [Next]_vars
  PROVE  HttpJobExists'
<1>1. ASSUME NEW j \in Jobs, SubmitInsert(j)
      PROVE  HttpJobExists'
  BY <1>1 DEF SubmitInsert, HttpIdle, Typed, StoreTyped, HttpJobExists, WithJob, Exists
<1>2. ASSUME NEW j \in Jobs, ReleaseRead(j)
      PROVE  HttpJobExists'
  BY <1>2, OnlyPurgeDeletes DEF ReleaseRead, HttpIdle, Typed, HttpTyped, HttpJobExists,
     WithJob, Exists
<1>3. ASSUME NEW j \in Jobs, Upload(j)
      PROVE  HttpJobExists'
  BY <1>3, OnlyPurgeDeletes DEF Upload, HttpIdle, Typed, HttpTyped, HttpJobExists, WithJob,
     Exists
<1>4. ASSUME NEW j \in Jobs, Cancel(j)
      PROVE  HttpJobExists'
  BY <1>4, OnlyPurgeDeletes DEF Cancel, Typed, HttpTyped, HttpJobExists, WithJob, Exists
<1>5. ASSUME NEW G \in Workflows, SubmitWorkflow(G)
      PROVE  HttpJobExists'
  BY <1>5, OnlyPurgeDeletes DEF SubmitWorkflow, Committed, HttpIdle, Typed, HttpTyped,
     HttpJobExists, WithJob, Exists
<1>6. ASSUME NEW G \in Batches, SubmitBatch(G)
      PROVE  HttpJobExists'
  BY <1>6, OnlyPurgeDeletes DEF SubmitBatch, Committed, HttpIdle, Typed, HttpTyped,
     HttpJobExists, WithJob, Exists
<1>7. ASSUME Purge PROVE HttpJobExists'
  BY <1>7, OnlyPurgeDeletes DEF Purge, Typed, HttpTyped, HttpJobExists, WithJob, Exists
<1>8. ASSUME NEW on \in BOOLEAN, admin_maintenance(on)
      PROVE  HttpJobExists'
  BY <1>8, OnlyPurgeDeletes DEF admin_maintenance, Typed, HttpTyped, HttpJobExists, WithJob,
     Exists
<1>9. ASSUME SubmitDeps PROVE HttpJobExists'
  BY <1>9, OnlyPurgeDeletes DEF SubmitDeps, HttpGoto, Typed, HttpTyped, HttpJobExists,
     WithJob, Exists
<1>10. ASSUME SubmitKey PROVE HttpJobExists'
  BY <1>10, OnlyPurgeDeletes DEF SubmitKey, HttpGoto, HttpDone, HttpIdle, Typed, HttpTyped,
     HttpJobExists, WithJob, Exists
<1>11. ASSUME SubmitHold PROVE HttpJobExists'
  BY <1>11, OnlyPurgeDeletes DEF SubmitHold, HttpGoto, Typed, HttpTyped, HttpJobExists,
     WithJob, Exists
<1>12. ASSUME SubmitFiles PROVE HttpJobExists'
  BY <1>12, OnlyPurgeDeletes DEF SubmitFiles, HttpDone, HttpIdle, Typed, HttpTyped,
     HttpJobExists, WithJob, Exists
<1>13. ASSUME SubmitPush PROVE HttpJobExists'
  BY <1>13, OnlyPurgeDeletes DEF SubmitPush, HttpDone, HttpIdle, Typed, HttpTyped,
     HttpJobExists, WithJob, Exists
<1>14. ASSUME NEW j \in Jobs, GroupPush(j)
      PROVE  HttpJobExists'
  BY <1>14, OnlyPurgeDeletes DEF GroupPush, Typed, HttpTyped, HttpJobExists, WithJob, Exists
<1>15. ASSUME GroupDone PROVE HttpJobExists'
  BY <1>15, OnlyPurgeDeletes DEF GroupDone, HttpDone, HttpIdle, Typed, HttpTyped,
     HttpJobExists, WithJob, Exists
<1>16. ASSUME UploadRead PROVE HttpJobExists'
  BY <1>16, OnlyPurgeDeletes DEF UploadRead, HttpGoto, HttpDone, HttpIdle, Typed, HttpTyped,
     HttpJobExists, WithJob, Exists
<1>17. ASSUME ReleaseSet PROVE HttpJobExists'
  BY <1>17, OnlyPurgeDeletes DEF ReleaseSet, HttpGoto, Typed, HttpTyped, HttpJobExists,
     WithJob, Exists
<1>18. ASSUME HeldSnapshot PROVE HttpJobExists'
  BY <1>18, OnlyPurgeDeletes DEF HeldSnapshot, Typed, HttpTyped, HttpJobExists, WithJob,
     Exists
<1>19. ASSUME NEW x \in sched.todo, HeldDeps(x)
      PROVE  HttpJobExists'
  BY <1>19, OnlyPurgeDeletes DEF HeldDeps, Typed, HttpTyped, HttpJobExists, WithJob, Exists
<1>20. ASSUME HeldCascade PROVE HttpJobExists'
  BY <1>20, OnlyPurgeDeletes DEF HeldCascade, Typed, HttpTyped, HttpJobExists, WithJob,
     Exists
<1>21. ASSUME HeldClear PROVE HttpJobExists'
  BY <1>21, OnlyPurgeDeletes DEF HeldClear, Typed, HttpTyped, HttpJobExists, WithJob, Exists
<1>22. ASSUME NEW Z \in SUBSET Children, HeldDecide(Z)
      PROVE  HttpJobExists'
  BY <1>22, OnlyPurgeDeletes DEF HeldDecide, Typed, HttpTyped, HttpJobExists, WithJob,
     Exists
<1>23. ASSUME NEW c \in sched.zones, RefineInsert(c)
      PROVE  HttpJobExists'
  BY <1>23, OnlyPurgeDeletes DEF RefineInsert, Typed, HttpTyped, HttpJobExists, WithJob,
     Exists
<1>24. ASSUME RefinePush PROVE HttpJobExists'
  BY <1>24, OnlyPurgeDeletes DEF RefinePush, Typed, HttpTyped, HttpJobExists, WithJob,
     Exists
<1>25. ASSUME RefineDeps PROVE HttpJobExists'
  BY <1>25, OnlyPurgeDeletes DEF RefineDeps, Typed, HttpTyped, HttpJobExists, WithJob,
     Exists
<1>26. ASSUME RefineHold PROVE HttpJobExists'
  BY <1>26, OnlyPurgeDeletes DEF RefineHold, Typed, HttpTyped, HttpJobExists, WithJob,
     Exists
<1>27. ASSUME HeldFiles PROVE HttpJobExists'
  BY <1>27, OnlyPurgeDeletes DEF HeldFiles, Typed, HttpTyped, HttpJobExists, WithJob, Exists
<1>28. ASSUME HeldLoad PROVE HttpJobExists'
  BY <1>28, OnlyPurgeDeletes DEF HeldLoad, Typed, HttpTyped, HttpJobExists, WithJob, Exists
<1>29. ASSUME HeldSet PROVE HttpJobExists'
  BY <1>29, OnlyPurgeDeletes DEF HeldSet, Typed, HttpTyped, HttpJobExists, WithJob, Exists
<1>30. ASSUME HeldPush PROVE HttpJobExists'
  BY <1>30, OnlyPurgeDeletes DEF HeldPush, Typed, HttpTyped, HttpJobExists, WithJob, Exists
<1>31. ASSUME HeldEnd PROVE HttpJobExists'
  BY <1>31, OnlyPurgeDeletes DEF HeldEnd, Typed, HttpTyped, HttpJobExists, WithJob, Exists
<1>32. ASSUME NEW j \in Jobs, Dispatch(j)
      PROVE  HttpJobExists'
  BY <1>32, OnlyPurgeDeletes DEF Dispatch, Typed, HttpTyped, HttpJobExists, WithJob, Exists
<1>33. ASSUME NEW j \in Jobs, Finish(j)
      PROVE  HttpJobExists'
  BY <1>33, OnlyPurgeDeletes DEF Finish, Typed, HttpTyped, HttpJobExists, WithJob, Exists
<1>34. ASSUME CrashRestart PROVE HttpJobExists'
  BY <1>34, OnlyPurgeDeletes DEF CrashRestart, HttpIdle, Typed, HttpTyped, HttpJobExists,
     WithJob, Exists
<1>35. CASE UNCHANGED vars
  BY <1>35 DEF vars, Typed, HttpTyped, HttpJobExists, WithJob, Exists
<1>36. QED
  BY <1>1, <1>2, <1>3, <1>4, <1>5, <1>6, <1>7, <1>8, <1>9, <1>10, <1>11, <1>12, <1>13,
     <1>14, <1>15, <1>16, <1>17, <1>18, <1>19, <1>20, <1>21, <1>22, <1>23, <1>24, <1>25,
     <1>26, <1>27, <1>28, <1>29, <1>30, <1>31, <1>32, <1>33, <1>34, <1>35 DEF Next, Http, CheckHeld

\* A row that becomes QUEUED gets an owner, and an owner leaves an entry
\* behind.
LEMMA QueuedIsOwnedStep ==
  ASSUME Typed, QueuedIsOwned, [Next]_vars
  PROVE  QueuedIsOwned'
<1>1. ASSUME NEW j \in Jobs, SubmitInsert(j)
      PROVE  QueuedIsOwned'
  BY <1>1, Requests DEF SubmitInsert, HttpIdle, Typed, StoreTyped, HttpTyped, SchedTyped,
     WithJob, Entry, QueuedIsOwned, HttpPushes, SchedPushes
<1>2. ASSUME NEW j \in Jobs, ReleaseRead(j)
      PROVE  QueuedIsOwned'
  BY <1>2, Requests DEF ReleaseRead, HttpIdle, Typed, StoreTyped, HttpTyped, SchedTyped,
     WithJob, Entry, QueuedIsOwned, HttpPushes, SchedPushes
<1>3. ASSUME NEW j \in Jobs, Upload(j)
      PROVE  QueuedIsOwned'
  BY <1>3, Requests DEF Upload, HttpIdle, Typed, StoreTyped, HttpTyped, SchedTyped, WithJob,
     Entry, QueuedIsOwned, HttpPushes, SchedPushes
<1>4. ASSUME NEW j \in Jobs, Cancel(j)
      PROVE  QueuedIsOwned'
  BY <1>4, Requests DEF Cancel, Typed, StoreTyped, HttpTyped, SchedTyped, WithJob, Entry,
     QueuedIsOwned, HttpPushes, SchedPushes
<1>5. ASSUME NEW G \in Workflows, SubmitWorkflow(G)
      PROVE  QueuedIsOwned'
  BY <1>5, Requests DEF SubmitWorkflow, Committed, HttpIdle, Typed, StoreTyped, HttpTyped,
     SchedTyped, WithJob, Entry, QueuedIsOwned, HttpPushes, SchedPushes
<1>6. ASSUME NEW G \in Batches, SubmitBatch(G)
      PROVE  QueuedIsOwned'
  BY <1>6, Requests DEF SubmitBatch, Committed, HttpIdle, Typed, StoreTyped, HttpTyped,
     SchedTyped, WithJob, Entry, QueuedIsOwned, HttpPushes, SchedPushes
<1>7. ASSUME Purge PROVE QueuedIsOwned'
  BY <1>7, Requests DEF Purge, Typed, StoreTyped, HttpTyped, SchedTyped, WithJob, Entry,
     QueuedIsOwned, HttpPushes, SchedPushes
<1>8. ASSUME NEW on \in BOOLEAN, admin_maintenance(on)
      PROVE  QueuedIsOwned'
  BY <1>8, Requests DEF admin_maintenance, Typed, StoreTyped, HttpTyped, SchedTyped,
     WithJob, Entry, QueuedIsOwned, HttpPushes, SchedPushes
<1>9. ASSUME SubmitDeps PROVE QueuedIsOwned'
  BY <1>9, Requests DEF SubmitDeps, HttpGoto, Typed, StoreTyped, HttpTyped, SchedTyped,
     WithJob, Entry, QueuedIsOwned, HttpPushes, SchedPushes
<1>10. ASSUME SubmitKey PROVE QueuedIsOwned'
  BY <1>10, Requests DEF SubmitKey, HttpGoto, HttpDone, HttpIdle, Typed, StoreTyped,
     HttpTyped, SchedTyped, WithJob, Entry, QueuedIsOwned, HttpPushes, SchedPushes
<1>11. ASSUME SubmitHold PROVE QueuedIsOwned'
  BY <1>11, Requests DEF SubmitHold, HttpGoto, Typed, StoreTyped, HttpTyped, SchedTyped,
     WithJob, Entry, QueuedIsOwned, HttpPushes, SchedPushes
<1>12. ASSUME SubmitFiles PROVE QueuedIsOwned'
  BY <1>12, Requests DEF SubmitFiles, HttpDone, HttpIdle, Typed, StoreTyped, HttpTyped,
     SchedTyped, WithJob, Entry, QueuedIsOwned, HttpPushes, SchedPushes
<1>13. ASSUME SubmitPush PROVE QueuedIsOwned'
  BY <1>13, Requests DEF SubmitPush, HttpDone, HttpIdle, Pushed, Typed, StoreTyped,
     HttpTyped, SchedTyped, WithJob, Entry, QueuedIsOwned, HttpPushes, SchedPushes
<1>14. ASSUME NEW j \in Jobs, GroupPush(j)
      PROVE  QueuedIsOwned'
  BY <1>14, Requests DEF GroupPush, Pushed, Typed, StoreTyped, HttpTyped, SchedTyped,
     WithJob, Entry, QueuedIsOwned, HttpPushes, SchedPushes
<1>15. ASSUME GroupDone PROVE QueuedIsOwned'
  BY <1>15, Requests DEF GroupDone, HttpDone, HttpIdle, Typed, StoreTyped, HttpTyped,
     SchedTyped, WithJob, Entry, QueuedIsOwned, HttpPushes, SchedPushes
<1>16. ASSUME UploadRead PROVE QueuedIsOwned'
  BY <1>16, Requests DEF UploadRead, HttpGoto, HttpDone, HttpIdle, Typed, StoreTyped,
     HttpTyped, SchedTyped, WithJob, Entry, QueuedIsOwned, HttpPushes, SchedPushes
<1>17. ASSUME ReleaseSet PROVE QueuedIsOwned'
  BY <1>17, Requests DEF ReleaseSet, HttpGoto, Typed, StoreTyped, HttpTyped, SchedTyped,
     WithJob, Entry, QueuedIsOwned, HttpPushes, SchedPushes
<1>18. ASSUME HeldSnapshot PROVE QueuedIsOwned'
  BY <1>18, Requests DEF HeldSnapshot, SchedIdle, NoEntry, Typed, StoreTyped, HttpTyped,
     SchedTyped, WithJob, Entry, QueuedIsOwned, HttpPushes, SchedPushes
<1>19. ASSUME NEW x \in sched.todo, HeldDeps(x)
      PROVE  QueuedIsOwned'
  BY <1>19, Requests DEF HeldDeps, Typed, StoreTyped, HttpTyped, SchedTyped, WithJob, Entry,
     QueuedIsOwned, HttpPushes, SchedPushes
<1>20. ASSUME HeldCascade PROVE QueuedIsOwned'
  BY <1>20, Requests DEF HeldCascade, SchedNext, SchedIdle, NoEntry, Typed, StoreTyped,
     HttpTyped, SchedTyped, WithJob, Entry, QueuedIsOwned, HttpPushes, SchedPushes
<1>21. ASSUME HeldClear PROVE QueuedIsOwned'
  BY <1>21, Requests DEF HeldClear, Typed, StoreTyped, HttpTyped, SchedTyped, WithJob,
     Entry, QueuedIsOwned, HttpPushes, SchedPushes
<1>22. ASSUME NEW Z \in SUBSET Children, HeldDecide(Z)
      PROVE  QueuedIsOwned'
  BY <1>22, Requests DEF HeldDecide, Typed, StoreTyped, HttpTyped, SchedTyped, WithJob,
     Entry, QueuedIsOwned, HttpPushes, SchedPushes
<1>23. ASSUME NEW c \in sched.zones, RefineInsert(c)
      PROVE  QueuedIsOwned'
  BY <1>23, Requests DEF RefineInsert, Typed, StoreTyped, HttpTyped, SchedTyped, WithJob,
     Entry, QueuedIsOwned, HttpPushes, SchedPushes
<1>24. ASSUME RefinePush PROVE QueuedIsOwned'
  BY <1>24, Requests DEF RefinePush, Pushed, Typed, StoreTyped, HttpTyped, SchedTyped,
     WithJob, Entry, QueuedIsOwned, HttpPushes, SchedPushes
<1>25. ASSUME RefineDeps PROVE QueuedIsOwned'
  BY <1>25, Requests DEF RefineDeps, Typed, StoreTyped, HttpTyped, SchedTyped, WithJob,
     Entry, QueuedIsOwned, HttpPushes, SchedPushes
<1>26. ASSUME RefineHold PROVE QueuedIsOwned'
  BY <1>26, Requests DEF RefineHold, Typed, StoreTyped, HttpTyped, SchedTyped, WithJob,
     Entry, QueuedIsOwned, HttpPushes, SchedPushes
<1>27. ASSUME HeldFiles PROVE QueuedIsOwned'
  BY <1>27, Requests DEF HeldFiles, SchedNext, SchedIdle, NoEntry, Typed, StoreTyped,
     HttpTyped, SchedTyped, WithJob, Entry, QueuedIsOwned, HttpPushes, SchedPushes
<1>28. ASSUME HeldLoad PROVE QueuedIsOwned'
  BY <1>28, Requests DEF HeldLoad, SchedNext, SchedIdle, NoEntry, Typed, StoreTyped,
     HttpTyped, SchedTyped, WithJob, Entry, QueuedIsOwned, HttpPushes, SchedPushes
<1>29. ASSUME HeldSet PROVE QueuedIsOwned'
  BY <1>29, Requests DEF HeldSet, Typed, StoreTyped, HttpTyped, SchedTyped, WithJob, Entry,
     QueuedIsOwned, HttpPushes, SchedPushes
<1>30. ASSUME HeldPush PROVE QueuedIsOwned'
  BY <1>30, Requests DEF HeldPush, SchedNext, SchedIdle, NoEntry, Pushed, Typed, StoreTyped,
     HttpTyped, SchedTyped, WithJob, Entry, QueuedIsOwned, HttpPushes, SchedPushes
<1>31. ASSUME HeldEnd PROVE QueuedIsOwned'
  BY <1>31, Requests DEF HeldEnd, SchedIdle, NoEntry, Typed, StoreTyped, HttpTyped,
     SchedTyped, WithJob, Entry, QueuedIsOwned, HttpPushes, SchedPushes
<1>32. ASSUME NEW j \in Jobs, Dispatch(j)
      PROVE  QueuedIsOwned'
  BY <1>32, Requests DEF Dispatch, Typed, StoreTyped, HttpTyped, SchedTyped, WithJob, Entry,
     QueuedIsOwned, HttpPushes, SchedPushes
<1>33. ASSUME NEW j \in Jobs, Finish(j)
      PROVE  QueuedIsOwned'
  BY <1>33, Requests DEF Finish, Typed, StoreTyped, HttpTyped, SchedTyped, WithJob, Entry,
     QueuedIsOwned, HttpPushes, SchedPushes
<1>34. ASSUME CrashRestart PROVE QueuedIsOwned'
  BY <1>34, Requests DEF CrashRestart, HttpIdle, SchedIdle, NoEntry, Typed, StoreTyped,
     HttpTyped, SchedTyped, WithJob, Entry, QueuedIsOwned, HttpPushes, SchedPushes
<1>35. CASE UNCHANGED vars
  BY <1>35 DEF vars, Typed, StoreTyped, HttpTyped, SchedTyped, WithJob, Entry,
     QueuedIsOwned, HttpPushes, SchedPushes
<1>36. QED
  BY <1>1, <1>2, <1>3, <1>4, <1>5, <1>6, <1>7, <1>8, <1>9, <1>10, <1>11, <1>12, <1>13,
     <1>14, <1>15, <1>16, <1>17, <1>18, <1>19, <1>20, <1>21, <1>22, <1>23, <1>24, <1>25,
     <1>26, <1>27, <1>28, <1>29, <1>30, <1>31, <1>32, <1>33, <1>34, <1>35 DEF Next, Http, CheckHeld

\* Keys are stored for the job at hand and deleted with its row.
LEMMA KeyNamesItsJobStep ==
  ASSUME Typed, HttpJobExists, KeyNamesItsJob, [Next]_vars
  PROVE  KeyNamesItsJob'
<1>1. CASE Purge
  BY <1>1 DEF Purge, KeyNamesItsJob, Typed, StoreTyped, Exists, Terminal
<1>2. CASE SubmitKey /\ ~Purge
  <2>1. http.job \in Jobs /\ Exists(http.job) /\ http.pc = "key"
    BY <1>2 DEF SubmitKey, HttpJobExists, WithJob, Typed, HttpTyped
  <2>2. \A i \in Jobs : Exists(i) => Exists(i)'
    BY <1>2, OnlyPurgeDeletes
  <2>3. keys' = keys \/ (KeyOf[http.job] # NoKey /\ keys' = [keys EXCEPT ![KeyOf[http.job]] = http.job])
    BY <1>2 DEF SubmitKey
  <2>4. ASSUME NEW k \in Keys, keys'[k] # NoJob
        PROVE  keys'[k] \in Jobs /\ Exists(keys'[k]) /\ KeyOf[keys'[k]] = k
    BY <2>1, <2>3, <2>4 DEF KeyNamesItsJob, Typed, StoreTyped
  <2>5. QED
    BY <2>2, <2>4 DEF KeyNamesItsJob, Exists
<1>3. CASE ~SubmitKey /\ ~Purge
  <2>1. keys' = keys
    BY <1>3 DEF Next, vars, SubmitInsert, ReleaseRead, Upload, Cancel, SubmitWorkflow, SubmitBatch,
         Committed, admin_maintenance, Http, SubmitDeps, SubmitHold, SubmitFiles, SubmitPush,
         GroupPush, GroupDone, UploadRead, ReleaseSet, HeldSnapshot, CheckHeld, HeldDeps,
         HeldCascade, HeldClear, HeldDecide, RefineInsert, RefinePush, RefineDeps, RefineHold,
         HeldFiles, HeldLoad, HeldSet, HeldPush, HeldEnd, Dispatch, Finish, CrashRestart
  <2>2. \A i \in Jobs : Exists(i) => Exists(i)'
    BY <1>3, OnlyPurgeDeletes
  <2>3. QED
    BY <2>1, <2>2 DEF KeyNamesItsJob, Exists, Typed, StoreTyped
<1>4. QED
  BY <1>1, <1>2, <1>3

\* A key is looked up before the insert and stored before anything that
\* could bring the job back.
LEMMA KeysAreUsedStep ==
  ASSUME Typed, HttpJobExists, KeyNamesItsJob, KeysAreUsed, [Next]_vars
  PROVE  CrashRestart \/ KeysAreUsed'
<1>1. ASSUME NEW j \in Jobs, SubmitInsert(j)
      PROVE  CrashRestart \/ KeysAreUsed'
  <2>1. ASSUME KeyOf[j] # NoKey PROVE keys[KeyOf[j]] = NoJob
    <3>1. KeyOf[j] \in Keys /\ keys[KeyOf[j]] \in Jobs \cup {NoJob}
      BY <2>1, Requests DEF Typed, StoreTyped
    <3>2. ~Answered(j)
      BY <1>1 DEF SubmitInsert
    <3>3. QED
      BY <3>1, <3>2 DEF Answered, KeyNamesItsJob
  <2>2. row[j] = "none" /\ row' = [row EXCEPT ![j] = "QUEUED"] /\ UNCHANGED <<keys, sched>>
    BY <1>1 DEF SubmitInsert
  <2>3. http.pc = "idle" /\ http'.pc = "deps" /\ http'.job = j
    BY <1>1 DEF SubmitInsert, HttpIdle
  <2>4. QED
    BY <2>1, <2>2, <2>3, Requests DEF Typed, StoreTyped, SchedTyped, Entry, KeysAreUsed, Settled,
         Unkeyed, Exists
<1>2. ASSUME NEW j \in Jobs, ReleaseRead(j)
      PROVE  CrashRestart \/ KeysAreUsed'
  BY <1>2, Requests DEF ReleaseRead, HttpIdle, Typed, StoreTyped, HttpTyped, SchedTyped,
     WithJob, Entry, HttpJobExists, KeyNamesItsJob, KeysAreUsed, Settled, Unkeyed, Exists,
     Terminal, Status
<1>3. ASSUME NEW j \in Jobs, Upload(j)
      PROVE  CrashRestart \/ KeysAreUsed'
  BY <1>3, Requests DEF Upload, HttpIdle, Typed, StoreTyped, HttpTyped, SchedTyped, WithJob,
     Entry, HttpJobExists, KeyNamesItsJob, KeysAreUsed, Settled, Unkeyed, Exists, Terminal,
     Status
<1>4. ASSUME NEW j \in Jobs, Cancel(j)
      PROVE  CrashRestart \/ KeysAreUsed'
  BY <1>4, Requests DEF Cancel, Typed, StoreTyped, HttpTyped, SchedTyped, WithJob, Entry,
     HttpJobExists, KeyNamesItsJob, KeysAreUsed, Settled, Unkeyed, Exists, Terminal, Status
<1>5. ASSUME NEW G \in Workflows, SubmitWorkflow(G)
      PROVE  CrashRestart \/ KeysAreUsed'
  BY <1>5, Requests DEF SubmitWorkflow, Committed, HttpIdle, Typed, StoreTyped, HttpTyped,
     SchedTyped, WithJob, Entry, HttpJobExists, KeyNamesItsJob, KeysAreUsed, Settled,
     Unkeyed, Exists, Terminal, Status
<1>6. ASSUME NEW G \in Batches, SubmitBatch(G)
      PROVE  CrashRestart \/ KeysAreUsed'
  BY <1>6, Requests DEF SubmitBatch, Committed, HttpIdle, Typed, StoreTyped, HttpTyped,
     SchedTyped, WithJob, Entry, HttpJobExists, KeyNamesItsJob, KeysAreUsed, Settled,
     Unkeyed, Exists, Terminal, Status
<1>7. ASSUME Purge PROVE CrashRestart \/ KeysAreUsed'
  BY <1>7, Requests DEF Purge, Typed, StoreTyped, HttpTyped, SchedTyped, WithJob, Entry,
     HttpJobExists, KeyNamesItsJob, KeysAreUsed, Settled, Unkeyed, Exists, Terminal, Status
<1>8. ASSUME NEW on \in BOOLEAN, admin_maintenance(on)
      PROVE  CrashRestart \/ KeysAreUsed'
  BY <1>8, Requests DEF admin_maintenance, Typed, StoreTyped, HttpTyped, SchedTyped,
     WithJob, Entry, HttpJobExists, KeyNamesItsJob, KeysAreUsed, Settled, Unkeyed, Exists,
     Terminal, Status
<1>9. ASSUME SubmitDeps PROVE CrashRestart \/ KeysAreUsed'
  BY <1>9, Requests DEF SubmitDeps, HttpGoto, Typed, StoreTyped, HttpTyped, SchedTyped,
     WithJob, Entry, HttpJobExists, KeyNamesItsJob, KeysAreUsed, Settled, Unkeyed, Exists,
     Terminal, Status
<1>10. ASSUME SubmitKey PROVE CrashRestart \/ KeysAreUsed'
  BY <1>10, Requests DEF SubmitKey, HttpGoto, HttpDone, HttpIdle, Typed, StoreTyped,
     HttpTyped, SchedTyped, WithJob, Entry, HttpJobExists, KeyNamesItsJob, KeysAreUsed,
     Settled, Unkeyed, Exists, Terminal, Status
<1>11. ASSUME SubmitHold PROVE CrashRestart \/ KeysAreUsed'
  BY <1>11, Requests DEF SubmitHold, HttpGoto, Typed, StoreTyped, HttpTyped, SchedTyped,
     WithJob, Entry, HttpJobExists, KeyNamesItsJob, KeysAreUsed, Settled, Unkeyed, Exists,
     Terminal, Status
<1>12. ASSUME SubmitFiles PROVE CrashRestart \/ KeysAreUsed'
  BY <1>12, Requests DEF SubmitFiles, HttpDone, HttpIdle, Typed, StoreTyped, HttpTyped,
     SchedTyped, WithJob, Entry, HttpJobExists, KeyNamesItsJob, KeysAreUsed, Settled,
     Unkeyed, Exists, Terminal, Status
<1>13. ASSUME SubmitPush PROVE CrashRestart \/ KeysAreUsed'
  BY <1>13, Requests DEF SubmitPush, HttpDone, HttpIdle, Pushed, Typed, StoreTyped,
     HttpTyped, SchedTyped, WithJob, Entry, HttpJobExists, KeyNamesItsJob, KeysAreUsed,
     Settled, Unkeyed, Exists, Terminal, Status
<1>14. ASSUME NEW j \in Jobs, GroupPush(j)
      PROVE  CrashRestart \/ KeysAreUsed'
  BY <1>14, Requests DEF GroupPush, Pushed, Typed, StoreTyped, HttpTyped, SchedTyped,
     WithJob, Entry, HttpJobExists, KeyNamesItsJob, KeysAreUsed, Settled, Unkeyed, Exists,
     Terminal, Status
<1>15. ASSUME GroupDone PROVE CrashRestart \/ KeysAreUsed'
  BY <1>15, Requests DEF GroupDone, HttpDone, HttpIdle, Typed, StoreTyped, HttpTyped,
     SchedTyped, WithJob, Entry, HttpJobExists, KeyNamesItsJob, KeysAreUsed, Settled,
     Unkeyed, Exists, Terminal, Status
<1>16. ASSUME UploadRead PROVE CrashRestart \/ KeysAreUsed'
  BY <1>16, Requests DEF UploadRead, HttpGoto, HttpDone, HttpIdle, Typed, StoreTyped,
     HttpTyped, SchedTyped, WithJob, Entry, HttpJobExists, KeyNamesItsJob, KeysAreUsed,
     Settled, Unkeyed, Exists, Terminal, Status
<1>17. ASSUME ReleaseSet PROVE CrashRestart \/ KeysAreUsed'
  BY <1>17, Requests DEF ReleaseSet, HttpGoto, Typed, StoreTyped, HttpTyped, SchedTyped,
     WithJob, Entry, HttpJobExists, KeyNamesItsJob, KeysAreUsed, Settled, Unkeyed, Exists,
     Terminal, Status
<1>18. ASSUME HeldSnapshot PROVE CrashRestart \/ KeysAreUsed'
  BY <1>18, Requests DEF HeldSnapshot, SchedIdle, NoEntry, Typed, StoreTyped, HttpTyped,
     SchedTyped, WithJob, Entry, HttpJobExists, KeyNamesItsJob, KeysAreUsed, Settled,
     Unkeyed, Exists, Terminal, Status
<1>19. ASSUME NEW x \in sched.todo, HeldDeps(x)
      PROVE  CrashRestart \/ KeysAreUsed'
  <2>1. UNCHANGED <<row, keys, http>>
    BY <1>19 DEF HeldDeps
  <2>2. sched'.todo \subseteq sched.todo /\ (sched'.pc \in {"idle", "next"} \/ sched'.at = x)
    <3>1. CASE sched' = [sched EXCEPT !.todo = @ \ {x}, !.at = x, !.pc = "cascade"]
      BY <3>1 DEF Typed, SchedTyped
    <3>2. CASE sched' = [sched EXCEPT !.todo = @ \ {x}]
      BY <1>19, <3>2 DEF HeldDeps, Typed, SchedTyped
    <3>3. CASE sched' = [sched EXCEPT !.todo = @ \ {x}, !.at = x,
                                      !.pc = IF x.deps = {} THEN "files" ELSE "clear"]
      BY <3>3 DEF Typed, SchedTyped
    <3>4. QED
      BY <1>19, <3>1, <3>2, <3>3 DEF HeldDeps
  <2>3. QED
    BY <2>1, <2>2 DEF KeysAreUsed, Settled, Unkeyed, Exists
<1>20. ASSUME HeldCascade PROVE CrashRestart \/ KeysAreUsed'
  BY <1>20, Requests DEF HeldCascade, SchedNext, SchedIdle, NoEntry, Typed, StoreTyped,
     HttpTyped, SchedTyped, WithJob, Entry, HttpJobExists, KeyNamesItsJob, KeysAreUsed,
     Settled, Unkeyed, Exists, Terminal, Status
<1>21. ASSUME HeldClear PROVE CrashRestart \/ KeysAreUsed'
  BY <1>21, Requests DEF HeldClear, Typed, StoreTyped, HttpTyped, SchedTyped, WithJob,
     Entry, HttpJobExists, KeyNamesItsJob, KeysAreUsed, Settled, Unkeyed, Exists, Terminal,
     Status
<1>22. ASSUME NEW Z \in SUBSET Children, HeldDecide(Z)
      PROVE  CrashRestart \/ KeysAreUsed'
  BY <1>22, Requests DEF HeldDecide, Typed, StoreTyped, HttpTyped, SchedTyped, WithJob,
     Entry, HttpJobExists, KeyNamesItsJob, KeysAreUsed, Settled, Unkeyed, Exists, Terminal,
     Status
<1>23. ASSUME NEW c \in sched.zones, RefineInsert(c)
      PROVE  CrashRestart \/ KeysAreUsed'
  <2>1. c \in Jobs /\ KeyOf[c] = NoKey
    BY Requests DEF Typed, SchedTyped
  <2>2. row' = [row EXCEPT ![c] = "QUEUED"] /\ UNCHANGED <<keys, http>>
    BY <1>23 DEF RefineInsert
  <2>3. sched.pc = "refine" /\ sched'.todo = sched.todo /\ sched'.at = sched.at
    BY <1>23 DEF RefineInsert, Typed, SchedTyped
  <2>4. QED
    BY <2>1, <2>2, <2>3 DEF Typed, StoreTyped, SchedTyped, Entry, KeysAreUsed, Settled, Unkeyed,
         Exists
<1>24. ASSUME RefinePush PROVE CrashRestart \/ KeysAreUsed'
  BY <1>24, Requests DEF RefinePush, Pushed, Typed, StoreTyped, HttpTyped, SchedTyped,
     WithJob, Entry, HttpJobExists, KeyNamesItsJob, KeysAreUsed, Settled, Unkeyed, Exists,
     Terminal, Status
<1>25. ASSUME RefineDeps PROVE CrashRestart \/ KeysAreUsed'
  BY <1>25, Requests DEF RefineDeps, Typed, StoreTyped, HttpTyped, SchedTyped, WithJob,
     Entry, HttpJobExists, KeyNamesItsJob, KeysAreUsed, Settled, Unkeyed, Exists, Terminal,
     Status
<1>26. ASSUME RefineHold PROVE CrashRestart \/ KeysAreUsed'
  BY <1>26, Requests DEF RefineHold, Typed, StoreTyped, HttpTyped, SchedTyped, WithJob,
     Entry, HttpJobExists, KeyNamesItsJob, KeysAreUsed, Settled, Unkeyed, Exists, Terminal,
     Status
<1>27. ASSUME HeldFiles PROVE CrashRestart \/ KeysAreUsed'
  <2>1. UNCHANGED <<row, keys, http>>
    BY <1>27 DEF HeldFiles
  <2>2. sched'.todo = sched.todo /\ (sched'.pc \in {"idle", "next"} \/ sched'.at = sched.at)
    BY <1>27 DEF HeldFiles, SchedNext, SchedIdle, Typed, SchedTyped
  <2>3. QED
    BY <1>27, <2>1, <2>2 DEF HeldFiles, KeysAreUsed, Settled, Unkeyed, Exists
<1>28. ASSUME HeldLoad PROVE CrashRestart \/ KeysAreUsed'
  <2>1. UNCHANGED <<row, keys, http>>
    BY <1>28 DEF HeldLoad
  <2>2. sched'.todo = sched.todo /\ (sched'.pc \in {"idle", "next"} \/ sched'.at = sched.at)
    BY <1>28 DEF HeldLoad, SchedNext, SchedIdle, Typed, SchedTyped
  <2>3. QED
    BY <1>28, <2>1, <2>2 DEF HeldLoad, KeysAreUsed, Settled, Unkeyed, Exists
<1>29. ASSUME HeldSet PROVE CrashRestart \/ KeysAreUsed'
  BY <1>29, Requests DEF HeldSet, Typed, StoreTyped, HttpTyped, SchedTyped, WithJob, Entry,
     HttpJobExists, KeyNamesItsJob, KeysAreUsed, Settled, Unkeyed, Exists, Terminal, Status
<1>30. ASSUME HeldPush PROVE CrashRestart \/ KeysAreUsed'
  BY <1>30, Requests DEF HeldPush, SchedNext, SchedIdle, NoEntry, Pushed, Typed, StoreTyped,
     HttpTyped, SchedTyped, WithJob, Entry, HttpJobExists, KeyNamesItsJob, KeysAreUsed,
     Settled, Unkeyed, Exists, Terminal, Status
<1>31. ASSUME HeldEnd PROVE CrashRestart \/ KeysAreUsed'
  BY <1>31, Requests DEF HeldEnd, SchedIdle, NoEntry, Typed, StoreTyped, HttpTyped,
     SchedTyped, WithJob, Entry, HttpJobExists, KeyNamesItsJob, KeysAreUsed, Settled,
     Unkeyed, Exists, Terminal, Status
<1>32. ASSUME NEW j \in Jobs, Dispatch(j)
      PROVE  CrashRestart \/ KeysAreUsed'
  BY <1>32, Requests DEF Dispatch, Typed, StoreTyped, HttpTyped, SchedTyped, WithJob, Entry,
     HttpJobExists, KeyNamesItsJob, KeysAreUsed, Settled, Unkeyed, Exists, Terminal, Status
<1>33. ASSUME NEW j \in Jobs, Finish(j)
      PROVE  CrashRestart \/ KeysAreUsed'
  BY <1>33, Requests DEF Finish, Typed, StoreTyped, HttpTyped, SchedTyped, WithJob, Entry,
     HttpJobExists, KeyNamesItsJob, KeysAreUsed, Settled, Unkeyed, Exists, Terminal, Status
<1>34. ASSUME CrashRestart PROVE CrashRestart \/ KeysAreUsed'
  BY <1>34, Requests DEF CrashRestart, HttpIdle, SchedIdle, NoEntry, Typed, StoreTyped,
     HttpTyped, SchedTyped, WithJob, Entry, HttpJobExists, KeyNamesItsJob, KeysAreUsed,
     Settled, Unkeyed, Exists, Terminal, Status
<1>35. CASE UNCHANGED vars
  BY <1>35 DEF vars, Typed, StoreTyped, HttpTyped, SchedTyped, WithJob, Entry,
     HttpJobExists, KeyNamesItsJob, KeysAreUsed, Settled, Unkeyed, Exists, Terminal, Status
<1>36. QED
  BY <1>1, <1>2, <1>3, <1>4, <1>5, <1>6, <1>7, <1>8, <1>9, <1>10, <1>11, <1>12, <1>13,
     <1>14, <1>15, <1>16, <1>17, <1>18, <1>19, <1>20, <1>21, <1>22, <1>23, <1>24, <1>25,
     <1>26, <1>27, <1>28, <1>29, <1>30, <1>31, <1>32, <1>33, <1>34, <1>35 DEF Next, Http, CheckHeld

-----------------------------------------------------------------------------
(* The theorems. *)

\* The invariant holds when the daemon starts on a new database.
LEMMA InitIInv == Init => IInv
<1>1. ASSUME Init PROVE QueuedIsOwned /\ KeyNamesItsJob /\ CrashesCounted /\ HttpJobExists
  BY <1>1, Requests DEF Init, QueuedIsOwned, KeyNamesItsJob, CrashesCounted, HttpJobExists, WithJob,
       HttpIdle
<1>2. ASSUME Init PROVE KeysAreUsed
  BY <1>2, Requests DEF Init, KeysAreUsed, Settled, Unkeyed, Exists, HttpIdle, SchedIdle
<1>3. QED
  BY <1>1, <1>2, InitTyped DEF IInv

\* The bound on crashes counts down, and every step without a crash keeps
\* the facts about keys.
LEMMA CrashesStep ==
  ASSUME IInv, [Next]_vars
  PROVE  CrashesCounted' /\ (crashes' = MaxCrashes => KeysAreUsed')
<1>1. CASE CrashRestart
  BY <1>1, Requests DEF CrashRestart, IInv, CrashesCounted
<1>2. CASE ~CrashRestart
  <2>1. crashes' = crashes
    BY <1>2 DEF Next, vars, SubmitInsert, ReleaseRead, Upload, Cancel, SubmitWorkflow, SubmitBatch,
         Committed, Purge, admin_maintenance, Http, SubmitDeps, SubmitKey, SubmitHold, SubmitFiles,
         SubmitPush, GroupPush, GroupDone, UploadRead, ReleaseSet, HeldSnapshot, CheckHeld,
         HeldDeps, HeldCascade, HeldClear, HeldDecide, RefineInsert, RefinePush, RefineDeps,
         RefineHold, HeldFiles, HeldLoad, HeldSet, HeldPush, HeldEnd, Dispatch, Finish
  <2>2. QED
    BY <1>2, <2>1, KeysAreUsedStep DEF IInv, CrashesCounted
<1>3. QED
  BY <1>1, <1>2

\* The invariant is inductive.
LEMMA StepIInv == IInv /\ [Next]_vars => IInv'
BY TypedStep, HttpJobStep, QueuedIsOwnedStep, KeyNamesItsJobStep, CrashesStep DEF IInv

\* The invariant holds in every state of every run of the daemon.
THEOREM Invariance == Spec => []IInv
BY InitIInv, StepIInv, PTL DEF Spec

(* Every variable of the submission and release paths keeps its type: no   *)
(* handler writes a status the schema does not know, and no queue count    *)
(* goes below zero (routes.c, batches.c, scheduler.c:104-275).             *)
THEOREM TypeCorrect == Spec => []TypeOK
BY Invariance, TypeOKOfTyped, PTL DEF IInv

(* No job is left behind: a QUEUED row is in the in-memory queue or in the *)
(* hands of the thread that will push it, for any number of jobs, groups,  *)
(* refinement jobs and crashes (routes.c:1573, scheduler.c:271, 766).      *)
THEOREM QueuedRowsAreKept == Spec => []QueuedRowHasEntry
<1>1. IInv => QueuedRowHasEntry
  BY DEF IInv, QueuedIsOwned, HttpPushes, SchedPushes, QueuedRowHasEntry
<1>2. QED
  BY <1>1, Invariance, PTL

(* A stored key always names a job that has a row and was submitted with   *)
(* that key, through purges and crashes (db.c:1182, routes.c:1328).        *)
THEOREM KeysNameTheirJobs == Spec => []KeyNamesItsJob
BY Invariance, PTL DEF IInv

(* Until the daemon dies for the first time, one key has one job: two      *)
(* submissions with the same key never both leave a live row               *)
(* (routes.c:1317-1339, 1543).                                             *)
THEOREM OneJobPerKeyUntilCrash == Spec => [](crashes = MaxCrashes => OneJobPerKey)
<1>1. ASSUME IInv, crashes = MaxCrashes PROVE OneJobPerKey
  BY <1>1, Requests DEF IInv, KeysAreUsed, Settled, Unkeyed, OneJobPerKey, Exists
<1>2. QED
  BY <1>1, Invariance, PTL

(* A daemon that never dies has at most one live job per idempotency key.  *)
THEOREM OneJobPerKeyWithoutCrash ==
  ASSUME MaxCrashes = 0
  PROVE  Spec => []OneJobPerKey
<1>1. IInv => OneJobPerKey
  <2>1. ASSUME IInv PROVE crashes = MaxCrashes
    BY <2>1 DEF IInv, CrashesCounted
  <2>2. ASSUME IInv PROVE OneJobPerKey
    BY <2>1, <2>2, Requests DEF IInv, KeysAreUsed, Settled, Unkeyed, OneJobPerKey, Exists
  <2>3. QED
    BY <2>2
<1>2. QED
  BY <1>1, Invariance, PTL

=============================================================================
