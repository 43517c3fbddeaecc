------------------------- MODULE JobLifecycleProofs -------------------------
(***************************************************************************)
(* The safety properties of JobLifecycle for every set of jobs, every      *)
(* number of executions and every bound, checked by TLAPS.                 *)
(*                                                                         *)
(* AtMostOneExecution is not inductive: that active_register never finds   *)
(* another execution of the same job follows from what the row says at     *)
(* each point of executor_spawn and of the retry handler.  IInv collects   *)
(* those facts.                                                            *)
(***************************************************************************)
EXTENDS JobLifecycle, TLAPS

\* Positions of the scheduler inside executor_spawn.
SpawnPcs == {"recheck", "dirs", "fail", "abandon", "run", "started", "launch"}

\* Positions of the scheduler with a job in its hands.
HandPcs == SpawnPcs \cup {"popped", "fit", "dispatch", "register", "timeout_db"}

\* Threads point at objects that exist; only executor_spawn owns a "spawn"
\* execution, and a process exists only between fork and waitpid; a stop has
\* joined the scheduler before executor_shutdown.
Ownership ==
  /\ phase \in {"exec_stop", "stopped"} => sched.pc = "idle"
  /\ sched.pc \in HandPcs => sched.job \in Jobs
  /\ http.pc # "idle" => http.job \in Jobs
  /\ lock.by # "nobody" => lock.exec \in Execs
  /\ sched.pc \in SpawnPcs =>
       /\ sched.exec \in Execs
       /\ exec[sched.exec].pc = "spawn"
       /\ exec[sched.exec].job = sched.job
  /\ \A e \in Execs :
       /\ exec[e].pc = "spawn" => sched.pc \in SpawnPcs /\ e = sched.exec
       /\ Active(e) => exec[e].job \in Jobs
       /\ exec[e].proc # "none" => exec[e].pc \in {"forked", "watcher", "watch"}

\* A row that exists stays; the scheduler only carries jobs that have one.
RowExists ==
  /\ sched.pc \in {"fit", "dispatch", "register"} => db[sched.job] # "none"
  /\ http.pc = "retry_load" => db[http.job] # "none"
  /\ \A e \in Execs : Active(e) => db[exec[e].job] # "none"

\* A QUEUED row has no execution but the one executor_spawn is starting.
QueuedIdle ==
  \A e \in Execs :
    Active(e) /\ db[exec[e].job] = "QUEUED" =>
      e = sched.exec /\ sched.pc \in {"recheck", "dirs", "fail", "abandon", "run"}

\* Between executor_is_active and db_retry_job only an execution that will
\* be abandoned can appear, because the row is not QUEUED.
RetryGuard ==
  /\ http.pc = "retry_active" => db[http.job] # "QUEUED"
  /\ http.pc \in {"retry_remove", "retry_db"} =>
       /\ db[http.job] # "QUEUED"
       /\ \A e \in ActiveFor(http.job) :
            e = sched.exec /\ sched.pc \in {"recheck", "abandon"}

\* What the scheduler knows about the executions of the job in its hands.
HandsFree ==
  /\ sched.pc \in {"register", "timeout_db"} => ActiveFor(sched.job) = {}
  /\ sched.pc = "dispatch" => \A e \in ActiveFor(sched.job) : exec[e].pc = "unregister"

\* The reservation is held from Reserve until Release.
Reserved ==
  /\ sched.pc \in {"dispatch", "register"} => sched.job \in alloc
  /\ \A e \in Execs : Active(e) /\ exec[e].pc # "unregister" => exec[e].job \in alloc

\* Who has the job: its row, its execution, its reservation, a thread's hands.
Custody ==
  /\ RowExists /\ QueuedIdle /\ RetryGuard
  /\ HandsFree /\ Reserved /\ AtMostOneExecution /\ NoLeakedReservation

\* The inductive invariant.
IInv == TypeOK /\ Ownership /\ Custody

-----------------------------------------------------------------------------
(* What the operators of the model return. *)

\* queue_push keeps the queue a bag of entries.
LEMMA PushedType ==
  ASSUME TypeOK, NEW j \in Jobs, NEW mem \in Status
  PROVE  Pushed(j, mem) \in [Entries -> Nat]
  <1> DEFINE q == <<j, mem>>
  <1>1. q \in Entries
    BY DEF Entries
  <1> HIDE DEF q
  <1>2. queue[q] + 1 \in Nat
    BY <1>1 DEF TypeOK
  <1>3. [queue EXCEPT ![q] = queue[q] + 1] \in [Entries -> Nat]
    BY <1>1, <1>2 DEF TypeOK
  <1> QED BY <1>3 DEF Pushed, q

\* Taking out an entry that is there keeps the queue a bag of entries.
LEMMA RemovedType ==
  ASSUME TypeOK, NEW q \in Entries, queue[q] > 0
  PROVE  Removed(q) \in [Entries -> Nat]
  BY DEF TypeOK, Removed

\* An entry is a job and the status of its Job object.
LEMMA EntryType ==
  ASSUME NEW q \in Entries PROVE q[1] \in Jobs /\ q[2] \in Status
  BY DEF Entries

\* The resting values of the threads, the executions, the lock and the queue.
LEMMA IdleTypes ==
  /\ SchedIdle \in SchedType /\ HttpIdle \in HttpType /\ FreeExec \in ExecType
  /\ Unlocked \in LockType /\ EmptyQueue \in [Entries -> Nat]
  <1>1. SchedIdle \in SchedType
    BY DEF SchedIdle, SchedType, SchedPcs, Status
  <1>2. HttpIdle \in HttpType
    BY DEF HttpIdle, HttpType, HttpPcs, Status
  <1>3. FreeExec \in ExecType
    BY DEF FreeExec, ExecType, ExecPcs, Status, Terminal
  <1>4. Unlocked \in LockType
    BY DEF Unlocked, LockType
  <1>5. EmptyQueue \in [Entries -> Nat]
    BY DEF EmptyQueue
  <1> QED BY <1>1, <1>2, <1>3, <1>4, <1>5

\* A bound that is not used up may be spent.
LEMMA BudgetSpent ==
  ASSUME TypeOK
  PROVE  /\ budget.cancels > 0 => [budget EXCEPT !.cancels = @ - 1] \in BudgetType
         /\ budget.retries > 0 => [budget EXCEPT !.retries = @ - 1] \in BudgetType
         /\ budget.timeouts > 0 => [budget EXCEPT !.timeouts = @ - 1] \in BudgetType
         /\ budget.restarts > 0 => [budget EXCEPT !.restarts = @ - 1] \in BudgetType
  BY DEF TypeOK, BudgetType

\* The first half of active_request_termination takes the lock and changes
\* nothing of an execution but its request flag.
LEMMA TermBeginFacts ==
  ASSUME TypeOK, NEW by \in {"http", "sched", "main"}, NEW e \in Execs,
         NEW status \in {"CANCELLED", "FAILED"}, TermBegin(by, e, status)
  PROVE  /\ lock' \in LockType /\ lock'.exec \in Execs
         /\ exec' \in [Execs -> ExecType]
         /\ \A f \in Execs : /\ exec'[f].job = exec[f].job
                             /\ exec'[f].pc = exec[f].pc
                             /\ exec'[f].proc = exec[f].proc
  <1>1. exec' = [exec EXCEPT ![e].term = IF @ = "no" THEN status ELSE @]
    BY DEF TermBegin
  <1>2. exec[e] \in ExecType
    BY DEF TypeOK
  <1>3. exec' \in [Execs -> ExecType]
    BY <1>1, <1>2 DEF TypeOK, ExecType
  <1>4. \A f \in Execs : /\ exec'[f].job = exec[f].job
                         /\ exec'[f].pc = exec[f].pc
                         /\ exec'[f].proc = exec[f].proc
    BY <1>1, <1>2 DEF TypeOK, ExecType
  <1>5. lock' \in LockType /\ lock'.exec \in Execs
    <2> DEFINE s == exec[e].term = "no" /\ exec[e].mem \in {"QUEUED", "RUNNING"}
    <2>1. s \in BOOLEAN
      OBVIOUS
    <2> HIDE DEF s
    <2>2. lock' = [by |-> by, exec |-> e, to |-> status, set |-> s]
      BY DEF TermBegin, s
    <2> QED BY <2>1, <2>2 DEF LockType
  <1> QED BY <1>3, <1>4, <1>5

\* A signal changes the process and nothing else.
LEMMA KilledFacts ==
  ASSUME NEW x \in ExecType
  PROVE  /\ Killed(x) \in ExecType
         /\ Killed(x).job = x.job /\ Killed(x).pc = x.pc
         /\ x.proc = "none" => Killed(x).proc = "none"
  BY DEF Killed, ExecType

\* The second half of active_request_termination writes a terminal status or
\* nothing to the row, moves no thread and starts no process.
LEMMA TermCommitFacts ==
  ASSUME TypeOK, Ownership, NEW by \in {"http", "sched", "main"}, TermCommit(by)
  PROVE  /\ lock' = Unlocked /\ lock' \in LockType
         /\ db' \in [Jobs -> Status \cup {"none"}]
         /\ \A j \in Jobs : db'[j] = db[j] \/ db'[j] \in {"CANCELLED", "FAILED"}
         /\ exec' \in [Execs -> ExecType]
         /\ \A f \in Execs : /\ exec'[f].job = exec[f].job
                             /\ exec'[f].pc = exec[f].pc
                             /\ exec[f].proc = "none" => exec'[f].proc = "none"
  <1> DEFINE e == lock.exec
             x == IF lock.set THEN [exec[e] EXCEPT !.mem = lock.to] ELSE exec[e]
             y == IF x.pid THEN Killed(x) ELSE x
  <1>1. e \in Execs /\ lock \in LockType
    BY DEF TermCommit, Ownership, TypeOK
  <1>2. /\ x \in ExecType
        /\ x.job = exec[e].job /\ x.pc = exec[e].pc /\ x.proc = exec[e].proc
    <2>1. exec[e] \in ExecType
      BY <1>1 DEF TypeOK
    <2>2. [exec[e] EXCEPT !.mem = lock.to] \in ExecType
      BY <1>1, <2>1 DEF ExecType, LockType, Status, Terminal
    <2> QED BY <2>1, <2>2 DEF ExecType
  <1>3. /\ y \in ExecType
        /\ y.job = x.job /\ y.pc = x.pc /\ (x.proc = "none" => y.proc = "none")
    BY <1>2, KilledFacts
  <1>4. exec' = [exec EXCEPT ![e] = y]
    BY DEF TermCommit
  <1>5. db' = IF lock.set THEN [db EXCEPT ![x.job] = lock.to] ELSE db
    BY DEF TermCommit
  <1> HIDE DEF e, x, y
  <1>6. /\ exec' \in [Execs -> ExecType]
        /\ \A f \in Execs : /\ exec'[f].job = exec[f].job
                            /\ exec'[f].pc = exec[f].pc
                            /\ exec[f].proc = "none" => exec'[f].proc = "none"
    BY <1>1, <1>2, <1>3, <1>4 DEF TypeOK
  <1>7. /\ db' \in [Jobs -> Status \cup {"none"}]
        /\ \A j \in Jobs : db'[j] = db[j] \/ db'[j] \in {"CANCELLED", "FAILED"}
    BY <1>1, <1>5 DEF TypeOK, LockType, Status, Terminal
  <1>8. lock' = Unlocked /\ Unlocked \in LockType
    BY IdleTypes DEF TermCommit
  <1> QED BY <1>6, <1>7, <1>8

-----------------------------------------------------------------------------
(* Steps that neither move the scheduler nor touch a reservation, and move *)
(* at most one execution from one position of its own threads to another.  *)

\* Positions of the launcher and watcher threads before the release.
ThreadPcs == ExecPcs \ {"free", "spawn", "unregister"}

Frame ==
  /\ sched' = sched /\ alloc' = alloc
  /\ \A j \in Jobs : db'[j] = db[j] \/ db'[j] \notin {"none", "QUEUED"}
  /\ \A e \in Execs :
       /\ exec'[e].job = exec[e].job
       /\ exec'[e].pc = exec[e].pc \/ {exec[e].pc, exec'[e].pc} \subseteq ThreadPcs
  /\ \/ http'.pc = http.pc /\ http'.job = http.job
     \/ http'.pc \notin {"retry_active", "retry_remove", "retry_db", "retry_load"}

\* Such a step keeps the invariant, if it keeps the types and ownership.
LEMMA FrameStep ==
  ASSUME IInv, TypeOK', Ownership', Frame PROVE IInv'
  <1> USE DEF IInv, Custody, Frame
  <1>1. \A e \in Execs : Active(e)' <=> Active(e)
    BY DEF Active, ThreadPcs
  <1>2. \A j \in Jobs : (ActiveFor(j))' = ActiveFor(j)
    BY <1>1 DEF ActiveFor
  <1>3. RowExists'
    BY <1>1 DEF RowExists, Ownership, HandPcs, SpawnPcs
  <1>4. QueuedIdle'
    BY <1>1 DEF QueuedIdle, Ownership
  <1>5. RetryGuard'
    BY <1>2 DEF RetryGuard, Ownership
  <1>6. HandsFree'
    BY <1>1, <1>2 DEF HandsFree, Ownership, HandPcs, SpawnPcs, ThreadPcs, ActiveFor
  <1>7. Reserved'
    BY <1>1 DEF Reserved, ThreadPcs
  <1>8. AtMostOneExecution'
    BY <1>1 DEF AtMostOneExecution
  <1>9. NoLeakedReservation'
    BY <1>1, <1>2 DEF NoLeakedReservation, ThreadPcs, ActiveFor, TypeOK
  <1> QED BY <1>3, <1>4, <1>5, <1>6, <1>7, <1>8, <1>9

\* A step of the HTTP thread keeps the invariant.
LEMMA HttpStep ==
  ASSUME IInv, \/ \E j \in Jobs : SubmitInsert(j) \/ CancelCheck(j) \/ RetryCheck(j)
               \/ Http
  PROVE  IInv'
  <1>1. ASSUME NEW j \in Jobs, SubmitInsert(j)
        PROVE  IInv'
    <2> USE <1>1 DEF IInv
    <2>1. TypeOK'
      BY DEF TypeOK, Ownership, RowExists, HandPcs, SpawnPcs, SubmitInsert,
        HttpType, HttpPcs, Status, Terminal
    <2>2. Ownership'
      BY DEF TypeOK, ExecType, Ownership, Active, HandPcs, SpawnPcs, SubmitInsert
    <2>3. Custody'
      BY DEF Custody, RowExists, QueuedIdle, RetryGuard, HandsFree, Reserved,
        AtMostOneExecution, NoLeakedReservation, Ownership, Active, ActiveFor,
        SpawnPcs, HandPcs, TypeOK, ExecType, SubmitInsert
    <2> QED BY <2>1, <2>2, <2>3
  <1>2. CASE SubmitPush
    <2> USE <1>2 DEF IInv
    <2>1. TypeOK'
      BY PushedType, IdleTypes DEF TypeOK, Ownership, SubmitPush, HttpDone, HttpType
    <2>2. Ownership' /\ Frame
      BY DEF TypeOK, ExecType, Ownership, Active, ThreadPcs, ExecPcs, Terminal,
        Frame, SubmitPush, HttpDone, HttpIdle
    <2> QED BY <2>1, <2>2, FrameStep
  <1>3. ASSUME NEW j \in Jobs, CancelCheck(j)
        PROVE  IInv'
    <2> USE <1>3 DEF IInv
    <2>1. TypeOK'
      BY IdleTypes, BudgetSpent DEF TypeOK, CancelCheck, HttpType, HttpPcs
    <2>2. Ownership' /\ Frame
      BY DEF TypeOK, ExecType, Ownership, Active, ThreadPcs, ExecPcs, Terminal,
        Frame, CancelCheck, HttpIdle
    <2> QED BY <2>1, <2>2, FrameStep
  <1>4. CASE CancelQueue
    <2> USE <1>4 DEF IInv
    <2>1. TypeOK'
      <3>1. CASE \E q \in InQueue(http.job) : queue' = Removed(q) /\
                   http' = [http EXCEPT !.pc = "cancel_entry", !.mem = q[2]]
        <4>1. PICK q \in Entries : /\ queue[q] > 0 /\ queue' = Removed(q)
                                   /\ http' = [http EXCEPT !.pc = "cancel_entry", !.mem = q[2]]
          BY <3>1 DEF InQueue
        <4>2. q[2] \in Status /\ queue' \in [Entries -> Nat]
          BY <4>1, RemovedType, EntryType
        <4>3. http' \in HttpType
          BY <4>1, <4>2 DEF TypeOK, HttpType, HttpPcs
        <4> QED BY <4>2, <4>3 DEF TypeOK, CancelQueue
      <3>2. CASE HttpGoto("cancel_active") /\ UNCHANGED queue
        BY <3>2 DEF TypeOK, CancelQueue, HttpGoto, HttpType, HttpPcs
      <3> QED BY <3>1, <3>2 DEF CancelQueue
    <2>2. Ownership' /\ Frame
      BY ZenonT(30) DEF TypeOK, ExecType, Ownership, Active, ThreadPcs, ExecPcs, Terminal,
        Frame, CancelQueue, HttpGoto, HttpType
    <2> QED BY <2>1, <2>2, FrameStep
  <1>5. CASE CancelEntry
    <2> USE <1>5 DEF IInv
    <2>1. TypeOK'
      BY DEF TypeOK, Ownership, RowExists, HandPcs, SpawnPcs, CancelEntry, HttpDone,
        HttpIdle, HttpType, HttpPcs, Status, Terminal
    <2>2. Ownership' /\ Frame
      BY DEF TypeOK, ExecType, Ownership, Active, ThreadPcs, ExecPcs, Terminal,
        Frame, CancelEntry, HttpDone, HttpIdle
    <2> QED BY <2>1, <2>2, FrameStep
  <1>6. CASE CancelActive
    <2> USE <1>6 DEF IInv
    <2>0. /\ \A f \in Execs : /\ exec'[f].job = exec[f].job
                              /\ exec'[f].pc = exec[f].pc
                              /\ exec'[f].proc = exec[f].proc
          /\ http'.job = http.job /\ http'.pc \in {"cancel_term", "cancel_db"}
          /\ lock'.by # "nobody" => lock'.exec \in Execs
          /\ http.pc = "cancel_active" /\ UNCHANGED <<phase, db, sched, alloc>>
      BY TermBeginFacts DEF CancelActive, ActiveFor, HttpGoto, TypeOK, HttpType, Unlocked
    <2>1. TypeOK'
      BY TermBeginFacts DEF TypeOK, CancelActive, ActiveFor, HttpGoto, HttpType,
        HttpPcs
    <2>2. Ownership' /\ Frame
      BY <2>0 DEF TypeOK, ExecType, Ownership, Active, ThreadPcs, ExecPcs, Terminal,
        Frame
    <2> QED BY <2>1, <2>2, FrameStep
  <1>7. CASE CancelTerm
    <2> USE <1>7 DEF IInv
    <2>1. TypeOK'
      BY TermCommitFacts, IdleTypes DEF TypeOK, CancelTerm, HttpDone
    <2>2. Ownership' /\ Frame
      BY TermCommitFacts DEF TypeOK, ExecType, Ownership, Active, ThreadPcs,
        ExecPcs, Terminal, Frame, CancelTerm, Unlocked, HttpDone, HttpIdle
    <2> QED BY <2>1, <2>2, FrameStep
  <1>8. CASE CancelRead /\ db[http.job] \in {"CREATED", "QUEUED"}
    <2> USE <1>8 DEF IInv
    <2>1. TypeOK'
      BY DEF TypeOK, Ownership, RowExists, HandPcs, SpawnPcs, CancelRead, HttpGoto,
        HttpDone, HttpIdle, HttpType, HttpPcs, Status, Terminal
    <2>2. Ownership' /\ Frame
      BY DEF TypeOK, ExecType, Ownership, Active, ThreadPcs, ExecPcs, Terminal,
        Frame, CancelRead, HttpGoto, HttpDone, HttpIdle, HttpType
    <2> QED BY <2>1, <2>2, FrameStep
  <1>9. CASE CancelRead /\ db[http.job] \notin {"CREATED", "QUEUED"}
    <2> USE <1>9 DEF IInv
    <2>1. TypeOK'
      BY DEF TypeOK, Ownership, RowExists, HandPcs, SpawnPcs, CancelRead, HttpGoto,
        HttpDone, HttpIdle, HttpType, HttpPcs, Status, Terminal
    <2>2. Ownership' /\ Frame
      BY DEF TypeOK, ExecType, Ownership, Active, ThreadPcs, ExecPcs, Terminal,
        Frame, CancelRead, HttpGoto, HttpDone, HttpIdle, HttpType
    <2> QED BY <2>1, <2>2, FrameStep
  <1>10. CASE CancelWrite
    <2> USE <1>10 DEF IInv
    <2>1. TypeOK'
      BY DEF TypeOK, Ownership, RowExists, HandPcs, SpawnPcs, CancelWrite, HttpDone,
        HttpIdle, HttpType, HttpPcs, Status, Terminal
    <2>2. Ownership' /\ Frame
      BY DEF TypeOK, ExecType, Ownership, Active, ThreadPcs, ExecPcs, Terminal,
        Frame, CancelWrite, HttpDone, HttpIdle
    <2> QED BY <2>1, <2>2, FrameStep
  <1>11. ASSUME NEW j \in Jobs, RetryCheck(j)
        PROVE  IInv'
    <2> USE <1>11 DEF IInv
    <2>1. TypeOK'
      BY IdleTypes, BudgetSpent DEF TypeOK, RetryCheck, HttpType, HttpPcs
    <2>2. Ownership'
      BY DEF TypeOK, ExecType, Ownership, Active, HandPcs, SpawnPcs, RetryCheck,
        HttpIdle
    <2>3. RowExists' /\ QueuedIdle' /\ RetryGuard'
      BY DEF Custody, RowExists, QueuedIdle, RetryGuard, HandsFree, Ownership, Active,
        ActiveFor, SpawnPcs, HandPcs, TypeOK, ExecType, RetryCheck, HttpIdle
    <2>4. HandsFree' /\ Reserved'
      BY DEF Custody, HandsFree, QueuedIdle, Reserved, AtMostOneExecution, Ownership,
        Active, ActiveFor, SpawnPcs, HandPcs, TypeOK, ExecType, RetryCheck, HttpIdle
    <2>5. AtMostOneExecution' /\ NoLeakedReservation'
      BY DEF Custody, NoLeakedReservation, Reserved, AtMostOneExecution, HandsFree,
        Ownership, Active, ActiveFor, SpawnPcs, HandPcs, TypeOK, ExecType,
        RetryCheck, HttpIdle
    <2> QED BY <2>1, <2>2, <2>3, <2>4, <2>5 DEF Custody
  <1>12. CASE RetryActive /\ ActiveFor(http.job) = {}
    <2> USE <1>12 DEF IInv
    <2>1. TypeOK'
      BY DEF TypeOK, Ownership, RowExists, HandPcs, SpawnPcs, RetryActive,
        ActiveFor, HttpDone, HttpIdle, HttpGoto, HttpType, HttpPcs, Status, Terminal
    <2>2. Ownership'
      BY DEF TypeOK, ExecType, Ownership, Active, HandPcs, SpawnPcs, RetryActive,
        Unlocked, HttpDone, HttpIdle, HttpGoto, HttpType
    <2>3. Custody'
      BY DEF Custody, RowExists, QueuedIdle, RetryGuard, HandsFree, Reserved,
        AtMostOneExecution, NoLeakedReservation, Ownership, Active, ActiveFor,
        SpawnPcs, HandPcs, TypeOK, ExecType, RetryActive, Unlocked, HttpDone,
        HttpIdle, HttpGoto, HttpType
    <2> QED BY <2>1, <2>2, <2>3
  <1>13. CASE RetryActive /\ ActiveFor(http.job) # {}
    <2> USE <1>13 DEF IInv
    <2>1. TypeOK'
      BY DEF TypeOK, Ownership, RowExists, HandPcs, SpawnPcs, RetryActive,
        ActiveFor, HttpDone, HttpIdle, HttpGoto, HttpType, HttpPcs, Status, Terminal
    <2>2. Ownership'
      BY DEF TypeOK, ExecType, Ownership, Active, HandPcs, SpawnPcs, RetryActive,
        Unlocked, HttpDone, HttpIdle, HttpGoto, HttpType
    <2>3. Custody'
      BY DEF Custody, RowExists, QueuedIdle, RetryGuard, HandsFree, Reserved,
        AtMostOneExecution, NoLeakedReservation, Ownership, Active, ActiveFor,
        SpawnPcs, HandPcs, TypeOK, ExecType, RetryActive, Unlocked, HttpDone,
        HttpIdle, HttpGoto, HttpType
    <2> QED BY <2>1, <2>2, <2>3
  <1>14. CASE RetryRemove
    <2> USE <1>14 DEF IInv
    <2>1. TypeOK'
      BY RemovedType DEF TypeOK, RetryRemove, HttpGoto, HttpType, HttpPcs, InQueue
    <2>2. Ownership'
      BY DEF TypeOK, ExecType, Ownership, Active, HandPcs, SpawnPcs, RetryRemove,
        HttpGoto, HttpType
    <2>3. Custody'
      BY DEF Custody, RowExists, QueuedIdle, RetryGuard, HandsFree, Reserved,
        AtMostOneExecution, NoLeakedReservation, Ownership, Active, ActiveFor,
        SpawnPcs, HandPcs, TypeOK, ExecType, RetryRemove, HttpGoto, HttpType
    <2> QED BY <2>1, <2>2, <2>3
  <1>15. CASE RetryDb /\ db[http.job] \in {"FAILED", "CANCELLED"}
    <2> USE <1>15 DEF IInv
    <2>1. TypeOK'
      BY DEF TypeOK, Ownership, RowExists, HandPcs, SpawnPcs, RetryDb, HttpGoto,
        HttpDone, HttpIdle, HttpType, HttpPcs, Status, Terminal
    <2>2. Ownership'
      BY DEF TypeOK, ExecType, Ownership, Active, HandPcs, SpawnPcs, RetryDb,
        HttpGoto, HttpDone, HttpIdle, HttpType
    <2>3. Custody'
      BY DEF Custody, RowExists, QueuedIdle, RetryGuard, HandsFree, Reserved,
        AtMostOneExecution, NoLeakedReservation, Ownership, Active, ActiveFor,
        SpawnPcs, HandPcs, TypeOK, ExecType, RetryDb, HttpGoto, HttpDone, HttpIdle,
        HttpType
    <2> QED BY <2>1, <2>2, <2>3
  <1>16. CASE RetryDb /\ db[http.job] \notin {"FAILED", "CANCELLED"}
    <2> USE <1>16 DEF IInv
    <2>1. TypeOK'
      BY DEF TypeOK, Ownership, RowExists, HandPcs, SpawnPcs, RetryDb, HttpGoto,
        HttpDone, HttpIdle, HttpType, HttpPcs, Status, Terminal
    <2>2. Ownership'
      BY DEF TypeOK, ExecType, Ownership, Active, HandPcs, SpawnPcs, RetryDb,
        HttpGoto, HttpDone, HttpIdle, HttpType
    <2>3. Custody'
      BY DEF Custody, RowExists, QueuedIdle, RetryGuard, HandsFree, Reserved,
        AtMostOneExecution, NoLeakedReservation, Ownership, Active, ActiveFor,
        SpawnPcs, HandPcs, TypeOK, ExecType, RetryDb, HttpGoto, HttpDone, HttpIdle,
        HttpType
    <2> QED BY <2>1, <2>2, <2>3
  <1>17. CASE RetryLoad
    <2> USE <1>17 DEF IInv
    <2>1. TypeOK'
      BY DEF Custody, TypeOK, RowExists, RetryLoad, Ownership, HttpType, HttpPcs
    <2>2. Ownership' /\ Frame
      BY DEF TypeOK, ExecType, Ownership, Active, ThreadPcs, ExecPcs, Terminal,
        Frame, RetryLoad, HttpType
    <2> QED BY <2>1, <2>2, FrameStep
  <1>18. CASE RetryPush
    <2> USE <1>18 DEF IInv
    <2>1. TypeOK'
      BY PushedType, IdleTypes DEF TypeOK, Ownership, RetryPush, HttpDone, HttpType
    <2>2. Ownership' /\ Frame
      BY DEF TypeOK, ExecType, Ownership, Active, ThreadPcs, ExecPcs, Terminal,
        Frame, RetryPush, HttpDone, HttpIdle
    <2> QED BY <2>1, <2>2, FrameStep
  <1> QED BY <1>1, <1>2, <1>3, <1>4, <1>5, <1>6, <1>7, <1>8, <1>9, <1>10, <1>11,
    <1>12, <1>13, <1>14, <1>15, <1>16, <1>17, <1>18 DEF Http

\* A step of the scheduler thread keeps the invariant.
LEMMA SchedulerStep ==
  ASSUME IInv, Scheduler
  PROVE  IInv'
  <1>1. ASSUME NEW q \in Entries, Pop(q)
        PROVE  IInv'
    <2> USE <1>1 DEF IInv
    <2>1. TypeOK'
      BY RemovedType, EntryType, IdleTypes DEF TypeOK, Pop, SchedType, SchedPcs
    <2>2. Ownership'
      BY EntryType DEF TypeOK, ExecType, Ownership, Active, HandPcs, SpawnPcs, Pop,
        Running, Removed, SchedIdle
    <2>3. Custody'
      BY DEF Custody, RowExists, QueuedIdle, RetryGuard, HandsFree, Reserved,
        AtMostOneExecution, NoLeakedReservation, Ownership, Active, ActiveFor,
        SpawnPcs, HandPcs, TypeOK, ExecType, Pop, Running, SchedIdle
    <2> QED BY <2>1, <2>2, <2>3
  <1>2. CASE PopRecheck /\ db[sched.job] = "QUEUED"
    <2> USE <1>2 DEF IInv
    <2>1. TypeOK'
      BY DEF TypeOK, Ownership, RowExists, HandPcs, SpawnPcs, PopRecheck, SchedGoto,
        SchedDone, SchedIdle, SchedType, SchedPcs, Status, Terminal
    <2>2. Ownership'
      BY DEF TypeOK, ExecType, Ownership, Active, HandPcs, SpawnPcs, PopRecheck,
        SchedGoto, SchedDone, SchedIdle, SchedType
    <2>3. Custody'
      BY DEF Custody, RowExists, QueuedIdle, RetryGuard, HandsFree, Reserved,
        AtMostOneExecution, NoLeakedReservation, Ownership, Active, ActiveFor,
        SpawnPcs, HandPcs, TypeOK, ExecType, PopRecheck, SchedGoto, SchedDone,
        SchedIdle, SchedType
    <2> QED BY <2>1, <2>2, <2>3
  <1>3. CASE PopRecheck /\ db[sched.job] # "QUEUED"
    <2> USE <1>3 DEF IInv
    <2>1. TypeOK'
      BY DEF TypeOK, Ownership, RowExists, HandPcs, SpawnPcs, PopRecheck, SchedGoto,
        SchedDone, SchedIdle, SchedType, SchedPcs, Status, Terminal
    <2>2. Ownership'
      BY DEF TypeOK, ExecType, Ownership, Active, HandPcs, SpawnPcs, PopRecheck,
        SchedGoto, SchedDone, SchedIdle, SchedType
    <2>3. Custody'
      BY DEF Custody, RowExists, QueuedIdle, RetryGuard, HandsFree, Reserved,
        AtMostOneExecution, NoLeakedReservation, Ownership, Active, ActiveFor,
        SpawnPcs, HandPcs, TypeOK, ExecType, PopRecheck, SchedGoto, SchedDone,
        SchedIdle, SchedType
    <2> QED BY <2>1, <2>2, <2>3
  <1>4. CASE Blocked
    <2> USE <1>4 DEF IInv
    <2>1. TypeOK'
      BY PushedType, IdleTypes DEF TypeOK, Ownership, HandPcs, Blocked, SchedDone,
        SchedType
    <2>2. Ownership'
      BY DEF TypeOK, ExecType, Ownership, Active, HandPcs, SpawnPcs, Blocked,
        SchedDone, SchedIdle
    <2>3. Custody'
      BY DEF Custody, RowExists, QueuedIdle, RetryGuard, HandsFree, Reserved,
        AtMostOneExecution, NoLeakedReservation, Ownership, Active, ActiveFor,
        SpawnPcs, HandPcs, TypeOK, ExecType, Blocked, SchedDone, SchedIdle
    <2> QED BY <2>1, <2>2, <2>3
  <1>5. CASE Reserve
    <2> USE <1>5 DEF IInv
    <2>1. TypeOK'
      BY DEF TypeOK, Ownership, RowExists, HandPcs, SpawnPcs, Reserve, SchedGoto,
        SchedType, SchedPcs, Status, Terminal
    <2>2. Ownership'
      BY DEF TypeOK, ExecType, Ownership, Active, HandPcs, SpawnPcs, Reserve,
        SchedGoto, SchedType
    <2>3. Custody'
      BY DEF Custody, RowExists, QueuedIdle, RetryGuard, HandsFree, Reserved,
        AtMostOneExecution, NoLeakedReservation, Ownership, Active, ActiveFor,
        SpawnPcs, HandPcs, TypeOK, ExecType, Reserve, SchedGoto, SchedType
    <2> QED BY <2>1, <2>2, <2>3
  <1>6. CASE Dispatch /\ db[sched.job] = "QUEUED"
    <2> USE <1>6 DEF IInv
    <2>1. TypeOK'
      BY DEF TypeOK, Ownership, RowExists, HandPcs, SpawnPcs, Dispatch, SchedGoto,
        SchedDone, SchedIdle, SchedType, SchedPcs, Status, Terminal
    <2>2. Ownership'
      BY DEF TypeOK, ExecType, Ownership, Active, HandPcs, SpawnPcs, Dispatch,
        SchedGoto, SchedDone, SchedIdle, SchedType
    <2>3. Custody'
      BY DEF Custody, RowExists, QueuedIdle, RetryGuard, HandsFree, Reserved,
        AtMostOneExecution, NoLeakedReservation, Ownership, Active, ActiveFor,
        SpawnPcs, HandPcs, TypeOK, ExecType, Dispatch, SchedGoto, SchedDone,
        SchedIdle, SchedType
    <2> QED BY <2>1, <2>2, <2>3
  <1>7. CASE Dispatch /\ db[sched.job] # "QUEUED"
    <2> USE <1>7 DEF IInv
    <2>1. TypeOK'
      BY DEF TypeOK, Ownership, RowExists, HandPcs, SpawnPcs, Dispatch, SchedGoto,
        SchedDone, SchedIdle, SchedType, SchedPcs, Status, Terminal
    <2>2. Ownership'
      BY DEF TypeOK, ExecType, Ownership, Active, HandPcs, SpawnPcs, Dispatch,
        SchedGoto, SchedDone, SchedIdle, SchedType
    <2>3. Custody'
      BY DEF Custody, RowExists, QueuedIdle, RetryGuard, HandsFree, Reserved,
        AtMostOneExecution, NoLeakedReservation, Ownership, Active, ActiveFor,
        SpawnPcs, HandPcs, TypeOK, ExecType, Dispatch, SchedGoto, SchedDone,
        SchedIdle, SchedType
    <2> QED BY <2>1, <2>2, <2>3
  <1>8. ASSUME NEW e \in Execs, Register(e)
        PROVE  IInv'
    <2> USE <1>8 DEF IInv
    <2>1. TypeOK'
      BY DEF TypeOK, Ownership, RowExists, HandPcs, SpawnPcs, Register, FreeExec,
        SchedType, SchedPcs, ExecType, ExecPcs, Status, Terminal
    <2>2. Ownership'
      BY DEF TypeOK, ExecType, Ownership, Active, HandPcs, SpawnPcs, Register,
        Unlocked, FreeExec, SchedType
    <2>3. Custody'
      BY DEF Custody, RowExists, QueuedIdle, RetryGuard, HandsFree, Reserved,
        AtMostOneExecution, NoLeakedReservation, Ownership, Active, ActiveFor,
        SpawnPcs, HandPcs, TypeOK, ExecType, Register, Unlocked, FreeExec, SchedType
    <2> QED BY <2>1, <2>2, <2>3
  <1>9. CASE RegisterFails
    <2> USE <1>9 DEF IInv
    <2>1. TypeOK'
      BY DEF TypeOK, Ownership, RowExists, HandPcs, SpawnPcs, RegisterFails,
        SchedDone, SchedIdle, SchedType, SchedPcs, Status, Terminal
    <2>2. Ownership'
      BY DEF TypeOK, ExecType, Ownership, Active, HandPcs, SpawnPcs, RegisterFails,
        SchedDone, SchedIdle
    <2>3. Custody'
      BY DEF Custody, RowExists, QueuedIdle, RetryGuard, HandsFree, Reserved,
        AtMostOneExecution, NoLeakedReservation, Ownership, Active, ActiveFor,
        SpawnPcs, HandPcs, TypeOK, ExecType, RegisterFails, SchedDone, SchedIdle
    <2> QED BY <2>1, <2>2, <2>3
  <1>10. CASE SpawnRecheck
    <2> USE <1>10 DEF IInv
    <2>1. TypeOK'
      BY DEF TypeOK, Ownership, RowExists, HandPcs, SpawnPcs, SpawnRecheck,
        SchedGoto, SchedType, SchedPcs, Status, Terminal
    <2>2. Ownership'
      BY DEF TypeOK, ExecType, Ownership, Active, HandPcs, SpawnPcs, SpawnRecheck,
        SchedGoto, SchedType
    <2>3. Custody'
      BY DEF Custody, RowExists, QueuedIdle, RetryGuard, HandsFree, Reserved,
        AtMostOneExecution, NoLeakedReservation, Ownership, Active, ActiveFor,
        SpawnPcs, HandPcs, TypeOK, ExecType, SpawnRecheck, SchedGoto, SchedType
    <2> QED BY <2>1, <2>2, <2>3
  <1>11. CASE SpawnNoDirs
    <2> USE <1>11 DEF IInv
    <2>1. TypeOK'
      BY DEF TypeOK, Ownership, RowExists, HandPcs, SpawnPcs, SpawnNoDirs,
        SchedGoto, SchedType, SchedPcs, Status, Terminal
    <2>2. Ownership'
      BY DEF TypeOK, ExecType, Ownership, Active, HandPcs, SpawnPcs, SpawnNoDirs,
        SchedGoto, SchedType
    <2>3. Custody'
      BY DEF Custody, RowExists, QueuedIdle, RetryGuard, HandsFree, Reserved,
        AtMostOneExecution, NoLeakedReservation, Ownership, Active, ActiveFor,
        SpawnPcs, HandPcs, TypeOK, ExecType, SpawnNoDirs, SchedGoto, SchedType
    <2> QED BY <2>1, <2>2, <2>3
  <1>12. CASE SpawnFail
    <2> USE <1>12 DEF IInv
    <2>1. TypeOK'
      BY DEF TypeOK, Ownership, RowExists, HandPcs, SpawnPcs, SpawnFail, SchedGoto,
        SchedType, SchedPcs, ExecType, ExecPcs, Status, Terminal
    <2>2. Ownership'
      BY DEF TypeOK, ExecType, Ownership, Active, HandPcs, SpawnPcs, SpawnFail,
        SchedGoto, SchedType
    <2>3. Custody'
      BY DEF Custody, RowExists, QueuedIdle, RetryGuard, HandsFree, Reserved,
        AtMostOneExecution, NoLeakedReservation, Ownership, Active, ActiveFor,
        SpawnPcs, HandPcs, TypeOK, ExecType, SpawnFail, SchedGoto, SchedType
    <2> QED BY <2>1, <2>2, <2>3
  <1>13. CASE SpawnAbandon
    <2> USE <1>13 DEF IInv
    <2>1. TypeOK'
      BY DEF TypeOK, Ownership, RowExists, HandPcs, SpawnPcs, SpawnAbandon,
        FreeExec, SchedDone, SchedIdle, SchedType, SchedPcs, ExecType, ExecPcs,
        Status, Terminal
    <2>2. Ownership'
      BY DEF TypeOK, ExecType, Ownership, Active, HandPcs, SpawnPcs, SpawnAbandon,
        Unlocked, FreeExec, SchedDone, SchedIdle
    <2>3. Custody'
      BY DEF Custody, RowExists, QueuedIdle, RetryGuard, HandsFree, Reserved,
        AtMostOneExecution, NoLeakedReservation, Ownership, Active, ActiveFor,
        SpawnPcs, HandPcs, TypeOK, ExecType, SpawnAbandon, Unlocked, FreeExec,
        SchedDone, SchedIdle
    <2> QED BY <2>1, <2>2, <2>3
  <1>14. CASE SpawnCheck
    <2> USE <1>14 DEF IInv
    <2>1. TypeOK'
      BY DEF TypeOK, Ownership, RowExists, HandPcs, SpawnPcs, SpawnCheck, SchedGoto,
        SchedType, SchedPcs, Status, Terminal
    <2>2. Ownership'
      BY DEF TypeOK, ExecType, Ownership, Active, HandPcs, SpawnPcs, SpawnCheck,
        SchedGoto, SchedType
    <2>3. Custody'
      BY DEF Custody, RowExists, QueuedIdle, RetryGuard, HandsFree, Reserved,
        AtMostOneExecution, NoLeakedReservation, Ownership, Active, ActiveFor,
        SpawnPcs, HandPcs, TypeOK, ExecType, SpawnCheck, SchedGoto, SchedType
    <2> QED BY <2>1, <2>2, <2>3
  <1>15. CASE SpawnRun
    <2> USE <1>15 DEF IInv
    <2>1. TypeOK'
      <3>1. sched.exec \in Execs /\ exec[sched.exec] \in ExecType
        BY DEF TypeOK, Ownership, SpawnPcs, SpawnRun
      <3>2. exec' \in [Execs -> ExecType]
        BY <3>1 DEF TypeOK, SpawnRun, ExecType, Status
      <3>3. sched' \in SchedType /\ db' \in [Jobs -> Status \cup {"none"}]
        BY DEF TypeOK, SpawnRun, SchedGoto, SchedType, SchedPcs, Status
      <3> QED BY <3>2, <3>3 DEF TypeOK, SpawnRun
    <2>2. Ownership'
      BY DEF TypeOK, ExecType, Ownership, Active, HandPcs, SpawnPcs, SpawnRun,
        SchedGoto, SchedType
    <2>3. Custody'
      BY DEF Custody, RowExists, QueuedIdle, RetryGuard, HandsFree, Reserved,
        AtMostOneExecution, NoLeakedReservation, Ownership, Active, ActiveFor,
        SpawnPcs, HandPcs, TypeOK, ExecType, SpawnRun, SchedGoto, SchedType
    <2> QED BY <2>1, <2>2, <2>3
  <1>16. CASE SpawnStarted /\ SpawnGivesUp
    <2> USE <1>16 DEF IInv
    <2>1. TypeOK'
      <3>1. sched.exec \in Execs /\ exec[sched.exec] \in ExecType
        BY DEF TypeOK, Ownership, SpawnPcs, SpawnStarted
      <3>2. exec' \in [Execs -> ExecType]
        BY <3>1 DEF TypeOK, SpawnStarted, SpawnGivesUp, ExecType, ExecPcs, Terminal
      <3>3. sched' \in SchedType
        BY IdleTypes DEF TypeOK, SpawnStarted, SpawnGivesUp, SchedGoto, SchedDone, SchedType, SchedPcs
      <3>4. db' \in [Jobs -> Status \cup {"none"}]
        BY DEF TypeOK, SpawnStarted, Status
      <3> QED BY <3>2, <3>3, <3>4 DEF TypeOK, SpawnStarted
    <2>2. Ownership'
      BY DEF TypeOK, ExecType, Ownership, Active, HandPcs, SpawnPcs, SpawnStarted,
        SchedGoto, SpawnGivesUp, SchedType
    <2>3. RowExists' /\ QueuedIdle' /\ RetryGuard'
      BY DEF Custody, RowExists, QueuedIdle, RetryGuard, HandsFree, Ownership, Active,
        ActiveFor, SpawnPcs, HandPcs, TypeOK, ExecType, SpawnStarted, SchedGoto,
        SpawnGivesUp, SchedType
    <2>4. HandsFree' /\ Reserved'
      BY DEF Custody, HandsFree, QueuedIdle, Reserved, AtMostOneExecution, Ownership,
        Active, ActiveFor, SpawnPcs, HandPcs, TypeOK, ExecType, SpawnStarted,
        SchedGoto, SpawnGivesUp, SchedType
    <2>5. AtMostOneExecution' /\ NoLeakedReservation'
      BY DEF Custody, NoLeakedReservation, Reserved, AtMostOneExecution, HandsFree,
        Ownership, Active, ActiveFor, SpawnPcs, HandPcs, TypeOK, ExecType,
        SpawnStarted, SchedGoto, SpawnGivesUp, SchedType
    <2> QED BY <2>1, <2>2, <2>3, <2>4, <2>5 DEF Custody
  <1>17. CASE SpawnStarted /\ SchedGoto("launch")
    <2> USE <1>17 DEF IInv
    <2>1. TypeOK'
      <3>1. sched.exec \in Execs /\ exec[sched.exec] \in ExecType
        BY DEF TypeOK, Ownership, SpawnPcs, SpawnStarted
      <3>2. exec' \in [Execs -> ExecType]
        BY <3>1 DEF TypeOK, SpawnStarted, SpawnGivesUp, ExecType, ExecPcs, Terminal
      <3>3. sched' \in SchedType
        BY IdleTypes DEF TypeOK, SpawnStarted, SpawnGivesUp, SchedGoto, SchedDone, SchedType, SchedPcs
      <3>4. db' \in [Jobs -> Status \cup {"none"}]
        BY DEF TypeOK, SpawnStarted, Status
      <3> QED BY <3>2, <3>3, <3>4 DEF TypeOK, SpawnStarted
    <2>2. Ownership'
      BY DEF TypeOK, ExecType, Ownership, Active, HandPcs, SpawnPcs, SpawnStarted,
        SchedGoto, SpawnGivesUp, SchedType
    <2>3. RowExists' /\ QueuedIdle' /\ RetryGuard'
      BY DEF Custody, RowExists, QueuedIdle, RetryGuard, HandsFree, Ownership, Active,
        ActiveFor, SpawnPcs, HandPcs, TypeOK, ExecType, SpawnStarted, SchedGoto,
        SpawnGivesUp, SchedType
    <2>4. HandsFree' /\ Reserved'
      BY DEF Custody, HandsFree, QueuedIdle, Reserved, AtMostOneExecution, Ownership,
        Active, ActiveFor, SpawnPcs, HandPcs, TypeOK, ExecType, SpawnStarted,
        SchedGoto, SpawnGivesUp, SchedType
    <2>5. AtMostOneExecution' /\ NoLeakedReservation'
      BY DEF Custody, NoLeakedReservation, Reserved, AtMostOneExecution, HandsFree,
        Ownership, Active, ActiveFor, SpawnPcs, HandPcs, TypeOK, ExecType,
        SpawnStarted, SchedGoto, SpawnGivesUp, SchedType
    <2> QED BY <2>1, <2>2, <2>3, <2>4, <2>5 DEF Custody
  <1>18. CASE SpawnLaunch /\ SpawnGivesUp
    <2> USE <1>18 DEF IInv
    <2>1. TypeOK'
      <3>1. sched.exec \in Execs /\ exec[sched.exec] \in ExecType
        BY DEF TypeOK, Ownership, SpawnPcs, SpawnLaunch
      <3>2. exec' \in [Execs -> ExecType]
        BY <3>1 DEF TypeOK, SpawnLaunch, SpawnGivesUp, ExecType, ExecPcs, Terminal
      <3>3. sched' \in SchedType
        BY IdleTypes DEF TypeOK, SpawnLaunch, SpawnGivesUp, SchedGoto, SchedDone, SchedType, SchedPcs
      <3>4. db' \in [Jobs -> Status \cup {"none"}]
        BY DEF TypeOK, SpawnLaunch, Status
      <3> QED BY <3>2, <3>3, <3>4 DEF TypeOK, SpawnLaunch
    <2>2. Ownership'
      BY DEF TypeOK, ExecType, Ownership, Active, HandPcs, SpawnPcs, SpawnLaunch,
        SchedDone, SchedIdle, SpawnGivesUp, SchedGoto, SchedType
    <2>3. RowExists' /\ QueuedIdle' /\ RetryGuard'
      BY DEF Custody, RowExists, QueuedIdle, RetryGuard, HandsFree, Ownership, Active,
        ActiveFor, SpawnPcs, HandPcs, TypeOK, ExecType, SpawnLaunch, SchedDone,
        SchedIdle, SpawnGivesUp, SchedGoto, SchedType
    <2>4. HandsFree' /\ Reserved'
      BY DEF Custody, HandsFree, QueuedIdle, Reserved, AtMostOneExecution, Ownership,
        Active, ActiveFor, SpawnPcs, HandPcs, TypeOK, ExecType, SpawnLaunch,
        SchedDone, SchedIdle, SpawnGivesUp, SchedGoto, SchedType
    <2>5. AtMostOneExecution' /\ NoLeakedReservation'
      BY DEF Custody, NoLeakedReservation, Reserved, AtMostOneExecution, HandsFree,
        Ownership, Active, ActiveFor, SpawnPcs, HandPcs, TypeOK, ExecType,
        SpawnLaunch, SchedDone, SchedIdle, SpawnGivesUp, SchedGoto, SchedType
    <2> QED BY <2>1, <2>2, <2>3, <2>4, <2>5 DEF Custody
  <1>19. CASE SpawnLaunch /\ SchedDone
    <2> USE <1>19 DEF IInv
    <2>1. TypeOK'
      <3>1. sched.exec \in Execs /\ exec[sched.exec] \in ExecType
        BY DEF TypeOK, Ownership, SpawnPcs, SpawnLaunch
      <3>2. exec' \in [Execs -> ExecType]
        BY <3>1 DEF TypeOK, SpawnLaunch, SpawnGivesUp, ExecType, ExecPcs, Terminal
      <3>3. sched' \in SchedType
        BY IdleTypes DEF TypeOK, SpawnLaunch, SpawnGivesUp, SchedGoto, SchedDone, SchedType, SchedPcs
      <3>4. db' \in [Jobs -> Status \cup {"none"}]
        BY DEF TypeOK, SpawnLaunch, Status
      <3> QED BY <3>2, <3>3, <3>4 DEF TypeOK, SpawnLaunch
    <2>2. Ownership'
      BY DEF TypeOK, ExecType, Ownership, Active, HandPcs, SpawnPcs, SpawnLaunch,
        SchedDone, SchedIdle, SpawnGivesUp, SchedGoto, SchedType
    <2>3. RowExists' /\ QueuedIdle' /\ RetryGuard'
      BY DEF Custody, RowExists, QueuedIdle, RetryGuard, HandsFree, Ownership, Active,
        ActiveFor, SpawnPcs, HandPcs, TypeOK, ExecType, SpawnLaunch, SchedDone,
        SchedIdle, SpawnGivesUp, SchedGoto, SchedType
    <2>4. HandsFree' /\ Reserved'
      BY SMTT(30) DEF Custody, HandsFree, QueuedIdle, Reserved, AtMostOneExecution, Ownership,
        Active, ActiveFor, SpawnPcs, HandPcs, TypeOK, ExecType, SpawnLaunch,
        SchedDone, SchedIdle, SpawnGivesUp, SchedGoto, SchedType
    <2>5. AtMostOneExecution' /\ NoLeakedReservation'
      BY DEF Custody, NoLeakedReservation, Reserved, AtMostOneExecution, HandsFree,
        Ownership, Active, ActiveFor, SpawnPcs, HandPcs, TypeOK, ExecType,
        SpawnLaunch, SchedDone, SchedIdle, SpawnGivesUp, SchedGoto, SchedType
    <2> QED BY <2>1, <2>2, <2>3, <2>4, <2>5 DEF Custody
  <1>20. CASE SpawnFinished
    <2> USE <1>20 DEF IInv
    <2>1. TypeOK'
      BY DEF TypeOK, Ownership, RowExists, HandPcs, SpawnPcs, SpawnFinished,
        SchedDone, SchedIdle, SchedType, SchedPcs, Status, Terminal
    <2>2. Ownership'
      BY DEF TypeOK, ExecType, Ownership, Active, HandPcs, SpawnPcs, SpawnFinished,
        SchedDone, SchedIdle
    <2>3. Custody'
      BY DEF Custody, RowExists, QueuedIdle, RetryGuard, HandsFree, Reserved,
        AtMostOneExecution, NoLeakedReservation, Ownership, Active, ActiveFor,
        SpawnPcs, HandPcs, TypeOK, ExecType, SpawnFinished, SchedDone, SchedIdle
    <2> QED BY <2>1, <2>2, <2>3
  <1>21. ASSUME NEW S \in SUBSET Jobs, TimeoutScan(S)
        PROVE  IInv'
    <2> USE <1>21 DEF IInv
    <2>1. TypeOK'
      BY IdleTypes, BudgetSpent DEF TypeOK, TimeoutScan, SchedType, SchedPcs
    <2>2. Ownership'
      BY DEF TypeOK, ExecType, Ownership, Active, HandPcs, SpawnPcs, TimeoutScan,
        Running, SchedIdle
    <2>3. Custody'
      BY DEF Custody, RowExists, QueuedIdle, RetryGuard, HandsFree, Reserved,
        AtMostOneExecution, NoLeakedReservation, Ownership, Active, ActiveFor,
        SpawnPcs, HandPcs, TypeOK, ExecType, TimeoutScan, Running, SchedIdle
    <2> QED BY <2>1, <2>2, <2>3
  <1>22. ASSUME NEW j \in Jobs, TimeoutJob(j)
        PROVE  IInv'
    <2> USE <1>22 DEF IInv
    <2>0. /\ \A f \in Execs : /\ exec'[f].job = exec[f].job
                              /\ exec'[f].pc = exec[f].pc
                              /\ exec'[f].proc = exec[f].proc
          /\ \/ sched'.pc = "timeout_term"
             \/ sched'.pc = "timeout_db" /\ sched'.job = j /\ ActiveFor(j) = {}
          /\ lock'.by # "nobody" => lock'.exec \in Execs
          /\ sched.pc = "timeout" /\ UNCHANGED <<phase, db, http, alloc>>
      <3>1. CASE \E e \in ActiveFor(j) : TermBegin("sched", e, "FAILED") /\
                   sched' = [sched EXCEPT !.pc = "timeout_term", !.todo = @ \ {j}]
        <4>1. PICK e \in Execs : TermBegin("sched", e, "FAILED")
          BY <3>1 DEF ActiveFor
        <4>2. sched'.pc = "timeout_term"
          BY <3>1 DEF TypeOK, SchedType
        <4> QED BY <4>1, <4>2, TermBeginFacts DEF TimeoutJob
      <3>2. CASE /\ lock = Unlocked /\ ActiveFor(j) = {} /\ UNCHANGED <<exec, lock>>
                 /\ sched' = [sched EXCEPT !.pc = "timeout_db", !.job = j, !.todo = @ \ {j}]
        BY <3>2 DEF TimeoutJob, TypeOK, SchedType, Unlocked
      <3> QED BY <3>1, <3>2 DEF TimeoutJob
    <2>1. TypeOK'
      BY TermBeginFacts, ZenonT(30) DEF TypeOK, TimeoutJob, ActiveFor, SchedType, SchedPcs
    <2>2. Ownership'
      BY <2>0 DEF TypeOK, ExecType, Ownership, Active, HandPcs, SpawnPcs
    <2>3. Custody'
      BY <2>0 DEF Custody, RowExists, QueuedIdle, RetryGuard, HandsFree, Reserved,
        AtMostOneExecution, NoLeakedReservation, Ownership, Active, ActiveFor,
        SpawnPcs, HandPcs, TypeOK, ExecType
    <2> QED BY <2>1, <2>2, <2>3
  <1>23. CASE TimeoutTerm
    <2> USE <1>23 DEF IInv
    <2>1. TypeOK'
      BY TermCommitFacts DEF TypeOK, TimeoutTerm, SchedGoto, SchedType, SchedPcs
    <2>2. Ownership'
      BY TermCommitFacts DEF TypeOK, ExecType, Ownership, Active, HandPcs, SpawnPcs,
        TimeoutTerm, Unlocked, SchedGoto, SchedType
    <2>3. RowExists' /\ QueuedIdle' /\ RetryGuard'
      BY TermCommitFacts DEF Custody, RowExists, QueuedIdle, RetryGuard, HandsFree,
        Ownership, Active, ActiveFor, SpawnPcs, HandPcs, TypeOK, ExecType,
        TimeoutTerm, Unlocked, SchedGoto, SchedType
    <2>4. HandsFree' /\ Reserved'
      BY TermCommitFacts DEF Custody, HandsFree, QueuedIdle, Reserved,
        AtMostOneExecution, Ownership, Active, ActiveFor, SpawnPcs, HandPcs, TypeOK,
        ExecType, TimeoutTerm, Unlocked, SchedGoto, SchedType
    <2>5. AtMostOneExecution' /\ NoLeakedReservation'
      BY TermCommitFacts DEF Custody, NoLeakedReservation, Reserved,
        AtMostOneExecution, HandsFree, Ownership, Active, ActiveFor, SpawnPcs,
        HandPcs, TypeOK, ExecType, TimeoutTerm, Unlocked, SchedGoto, SchedType
    <2> QED BY <2>1, <2>2, <2>3, <2>4, <2>5 DEF Custody
  <1>24. CASE TimeoutDb
    <2> USE <1>24 DEF IInv
    <2>1. TypeOK'
      BY DEF TypeOK, Ownership, RowExists, HandPcs, SpawnPcs, TimeoutDb, SchedType,
        SchedPcs, Status, Terminal
    <2>2. Ownership'
      BY DEF TypeOK, ExecType, Ownership, Active, HandPcs, SpawnPcs, TimeoutDb,
        SchedType
    <2>3. Custody'
      BY DEF Custody, RowExists, QueuedIdle, RetryGuard, HandsFree, Reserved,
        AtMostOneExecution, NoLeakedReservation, Ownership, Active, ActiveFor,
        SpawnPcs, HandPcs, TypeOK, ExecType, TimeoutDb, SchedType
    <2> QED BY <2>1, <2>2, <2>3
  <1>25. CASE TimeoutEnd
    <2> USE <1>25 DEF IInv
    <2>1. TypeOK'
      BY DEF TypeOK, Ownership, RowExists, HandPcs, SpawnPcs, TimeoutEnd, SchedDone,
        SchedIdle, SchedType, SchedPcs, Status, Terminal
    <2>2. Ownership'
      BY DEF TypeOK, ExecType, Ownership, Active, HandPcs, SpawnPcs, TimeoutEnd,
        SchedDone, SchedIdle
    <2>3. Custody'
      BY DEF Custody, RowExists, QueuedIdle, RetryGuard, HandsFree, Reserved,
        AtMostOneExecution, NoLeakedReservation, Ownership, Active, ActiveFor,
        SpawnPcs, HandPcs, TypeOK, ExecType, TimeoutEnd, SchedDone, SchedIdle
    <2> QED BY <2>1, <2>2, <2>3
  <1> QED BY <1>1, <1>2, <1>3, <1>4, <1>5, <1>6, <1>7, <1>8, <1>9, <1>10, <1>11,
    <1>12, <1>13, <1>14, <1>15, <1>16, <1>17, <1>18, <1>19, <1>20, <1>21, <1>22,
    <1>23, <1>24, <1>25 DEF Scheduler, SpawnStarted, SpawnLaunch, TimeoutJob

\* A step of a launcher or watcher thread, or of a process, keeps the invariant.
LEMMA ExecStep ==
  ASSUME IInv, \E e \in Execs : ExecLocked(e) \/ ExecFree(e) \/ ProcessExits(e)
  PROVE  IInv'
  <1>1. ASSUME NEW e \in Execs, Launch(e)
        PROVE  IInv'
    <2> USE <1>1 DEF IInv
    <2>1. TypeOK'
      <3>1. exec[e] \in ExecType
        BY DEF TypeOK
      <3>2. CASE exec[e].term = "no"
        BY <3>1, <3>2 DEF TypeOK, Launch, ExecType, ExecPcs
      <3>3. CASE exec[e].term # "no"
        BY <3>1, <3>3 DEF TypeOK, Launch, ExecType, ExecPcs, Terminal
      <3> QED BY <3>2, <3>3
    <2>2. Ownership' /\ Frame
      BY DEF TypeOK, ExecType, Ownership, Active, ThreadPcs, ExecPcs, Terminal,
        Frame, Launch, Unlocked
    <2> QED BY <2>1, <2>2, FrameStep
  <1>2. ASSUME NEW e \in Execs, Prepare(e)
        PROVE  IInv'
    <2> USE <1>2 DEF IInv
    <2>1. TypeOK'
      BY DEF TypeOK, Ownership, RowExists, HandPcs, SpawnPcs, Prepare, ExecType,
        ExecPcs, Status, Terminal
    <2>2. Ownership' /\ Frame
      BY SMTT(30) DEF TypeOK, ExecType, Ownership, Active, ThreadPcs, ExecPcs, Terminal,
        Frame, Prepare
    <2> QED BY <2>1, <2>2, FrameStep
  <1>3. ASSUME NEW e \in Execs, SetProcess(e)
        PROVE  IInv'
    <2> USE <1>3 DEF IInv
    <2>0. /\ \A f \in Execs : /\ exec'[f].job = exec[f].job
                              /\ exec'[f].pc = IF f = e THEN "watcher" ELSE exec[f].pc
                              /\ exec[f].proc = "none" => exec'[f].proc = "none"
          /\ exec[e].pc = "forked" /\ UNCHANGED <<phase, db, sched, http, lock, alloc>>
      <3> DEFINE x == [exec[e] EXCEPT !.pid = TRUE, !.pc = "watcher"]
      <3>1. x \in ExecType /\ x.job = exec[e].job /\ x.pc = "watcher" /\ x.proc = exec[e].proc
        BY ZenonT(30) DEF TypeOK, ExecType, ExecPcs
      <3>2. exec' = [exec EXCEPT ![e] = IF x.term # "no" THEN Killed(x) ELSE x]
        BY DEF SetProcess
      <3> HIDE DEF x
      <3> QED BY <3>1, <3>2, KilledFacts DEF SetProcess, TypeOK
    <2>1. TypeOK'
      <3>1. exec[e] \in ExecType
        BY DEF TypeOK
      <3> DEFINE x == [exec[e] EXCEPT !.pid = TRUE, !.pc = "watcher"]
      <3>2. x \in ExecType
        BY <3>1 DEF ExecType, ExecPcs
      <3>3. exec' = [exec EXCEPT ![e] = IF x.term # "no" THEN Killed(x) ELSE x]
        BY DEF SetProcess
      <3> HIDE DEF x
      <3> QED BY <3>2, <3>3, KilledFacts DEF TypeOK, SetProcess
    <2>2. Ownership' /\ Frame
      BY <2>0 DEF TypeOK, ExecType, Ownership, Active, ThreadPcs, ExecPcs, Terminal,
        Frame
    <2> QED BY <2>1, <2>2, FrameStep
  <1>4. ASSUME NEW e \in Execs, StartWatcher(e)
        PROVE  IInv'
    <2> USE <1>4 DEF IInv
    <2>1. TypeOK'
      BY DEF TypeOK, Ownership, RowExists, HandPcs, SpawnPcs, StartWatcher,
        ExecType, ExecPcs, Status, Terminal
    <2>2. Ownership' /\ Frame
      BY SMTT(30) DEF TypeOK, ExecType, Ownership, Active, ThreadPcs, ExecPcs, Terminal,
        Frame, StartWatcher
    <2> QED BY <2>1, <2>2, FrameStep
  <1>5. ASSUME NEW e \in Execs, ProcessExits(e)
        PROVE  IInv'
    <2> USE <1>5 DEF IInv
    <2>1. TypeOK'
      BY DEF TypeOK, Ownership, RowExists, HandPcs, SpawnPcs, ProcessExits,
        ExecType, ExecPcs, Status, Terminal
    <2>2. Ownership' /\ Frame
      BY DEF TypeOK, ExecType, Ownership, Active, ThreadPcs, ExecPcs, Terminal,
        Frame, ProcessExits
    <2> QED BY <2>1, <2>2, FrameStep
  <1>6. ASSUME NEW e \in Execs, Reap(e)
        PROVE  IInv'
    <2> USE <1>6 DEF IInv
    <2>1. TypeOK'
      BY DEF TypeOK, Ownership, RowExists, HandPcs, SpawnPcs, Reap, ExecType,
        ExecPcs, Status, Terminal
    <2>2. Ownership' /\ Frame
      BY DEF TypeOK, ExecType, Ownership, Active, ThreadPcs, ExecPcs, Terminal,
        Frame, Reap
    <2> QED BY <2>1, <2>2, FrameStep
  <1>7. ASSUME NEW e \in Execs, ClearProcess(e)
        PROVE  IInv'
    <2> USE <1>7 DEF IInv
    <2>1. TypeOK'
      <3>1. exec[e] \in ExecType
        BY DEF TypeOK
      <3>2. exec' \in [Execs -> ExecType]
        BY <3>1 DEF TypeOK, ClearProcess, ExecType, ExecPcs
      <3> QED BY <3>2 DEF TypeOK, ClearProcess
    <2>2. Ownership' /\ Frame
      BY DEF TypeOK, ExecType, Ownership, Active, ThreadPcs, ExecPcs, Terminal,
        Frame, ClearProcess, Unlocked
    <2> QED BY <2>1, <2>2, FrameStep
  <1>8. ASSUME NEW e \in Execs, Settle(e)
        PROVE  IInv'
    <2> USE <1>8 DEF IInv
    <2>1. TypeOK'
      <3>1. exec[e] \in ExecType
        BY DEF TypeOK
      <3> DEFINE out == IF exec[e].term # "no" THEN exec[e].term ELSE exec[e].out
      <3>2. out \in Terminal
        BY <3>1 DEF ExecType, Terminal
      <3>3. exec' = [exec EXCEPT ![e] = [exec[e] EXCEPT !.pc = "check", !.out = out]]
        BY <3>1 DEF Settle, TypeOK, ExecType
      <3> HIDE DEF out
      <3>4. exec' \in [Execs -> ExecType]
        BY <3>1, <3>2, <3>3 DEF TypeOK, ExecType, ExecPcs
      <3> QED BY <3>4 DEF TypeOK, Settle
    <2>2. Ownership' /\ Frame
      BY DEF TypeOK, ExecType, Ownership, Active, ThreadPcs, ExecPcs, Terminal,
        Frame, Settle, Unlocked
    <2> QED BY <2>1, <2>2, FrameStep
  <1>9. ASSUME NEW e \in Execs, OutcomeCheck(e)
        PROVE  IInv'
    <2> USE <1>9 DEF IInv
    <2>1. TypeOK'
      BY DEF TypeOK, Ownership, RowExists, HandPcs, SpawnPcs, OutcomeCheck,
        ExecGoto, ExecType, ExecPcs, Status, Terminal
    <2>2. Ownership' /\ Frame
      BY DEF TypeOK, ExecType, Ownership, Active, ThreadPcs, ExecPcs, Terminal,
        Frame, OutcomeCheck, ExecGoto
    <2> QED BY <2>1, <2>2, FrameStep
  <1>10. ASSUME NEW e \in Execs, OutcomeWrite(e)
        PROVE  IInv'
    <2> USE <1>10 DEF IInv
    <2>1. TypeOK'
      <3>1. exec[e] \in ExecType
        BY DEF TypeOK
      <3>2. exec[e].out \in Status
        BY <3>1 DEF ExecType, Status
      <3>3. exec' \in [Execs -> ExecType]
        BY <3>1, <3>2 DEF TypeOK, OutcomeWrite, ExecType, ExecPcs
      <3>4. db' \in [Jobs -> Status \cup {"none"}]
        BY <3>2 DEF TypeOK, OutcomeWrite
      <3> QED BY <3>3, <3>4 DEF TypeOK, OutcomeWrite
    <2>2. Ownership' /\ Frame
      BY DEF TypeOK, ExecType, Ownership, Active, ThreadPcs, ExecPcs, Terminal,
        Frame, OutcomeWrite
    <2> QED BY <2>1, <2>2, FrameStep
  <1>11. ASSUME NEW e \in Execs, Release(e)
        PROVE  IInv'
    <2> USE <1>11 DEF IInv
    <2>1. TypeOK'
      BY DEF TypeOK, Ownership, RowExists, HandPcs, SpawnPcs, Release, ExecGoto,
        ExecType, ExecPcs, Status, Terminal
    <2>2. Ownership'
      BY DEF TypeOK, ExecType, Ownership, Active, HandPcs, SpawnPcs, Release,
        ExecGoto
    <2>3. Custody'
      BY DEF Custody, RowExists, QueuedIdle, RetryGuard, HandsFree, Reserved,
        AtMostOneExecution, NoLeakedReservation, Ownership, Active, ActiveFor,
        SpawnPcs, HandPcs, TypeOK, ExecType, Release, ExecGoto
    <2> QED BY <2>1, <2>2, <2>3
  <1>12. ASSUME NEW e \in Execs, Unregister(e)
        PROVE  IInv'
    <2> USE <1>12 DEF IInv
    <2>1. TypeOK'
      BY DEF TypeOK, Ownership, RowExists, HandPcs, SpawnPcs, Unregister, FreeExec,
        ExecType, ExecPcs, Status, Terminal
    <2>2. Ownership'
      BY DEF TypeOK, ExecType, Ownership, Active, HandPcs, SpawnPcs, Unregister,
        Unlocked, FreeExec
    <2>3. Custody'
      BY DEF Custody, RowExists, QueuedIdle, RetryGuard, HandsFree, Reserved,
        AtMostOneExecution, NoLeakedReservation, Ownership, Active, ActiveFor,
        SpawnPcs, HandPcs, TypeOK, ExecType, Unregister, Unlocked, FreeExec
    <2> QED BY <2>1, <2>2, <2>3
  <1> QED BY <1>1, <1>2, <1>3, <1>4, <1>5, <1>6, <1>7, <1>8, <1>9, <1>10, <1>11,
    <1>12 DEF ExecLocked, ExecFree

\* A step of a stop, a crash, a restart and the end of an orphan keep the invariant.
LEMMA MainStep ==
  ASSUME IInv, Main \/ Stop \/ Crash \/ Restart \/ \E j \in Jobs : OrphanExits(j)
  PROVE  IInv'
  <1>1. CASE Stop
    <2> USE <1>1 DEF IInv
    <2>1. TypeOK'
      BY DEF TypeOK, Ownership, RowExists, HandPcs, SpawnPcs, Stop
    <2>2. Ownership' /\ Frame
      BY DEF TypeOK, ExecType, Ownership, Active, ThreadPcs, ExecPcs, Terminal,
        Frame, Stop
    <2> QED BY <2>1, <2>2, FrameStep
  <1>2. CASE StopHttp
    <2> USE <1>2 DEF IInv
    <2>1. TypeOK'
      BY DEF TypeOK, Ownership, RowExists, HandPcs, SpawnPcs, StopHttp
    <2>2. Ownership' /\ Frame
      BY DEF TypeOK, ExecType, Ownership, Active, ThreadPcs, ExecPcs, Terminal,
        Frame, StopHttp
    <2> QED BY <2>1, <2>2, FrameStep
  <1>3. CASE StopSched
    <2> USE <1>3 DEF IInv
    <2>1. TypeOK'
      BY DEF TypeOK, Ownership, RowExists, HandPcs, SpawnPcs, StopSched
    <2>2. Ownership' /\ Frame
      BY DEF TypeOK, ExecType, Ownership, Active, ThreadPcs, ExecPcs, Terminal,
        Frame, StopSched
    <2> QED BY <2>1, <2>2, FrameStep
  <1>4. ASSUME NEW e \in Execs, StopExec(e)
        PROVE  IInv'
    <2> USE <1>4 DEF IInv
    <2>1. TypeOK'
      BY TermBeginFacts DEF TypeOK, StopExec
    <2>2. Ownership' /\ Frame
      BY TermBeginFacts DEF TypeOK, ExecType, Ownership, Active, ThreadPcs, ExecPcs,
        Terminal, Frame, StopExec, Unlocked
    <2> QED BY <2>1, <2>2, FrameStep
  <1>5. CASE StopExecTerm
    <2> USE <1>5 DEF IInv
    <2>1. TypeOK'
      BY TermCommitFacts DEF TypeOK, StopExecTerm
    <2>2. Ownership' /\ Frame
      BY TermCommitFacts DEF TypeOK, ExecType, Ownership, Active, ThreadPcs,
        ExecPcs, Terminal, Frame, StopExecTerm, Unlocked
    <2> QED BY <2>1, <2>2, FrameStep
  <1>6. CASE Stopped
    <2> USE <1>6 DEF IInv
    <2>1. TypeOK'
      BY IdleTypes DEF TypeOK, Stopped
    <2>2. Ownership'
      BY DEF TypeOK, ExecType, Ownership, Active, HandPcs, SpawnPcs, Stopped
    <2>3. Custody'
      BY DEF Custody, RowExists, QueuedIdle, RetryGuard, HandsFree, Reserved,
        AtMostOneExecution, NoLeakedReservation, Ownership, Active, ActiveFor,
        SpawnPcs, HandPcs, TypeOK, ExecType, Stopped
    <2> QED BY <2>1, <2>2, <2>3
  <1>7. CASE Crash
    <2> USE <1>7 DEF IInv
    <2>1. TypeOK'
      BY IdleTypes DEF TypeOK, Ownership, Active, Crash
    <2>2. Ownership'
      BY DEF TypeOK, ExecType, Ownership, Active, HandPcs, SpawnPcs, Crash,
        SchedIdle, HttpIdle, FreeExec, Unlocked
    <2>3. Custody'
      BY DEF Custody, RowExists, QueuedIdle, RetryGuard, HandsFree, Reserved,
        AtMostOneExecution, NoLeakedReservation, Ownership, Active, ActiveFor,
        SpawnPcs, HandPcs, TypeOK, ExecType, Crash, SchedIdle, HttpIdle, FreeExec,
        Unlocked
    <2> QED BY <2>1, <2>2, <2>3
  <1>8. CASE Restart
    <2> USE <1>8 DEF IInv
    <2>1. TypeOK'
      BY BudgetSpent DEF TypeOK, Restart, Status, Terminal
    <2>2. Ownership'
      BY DEF TypeOK, ExecType, Ownership, Active, HandPcs, SpawnPcs, Restart
    <2>3. Custody'
      BY DEF Custody, RowExists, QueuedIdle, RetryGuard, HandsFree, Reserved,
        AtMostOneExecution, NoLeakedReservation, Ownership, Active, ActiveFor,
        SpawnPcs, HandPcs, TypeOK, ExecType, Restart
    <2> QED BY <2>1, <2>2, <2>3
  <1>9. ASSUME NEW j \in Jobs, OrphanExits(j)
        PROVE  IInv'
    <2> USE <1>9 DEF IInv
    <2>1. TypeOK'
      BY DEF TypeOK, Ownership, RowExists, HandPcs, SpawnPcs, OrphanExits
    <2>2. Ownership' /\ Frame
      BY DEF TypeOK, ExecType, Ownership, Active, ThreadPcs, ExecPcs, Terminal,
        Frame, OrphanExits
    <2> QED BY <2>1, <2>2, FrameStep
  <1> QED BY <1>1, <1>2, <1>3, <1>4, <1>5, <1>6, <1>7, <1>8, <1>9 DEF Main

-----------------------------------------------------------------------------
(* The theorems. *)

\* The invariant holds initially and every step keeps it.
LEMMA Invariance == Spec => []IInv
  <1>1. Init => IInv
    <2> SUFFICES ASSUME Init PROVE IInv
      OBVIOUS
    <2>1. TypeOK
      BY IdleTypes, Bounds DEF Init, TypeOK, BudgetType
    <2>2. \A e \in Execs : ~Active(e) /\ exec[e].proc = "none"
      BY DEF Init, FreeExec, Active
    <2>3. Ownership /\ RowExists /\ QueuedIdle /\ RetryGuard
      BY <2>2 DEF Init, Active, SchedIdle, HttpIdle, Unlocked, SpawnPcs, HandPcs,
         Ownership, RowExists, QueuedIdle, RetryGuard
    <2>4. HandsFree /\ Reserved /\ AtMostOneExecution /\ NoLeakedReservation
      BY <2>2 DEF Init, SchedIdle, HandsFree, Reserved, AtMostOneExecution, NoLeakedReservation
    <2> QED BY <2>1, <2>3, <2>4 DEF IInv, Custody
  <1>2. IInv /\ [Next]_vars => IInv'
    <2> SUFFICES ASSUME IInv, [Next]_vars PROVE IInv'
      OBVIOUS
    <2>1. CASE Next
      BY <2>1, HttpStep, SchedulerStep, ExecStep, MainStep DEF Next
    <2>2. CASE UNCHANGED vars
      BY <2>2 DEF vars, IInv, Custody, TypeOK, Ownership, RowExists, QueuedIdle, RetryGuard,
         HandsFree, Reserved, AtMostOneExecution, NoLeakedReservation, Active, ActiveFor
    <2> QED BY <2>1, <2>2
  <1> QED BY <1>1, <1>2, PTL DEF Spec

\* Every variable keeps its type, for every number of jobs and executions.
THEOREM TypeCorrect == Spec => []TypeOK
  <1>1. IInv => TypeOK
    BY DEF IInv, Custody
  <1> QED BY <1>1, Invariance, PTL

\* A job never has two executions.
THEOREM SingleExecution == Spec => []AtMostOneExecution
  <1>1. IInv => AtMostOneExecution
    BY DEF IInv, Custody
  <1> QED BY <1>1, Invariance, PTL

\* A process that exists is covered by a reservation.
THEOREM ProcessesAreReserved == Spec => []LiveProcessReserved
  <1>1. IInv => LiveProcessReserved
    BY DEF IInv, Custody, LiveProcessReserved, Ownership, Reserved, Active
  <1> QED BY <1>1, Invariance, PTL

\* A reservation always has an owner that will release it.
THEOREM ReservationsAreOwned == Spec => []NoLeakedReservation
  <1>1. IInv => NoLeakedReservation
    BY DEF IInv, Custody
  <1> QED BY <1>1, Invariance, PTL

\* When executor_shutdown has returned, nothing is left running or reserved.
THEOREM StopIsClean == Spec => StopLeavesNothing
  <1>1. IInv /\ [Next]_vars =>
          [phase' = "stopped" /\ phase = "exec_stop" =>
             alloc = {} /\ \A e \in Execs : exec[e].proc = "none"]_vars
    <2> SUFFICES ASSUME IInv, Next, phase' = "stopped", phase = "exec_stop"
                 PROVE  alloc = {} /\ \A e \in Execs : exec[e].proc = "none"
      OBVIOUS
    <2>1. ASSUME NEW j \in Jobs PROVE ~(SubmitInsert(j) \/ CancelCheck(j) \/ RetryCheck(j) \/ OrphanExits(j))
      BY DEF SubmitInsert, CancelCheck, RetryCheck, OrphanExits
    <2>2. ~Http
      BY DEF Http, SubmitPush, CancelQueue, CancelEntry, CancelActive, CancelTerm, CancelRead,
         CancelWrite, RetryActive, RetryRemove, RetryDb, RetryLoad, RetryPush
    <2>3. ~Scheduler
      BY DEF Scheduler, Pop, PopRecheck, Blocked, Reserve, Dispatch, Register, RegisterFails,
         SpawnRecheck, SpawnNoDirs, SpawnFail, SpawnAbandon, SpawnCheck, SpawnRun, SpawnStarted,
         SpawnLaunch, SpawnFinished, TimeoutScan, TimeoutJob, TimeoutTerm, TimeoutDb, TimeoutEnd
    <2>4. ASSUME NEW e \in Execs PROVE ~(ExecLocked(e) \/ ExecFree(e) \/ ProcessExits(e))
      BY DEF ExecLocked, ExecFree, ProcessExits, Launch, Prepare, SetProcess, StartWatcher, Reap,
         ClearProcess, Settle, OutcomeCheck, OutcomeWrite, Release, Unregister
    <2>5. Stopped
      BY <2>1, <2>2, <2>3, <2>4 DEF Next, Main, Stop, StopHttp, StopSched, StopExec,
         StopExecTerm, Crash, Restart
    <2> QED BY <2>5 DEF Stopped, IInv, Custody, Ownership, NoLeakedReservation, ActiveFor, Active, TypeOK
  <1> QED BY <1>1, Invariance, PTL DEF Spec, StopLeavesNothing
-----------------------------------------------------------------------------
(* A QUEUED row is carried. *)

\* Who will see to a job whose row is QUEUED: an entry whose Job object says
\* QUEUED as well, the scheduler with such an object or about to write the
\* row, or a handler about to push one or to write CANCELLED.  An entry with
\* another status does not count: scheduler_cancel_job and executor_spawn
\* drop it without a write.
SchedCarries(j) ==
  /\ sched.job = j
  /\ \/ sched.pc \in {"popped", "fit", "dispatch", "register"} /\ sched.mem = "QUEUED"
     \/ sched.pc \in {"recheck", "dirs"} /\ exec[sched.exec].mem = "QUEUED"
     \/ sched.pc \in {"fail", "run"}

HttpCarries(j) ==
  /\ http.job = j
  /\ \/ http.pc \in {"submit_push", "retry_push", "cancel_entry"} /\ http.mem = "QUEUED"
     \/ http.pc = "retry_load"

Carried(j) == queue[<<j, "QUEUED">>] > 0 \/ SchedCarries(j) \/ HttpCarries(j)

QueuedIsCarried ==
  phase \notin {"stopped", "crashed"} => \A j \in Jobs : db[j] = "QUEUED" => Carried(j)

\* It suffices to look at one job whose row stays QUEUED.
LEMMA CarriedStep ==
  ASSUME QueuedIsCarried,
         phase' \notin {"stopped", "crashed"} => phase \notin {"stopped", "crashed"},
         \A j \in Jobs : db'[j] = "QUEUED" => db[j] = "QUEUED" /\ (Carried(j) => Carried(j)')
  PROVE  QueuedIsCarried'
  BY DEF QueuedIsCarried

\* What is pushed is in the queue, and so is what was there before.
LEMMA PushedCarries ==
  ASSUME TypeOK, NEW k \in Jobs, NEW mem \in Status, queue' = Pushed(k, mem)
  PROVE  /\ \A j \in Jobs : queue[<<j, "QUEUED">>] > 0 => queue'[<<j, "QUEUED">>] > 0
         /\ mem = "QUEUED" => queue'[<<k, "QUEUED">>] > 0
  <1>1. \A j \in Jobs : <<j, "QUEUED">> \in Entries /\ queue[<<j, "QUEUED">>] \in Nat
    BY DEF TypeOK, Entries, Status
  <1>2. <<k, mem>> \in Entries /\ queue[<<k, mem>>] \in Nat
    BY DEF TypeOK, Entries
  <1>3. \A q \in Entries : queue'[q] = IF q = <<k, mem>> THEN queue[q] + 1 ELSE queue[q]
    BY DEF Pushed, TypeOK
  <1> QED BY <1>1, <1>2, <1>3

\* The request flag is not the status of the object.
LEMMA TermBeginCarries ==
  ASSUME TypeOK, NEW by, NEW e \in Execs, NEW status, TermBegin(by, e, status)
  PROVE  \A f \in Execs : exec'[f].mem = exec[f].mem
  <1>1. exec' = [exec EXCEPT ![e].term = IF @ = "no" THEN status ELSE @]
    BY DEF TermBegin
  <1> QED BY <1>1 DEF TypeOK, ExecType

\* A termination changes the object only together with the row.
LEMMA TermCommitCarries ==
  ASSUME TypeOK, Ownership, NEW by \in {"http", "sched", "main"}, TermCommit(by)
  PROVE  \A f \in Execs : exec[f].job \in Jobs =>
            exec'[f].mem = exec[f].mem \/ db'[exec[f].job] # "QUEUED"
  <1> DEFINE e == lock.exec
             x == IF lock.set THEN [exec[e] EXCEPT !.mem = lock.to] ELSE exec[e]
             y == IF x.pid THEN Killed(x) ELSE x
  <1>1. e \in Execs /\ lock.to \in {"CANCELLED", "FAILED"}
    BY DEF TermCommit, Ownership, TypeOK, LockType
  <1>2. exec[e] \in ExecType
    BY <1>1 DEF TypeOK
  <1>3. x.job = exec[e].job /\ (lock.set \/ x.mem = exec[e].mem)
    BY <1>2 DEF ExecType
  <1>4. y.mem = x.mem
    BY <1>2, <1>3 DEF ExecType, Killed
  <1>5. exec' = [exec EXCEPT ![e] = y]
    BY DEF TermCommit
  <1>6. db' = IF lock.set THEN [db EXCEPT ![x.job] = lock.to] ELSE db
    BY DEF TermCommit
  <1> HIDE DEF e, x, y
  <1> TAKE f \in Execs
  <1> HAVE exec[f].job \in Jobs
  <1>7. CASE f # e
    BY <1>5, <1>7 DEF TypeOK
  <1>8. CASE f = e /\ ~lock.set
    BY <1>1, <1>3, <1>4, <1>5, <1>8 DEF TypeOK
  <1>9. CASE f = e /\ lock.set
    BY <1>1, <1>3, <1>6, <1>9 DEF TypeOK
  <1> QED BY <1>7, <1>8, <1>9

\* A termination that leaves the queue, the scheduler and a carrying handler
\* alone.
LEMMA TermCarries ==
  ASSUME IInv, QueuedIsCarried, NEW by \in {"http", "main"}, TermCommit(by),
         UNCHANGED <<phase, queue, sched>>,
         \A j \in Jobs : HttpCarries(j) => HttpCarries(j)'
  PROVE  QueuedIsCarried'
  <1>1. \A j \in Jobs : db'[j] = "QUEUED" => db[j] = "QUEUED"
    BY TermCommitFacts DEF IInv
  <1>2. \A f \in Execs : exec[f].job \in Jobs =>
          exec'[f].mem = exec[f].mem \/ db'[exec[f].job] # "QUEUED"
    BY TermCommitCarries DEF IInv
  <1>3. sched.pc \in {"recheck", "dirs"} =>
          sched.exec \in Execs /\ exec[sched.exec].job = sched.job
    BY DEF IInv, Ownership, SpawnPcs
  <1>4. ASSUME NEW j \in Jobs, db'[j] = "QUEUED", Carried(j) PROVE Carried(j)'
    BY <1>2, <1>3, <1>4 DEF Carried, SchedCarries
  <1> QED BY <1>1, <1>4, CarriedStep

\* The HTTP thread.
LEMMA HttpCarriesOn ==
  ASSUME IInv, QueuedIsCarried, Http \/ \E i \in Jobs : SubmitInsert(i) \/ CancelCheck(i) \/ RetryCheck(i)
  PROVE  QueuedIsCarried'
  <1>1. ASSUME NEW j \in Jobs, SubmitInsert(j) PROVE QueuedIsCarried'
    BY <1>1 DEF SubmitInsert, IInv, TypeOK, QueuedIsCarried, Carried, SchedCarries,
       HttpCarries
  <1>2. ASSUME NEW j \in Jobs, CancelCheck(j) PROVE QueuedIsCarried'
    BY <1>2 DEF CancelCheck, HttpIdle, IInv, TypeOK, QueuedIsCarried, Carried, SchedCarries,
       HttpCarries
  <1>3. ASSUME NEW j \in Jobs, RetryCheck(j) PROVE QueuedIsCarried'
    BY <1>3 DEF RetryCheck, HttpIdle, IInv, TypeOK, QueuedIsCarried, Carried, SchedCarries,
       HttpCarries
  <1>4. ASSUME SubmitPush PROVE QueuedIsCarried'
    <2>1. http.job \in Jobs /\ http.mem \in Status
      BY <1>4 DEF SubmitPush, IInv, Ownership, TypeOK, HttpType
    <2>2. queue' = Pushed(http.job, http.mem)
      BY <1>4 DEF SubmitPush
    <2>3. /\ \A j \in Jobs : queue[<<j, "QUEUED">>] > 0 => queue'[<<j, "QUEUED">>] > 0
          /\ http.mem = "QUEUED" => queue'[<<http.job, "QUEUED">>] > 0
      BY <2>1, <2>2, PushedCarries DEF IInv
    <2>4. UNCHANGED <<phase, db, sched, exec>> /\ http.pc = "submit_push"
      BY <1>4 DEF SubmitPush
    <2>5. ASSUME NEW j \in Jobs, Carried(j) PROVE Carried(j)'
      BY <2>3, <2>4, <2>5 DEF Carried, SchedCarries, HttpCarries
    <2> QED BY <2>4, <2>5, CarriedStep
  <1>5. ASSUME CancelQueue PROVE QueuedIsCarried'
    <2>1. UNCHANGED <<phase, db, sched, exec>> /\ http.pc = "cancel_queue"
      BY <1>5 DEF CancelQueue
    <2>2. ASSUME NEW q \in InQueue(http.job), queue' = Removed(q),
                 http' = [http EXCEPT !.pc = "cancel_entry", !.mem = q[2]]
          PROVE  \A j \in Jobs : Carried(j) => Carried(j)'
      <3>1. q \in Entries /\ q[1] = http.job
        BY DEF InQueue
      <3>2. \A p \in Entries : p # q => queue'[p] = queue[p]
        BY <2>2, <3>1 DEF Removed, IInv, TypeOK
      <3>3. \A j \in Jobs : <<j, "QUEUED">> \in Entries
        BY DEF Entries, Status
      <3>4. http'.job = http.job /\ http'.pc = "cancel_entry" /\ http'.mem = q[2]
        BY <2>2 DEF IInv, TypeOK, HttpType
      <3> QED BY <2>1, <3>1, <3>2, <3>3, <3>4 DEF Carried, SchedCarries, HttpCarries
    <2>3. ASSUME HttpGoto("cancel_active"), UNCHANGED queue
          PROVE  \A j \in Jobs : Carried(j) => Carried(j)'
      BY <2>1, <2>3 DEF Carried, SchedCarries, HttpCarries
    <2>4. \A j \in Jobs : Carried(j) => Carried(j)'
      BY <1>5, <2>2, <2>3 DEF CancelQueue
    <2> QED BY <2>1, <2>4, CarriedStep
  <1>6. ASSUME CancelEntry PROVE QueuedIsCarried'
    BY <1>6 DEF CancelEntry, transition_allowed, HttpDone, HttpIdle, IInv, TypeOK,
       QueuedIsCarried, Carried, SchedCarries, HttpCarries
  <1>7. ASSUME CancelActive PROVE QueuedIsCarried'
    <2>1. UNCHANGED <<phase, db, queue, sched>> /\ http.pc = "cancel_active"
      BY <1>7 DEF CancelActive
    <2>2. sched.pc \in {"recheck", "dirs"} => exec'[sched.exec].mem = exec[sched.exec].mem
      <3>1. sched.pc \in {"recheck", "dirs"} => sched.exec \in Execs
        BY DEF IInv, Ownership, SpawnPcs
      <3> QED BY <1>7, <3>1, TermBeginCarries DEF CancelActive, ActiveFor, IInv
    <2>3. \A j \in Jobs : Carried(j) => Carried(j)'
      BY <2>1, <2>2 DEF Carried, SchedCarries, HttpCarries
    <2> QED BY <2>1, <2>3, CarriedStep
  <1>8. ASSUME CancelTerm PROVE QueuedIsCarried'
    <2>1. UNCHANGED <<phase, queue, sched>> /\ http.pc = "cancel_term" /\ TermCommit("http")
      BY <1>8 DEF CancelTerm
    <2> QED BY <2>1, TermCarries DEF HttpCarries
  <1>9. ASSUME CancelRead PROVE QueuedIsCarried'
    BY <1>9 DEF CancelRead, HttpGoto, HttpDone, HttpIdle, IInv, TypeOK, QueuedIsCarried,
       Carried, SchedCarries, HttpCarries
  <1>10. ASSUME CancelWrite PROVE QueuedIsCarried'
    BY <1>10 DEF CancelWrite, HttpDone, HttpIdle, IInv, TypeOK, QueuedIsCarried, Carried,
       SchedCarries, HttpCarries
  <1>11. ASSUME RetryActive PROVE QueuedIsCarried'
    BY <1>11 DEF RetryActive, HttpGoto, HttpDone, HttpIdle, IInv, TypeOK, QueuedIsCarried,
       Carried, SchedCarries, HttpCarries
  <1>12. ASSUME RetryRemove PROVE QueuedIsCarried'
    BY <1>12 DEF RetryRemove, InQueue, Removed, HttpGoto, Entries, Custody, RetryGuard,
       IInv, TypeOK, QueuedIsCarried, Carried, SchedCarries, HttpCarries
  <1>13. ASSUME RetryDb PROVE QueuedIsCarried'
    <2>1. UNCHANGED <<phase, queue, sched, exec>> /\ http.pc = "retry_db"
      BY <1>13 DEF RetryDb
    <2>2. CASE HttpDone /\ UNCHANGED db
      BY <2>1, <2>2, CarriedStep DEF Carried, SchedCarries, HttpCarries
    <2>3. CASE db' = [db EXCEPT ![http.job] = "QUEUED"] /\ HttpGoto("retry_load")
      <3>1. http'.job = http.job /\ http'.pc = "retry_load"
        BY <2>3 DEF HttpGoto, IInv, TypeOK, HttpType
      <3>2. \A j \in Jobs : j # http.job => db'[j] = db[j]
        BY <2>3 DEF IInv, TypeOK
      <3> QED BY <2>1, <3>1, <3>2 DEF QueuedIsCarried, Carried, SchedCarries, HttpCarries
    <2> QED BY <1>13, <2>2, <2>3 DEF RetryDb
  <1>14. ASSUME RetryLoad PROVE QueuedIsCarried'
    BY <1>14 DEF RetryLoad, IInv, TypeOK, QueuedIsCarried, Carried, SchedCarries,
       HttpCarries
  <1>15. ASSUME RetryPush PROVE QueuedIsCarried'
    <2>1. http.job \in Jobs /\ http.mem \in Status
      BY <1>15 DEF RetryPush, IInv, Ownership, TypeOK, HttpType
    <2>2. queue' = Pushed(http.job, http.mem)
      BY <1>15 DEF RetryPush
    <2>3. /\ \A j \in Jobs : queue[<<j, "QUEUED">>] > 0 => queue'[<<j, "QUEUED">>] > 0
          /\ http.mem = "QUEUED" => queue'[<<http.job, "QUEUED">>] > 0
      BY <2>1, <2>2, PushedCarries DEF IInv
    <2>4. UNCHANGED <<phase, db, sched, exec>> /\ http.pc = "retry_push"
      BY <1>15 DEF RetryPush
    <2>5. ASSUME NEW j \in Jobs, Carried(j) PROVE Carried(j)'
      BY <2>3, <2>4, <2>5 DEF Carried, SchedCarries, HttpCarries
    <2> QED BY <2>4, <2>5, CarriedStep
  <1> QED BY <1>1, <1>2, <1>3, <1>4, <1>5, <1>6, <1>7, <1>8, <1>9, <1>10, <1>11, <1>12,
       <1>13, <1>14, <1>15 DEF Http

\* The scheduler thread.
LEMMA SchedulerCarriesOn ==
  ASSUME IInv, QueuedIsCarried, Scheduler
  PROVE  QueuedIsCarried'
  <1>1. ASSUME NEW q \in Entries, Pop(q) PROVE QueuedIsCarried'
    BY <1>1 DEF Pop, Removed, Entries, SchedIdle, IInv, TypeOK, QueuedIsCarried, Carried,
       SchedCarries, HttpCarries
  <1>2. ASSUME PopRecheck PROVE QueuedIsCarried'
    <2>1. UNCHANGED <<phase, db, queue, http, exec>> /\ sched.pc = "popped"
      BY <1>2 DEF PopRecheck
    <2>2. CASE db[sched.job] = "QUEUED" /\ SchedGoto("fit")
      <3>1. sched'.job = sched.job /\ sched'.pc = "fit" /\ sched'.mem = sched.mem
        BY <2>2 DEF SchedGoto, IInv, TypeOK, SchedType
      <3> QED BY <2>1, <3>1, CarriedStep DEF Carried, SchedCarries, HttpCarries
    <2>3. CASE db[sched.job] # "QUEUED"
      BY <2>1, <2>3, CarriedStep DEF Carried, SchedCarries, HttpCarries
    <2> QED BY <1>2, <2>2, <2>3 DEF PopRecheck
  <1>3. ASSUME Blocked PROVE QueuedIsCarried'
    <2>1. sched.job \in Jobs /\ sched.mem \in Status
      BY <1>3 DEF Blocked, IInv, Ownership, TypeOK, SchedType, HandPcs
    <2>2. queue' = Pushed(sched.job, sched.mem)
      BY <1>3 DEF Blocked
    <2>3. /\ \A j \in Jobs : queue[<<j, "QUEUED">>] > 0 => queue'[<<j, "QUEUED">>] > 0
          /\ sched.mem = "QUEUED" => queue'[<<sched.job, "QUEUED">>] > 0
      BY <2>1, <2>2, PushedCarries DEF IInv
    <2>4. UNCHANGED <<phase, db, http, exec>> /\ sched.pc = "fit"
      BY <1>3 DEF Blocked
    <2>5. ASSUME NEW j \in Jobs, Carried(j) PROVE Carried(j)'
      BY <2>3, <2>4, <2>5 DEF Carried, SchedCarries, HttpCarries
    <2> QED BY <2>4, <2>5, CarriedStep
  <1>4. ASSUME Reserve PROVE QueuedIsCarried'
    BY <1>4 DEF Reserve, SchedGoto, IInv, TypeOK, QueuedIsCarried, Carried, SchedCarries,
       HttpCarries
  <1>5. ASSUME Dispatch PROVE QueuedIsCarried'
    <2>1. UNCHANGED <<phase, db, queue, http, exec>> /\ sched.pc = "dispatch"
      BY <1>5 DEF Dispatch
    <2>2. CASE db[sched.job] = "QUEUED" /\ SchedGoto("register")
      <3>1. sched'.job = sched.job /\ sched'.pc = "register" /\ sched'.mem = sched.mem
        BY <2>2 DEF SchedGoto, IInv, TypeOK, SchedType
      <3> QED BY <2>1, <3>1, CarriedStep DEF Carried, SchedCarries, HttpCarries
    <2>3. CASE db[sched.job] # "QUEUED"
      BY <2>1, <2>3, CarriedStep DEF Carried, SchedCarries, HttpCarries
    <2> QED BY <1>5, <2>2, <2>3 DEF Dispatch
  <1>6. ASSUME NEW e \in Execs, Register(e) PROVE QueuedIsCarried'
    BY <1>6 DEF Register, FreeExec, IInv, TypeOK, QueuedIsCarried, Carried, SchedCarries,
       HttpCarries
  <1>7. ASSUME RegisterFails PROVE QueuedIsCarried'
    BY <1>7 DEF RegisterFails, transition_allowed, SchedDone, SchedIdle, IInv, TypeOK,
       QueuedIsCarried, Carried, SchedCarries, HttpCarries
  <1>8. ASSUME SpawnRecheck PROVE QueuedIsCarried'
    BY <1>8 DEF SpawnRecheck, SchedGoto, IInv, TypeOK, QueuedIsCarried, Carried,
       SchedCarries, HttpCarries
  <1>9. ASSUME SpawnNoDirs PROVE QueuedIsCarried'
    BY <1>9 DEF SpawnNoDirs, SchedGoto, transition_allowed, IInv, TypeOK, QueuedIsCarried,
       Carried, SchedCarries, HttpCarries
  <1>10. ASSUME SpawnFail PROVE QueuedIsCarried'
    BY <1>10 DEF SpawnFail, SchedGoto, IInv, TypeOK, QueuedIsCarried, Carried, SchedCarries,
       HttpCarries
  <1>11. ASSUME SpawnAbandon PROVE QueuedIsCarried'
    BY <1>11 DEF SpawnAbandon, SchedDone, SchedIdle, IInv, TypeOK, QueuedIsCarried, Carried,
       SchedCarries, HttpCarries
  <1>12. ASSUME SpawnCheck PROVE QueuedIsCarried'
    BY <1>12 DEF SpawnCheck, SchedGoto, transition_allowed, IInv, TypeOK, QueuedIsCarried,
       Carried, SchedCarries, HttpCarries
  <1>13. ASSUME SpawnRun PROVE QueuedIsCarried'
    BY <1>13 DEF SpawnRun, SchedGoto, IInv, TypeOK, QueuedIsCarried, Carried, SchedCarries,
       HttpCarries
  <1>14. ASSUME SpawnStarted PROVE QueuedIsCarried'
    BY <1>14 DEF SpawnStarted, SpawnGivesUp, SchedGoto, IInv, TypeOK, QueuedIsCarried,
       Carried, SchedCarries, HttpCarries
  <1>15. ASSUME SpawnLaunch PROVE QueuedIsCarried'
    BY <1>15 DEF SpawnLaunch, SpawnGivesUp, SchedGoto, SchedDone, SchedIdle, IInv, TypeOK,
       QueuedIsCarried, Carried, SchedCarries, HttpCarries
  <1>16. ASSUME SpawnFinished PROVE QueuedIsCarried'
    BY <1>16 DEF SpawnFinished, SchedDone, SchedIdle, IInv, TypeOK, QueuedIsCarried,
       Carried, SchedCarries, HttpCarries
  <1>17. ASSUME NEW S \in SUBSET Jobs, TimeoutScan(S) PROVE QueuedIsCarried'
    BY <1>17 DEF TimeoutScan, SchedIdle, IInv, TypeOK, QueuedIsCarried, Carried,
       SchedCarries, HttpCarries
  <1>18. ASSUME NEW j \in Jobs, TimeoutJob(j) PROVE QueuedIsCarried'
    BY <1>18 DEF TimeoutJob, TermBegin, IInv, TypeOK, QueuedIsCarried, Carried,
       SchedCarries, HttpCarries
  <1>19. ASSUME TimeoutTerm PROVE QueuedIsCarried'
    <2>1. UNCHANGED <<phase, queue, http>> /\ sched.pc = "timeout_term" /\ TermCommit("sched")
      BY <1>19 DEF TimeoutTerm
    <2>2. \A j \in Jobs : db'[j] = "QUEUED" => db[j] = "QUEUED"
      BY <2>1, TermCommitFacts DEF IInv
    <2>3. \A j \in Jobs : Carried(j) => Carried(j)'
      BY <2>1 DEF Carried, SchedCarries, HttpCarries
    <2> QED BY <2>1, <2>2, <2>3, CarriedStep
  <1>20. ASSUME TimeoutDb PROVE QueuedIsCarried'
    BY <1>20 DEF TimeoutDb, IInv, TypeOK, QueuedIsCarried, Carried, SchedCarries,
       HttpCarries
  <1>21. ASSUME TimeoutEnd PROVE QueuedIsCarried'
    BY <1>21 DEF TimeoutEnd, SchedDone, SchedIdle, IInv, TypeOK, QueuedIsCarried, Carried,
       SchedCarries, HttpCarries
  <1> QED BY <1>1, <1>2, <1>3, <1>4, <1>5, <1>6, <1>7, <1>8, <1>9, <1>10, <1>11, <1>12,
       <1>13, <1>14, <1>15, <1>16, <1>17, <1>18, <1>19, <1>20, <1>21 DEF Scheduler

\* The threads of an execution, the stop, a crash and the restart.
LEMMA OthersCarryOn ==
  ASSUME IInv, QueuedIsCarried,
         \/ \E e \in Execs : ExecLocked(e) \/ ExecFree(e) \/ ProcessExits(e)
         \/ Main \/ Stop \/ Crash \/ Restart
         \/ \E j \in Jobs : OrphanExits(j)
  PROVE  QueuedIsCarried'
  <1> DEFINE kept == sched.pc \in {"recheck", "dirs"} => exec'[sched.exec].mem = exec[sched.exec].mem
  <1>0. sched.pc \in {"recheck", "dirs"} => sched.exec \in Execs /\ exec[sched.exec].pc = "spawn"
    BY DEF IInv, Ownership, SpawnPcs
  <1>1. ASSUME UNCHANGED <<queue, sched, http>>, kept,
               phase' \notin {"stopped", "crashed"} => phase \notin {"stopped", "crashed"},
               \A j \in Jobs : db'[j] = "QUEUED" => db[j] = "QUEUED"
        PROVE  QueuedIsCarried'
    <2>1. ASSUME NEW j \in Jobs, Carried(j) PROVE Carried(j)'
      BY <1>1, <2>1 DEF Carried, SchedCarries, HttpCarries
    <2> QED BY <1>1, <2>1, CarriedStep
  <1>2. ASSUME NEW e \in Execs, ExecLocked(e) \/ ExecFree(e) \/ ProcessExits(e)
        PROVE  QueuedIsCarried'
    <2>1. UNCHANGED <<phase, queue, sched, http>>
      BY <1>2 DEF ExecLocked, ExecFree, ProcessExits, Launch, Prepare, SetProcess, StartWatcher, Reap,
         ClearProcess, Settle, OutcomeCheck, OutcomeWrite, Release, Unregister
    <2>2. UNCHANGED db \/ OutcomeWrite(e)
      BY <1>2 DEF ExecLocked, ExecFree, ProcessExits, Launch, Prepare, SetProcess, StartWatcher, Reap,
         ClearProcess, Settle, OutcomeCheck, Release, Unregister
    <2>3. \A j \in Jobs : db'[j] = "QUEUED" => db[j] = "QUEUED"
      BY <2>2 DEF OutcomeWrite, IInv, TypeOK, ExecType, Terminal
    <2>4. kept
      <3>1. \A f \in Execs : f # e => exec'[f] = exec[f]
        BY <1>2 DEF ExecLocked, ExecFree, ProcessExits, Launch, Prepare, SetProcess, StartWatcher, Reap,
           ClearProcess, Settle, OutcomeCheck, OutcomeWrite, Release, Unregister, ExecGoto, IInv, TypeOK
      <3>2. exec[e].pc # "spawn" \/ exec' = [exec EXCEPT ![e].proc = exec'[e].proc]
        BY <1>2 DEF ExecLocked, ExecFree, ProcessExits, Launch, Prepare, SetProcess, StartWatcher, Reap,
           ClearProcess, Settle, OutcomeCheck, OutcomeWrite, Release, Unregister, ExecGoto,
           IInv, TypeOK, ExecType
      <3>3. exec[e].pc # "spawn" \/ exec'[e].mem = exec[e].mem
        BY <3>2 DEF IInv, TypeOK, ExecType
      <3> QED BY <1>0, <3>1, <3>3
    <2> QED BY <1>1, <2>1, <2>3, <2>4
  <1>3. CASE StopHttp \/ StopSched \/ Stop \/ \E j \in Jobs : OrphanExits(j)
    BY <1>1, <1>3 DEF StopHttp, StopSched, Stop, OrphanExits
  <1>4. ASSUME NEW e \in Execs, StopExec(e) PROVE QueuedIsCarried'
    BY <1>0, <1>1, <1>4, TermBeginCarries DEF StopExec, IInv
  <1>5. CASE StopExecTerm
    BY <1>5, TermCarries DEF StopExecTerm, HttpCarries
  <1>6. CASE Stopped \/ Crash
    BY <1>6 DEF Stopped, Crash, QueuedIsCarried
  <1>7. CASE Restart
    <2>1. \A j \in Jobs : <<j, "QUEUED">> \in Entries
      BY DEF Entries, Status
    <2>2. \A j \in Jobs : db'[j] = "QUEUED" => queue'[<<j, "QUEUED">>] = 1
      BY <1>7, <2>1 DEF Restart
    <2> QED BY <2>2 DEF QueuedIsCarried, Carried
  <1> QED BY <1>2, <1>3, <1>4, <1>5, <1>6, <1>7 DEF Main

\* A row that says QUEUED is on its way: the in-memory queue never forgets a
\* job, for any number of jobs, cancels, retries, timeouts and restarts.
THEOREM QueuedRowsAreCarried == Spec => []QueuedRowNotLost
  <1>1. Init => QueuedIsCarried
    BY DEF Init, QueuedIsCarried
  <1>2. IInv /\ QueuedIsCarried /\ [Next]_vars => QueuedIsCarried'
    <2> SUFFICES ASSUME IInv, QueuedIsCarried, [Next]_vars PROVE QueuedIsCarried'
      OBVIOUS
    <2>1. CASE Next
      BY <2>1, HttpCarriesOn, SchedulerCarriesOn, OthersCarryOn DEF Next
    <2>2. CASE UNCHANGED vars
      BY <2>2 DEF vars, QueuedIsCarried, Carried, SchedCarries, HttpCarries
    <2> QED BY <2>1, <2>2
  <1>3. TypeOK /\ QueuedIsCarried => QueuedRowNotLost
    <2> SUFFICES ASSUME TypeOK, QueuedIsCarried, NEW j \in Jobs, db[j] = "QUEUED",
                        phase \notin {"stopped", "crashed"}
                 PROVE  InQueue(j) # {} \/ sched.job = j \/ http.job = j
      BY DEF QueuedRowNotLost
    <2>1. <<j, "QUEUED">> \in Entries
      BY DEF Entries, Status
    <2> QED BY <2>1 DEF QueuedIsCarried, Carried, SchedCarries, HttpCarries, InQueue
  <1> QED BY <1>1, <1>2, <1>3, Invariance, TypeCorrect, PTL DEF Spec
=============================================================================
