------------------------ MODULE SharedConnectionProofs ------------------------
(***************************************************************************)
(* Proofs about SharedConnection, for any jobs, machines and bounds.       *)
(***************************************************************************)
EXTENDS SharedConnection, FiniteSetTheorems, TLAPS

USE DEF Jobs

-----------------------------------------------------------------------------
(* Every statement maps databases to databases. *)

\* A new database file.
LEMMA EmptyType == Empty \in Database
BY DEF Empty, Database, Row

\* UPDATE jobs SET status (db.c:363-377).
LEMMA SetStatusType ==
  ASSUME NEW d \in Database, NEW j, NEW s \in Row
  PROVE  SetStatus(d, j, s) \in Database
BY DEF SetStatus, Database, Row

\* INSERT INTO submission_keys.
LEMMA InsertKeyType ==
  ASSUME NEW d \in Database, NEW j \in Solo
  PROVE  InsertKey(d, j) \in Database
BY DEF InsertKey, Database

\* INSERT INTO batches (db.c:766-780).
LEMMA InsertBatchType ==
  ASSUME NEW d \in Database
  PROVE  InsertBatch(d) \in Database
BY DEF InsertBatch, Database

\* INSERT OR REPLACE INTO allocations (db.c:1006-1024).
LEMMA InsertAllocationType ==
  ASSUME NEW d \in Database, NEW j, NEW m \in Machines
  PROVE  InsertAllocation(d, j, m) \in Database
BY DEF InsertAllocation, Database

\* UPDATE allocations SET released_at (db.c:1026-1036).
LEMMA ReleaseAllocationType ==
  ASSUME NEW d \in Database, NEW j \in Jobs
  PROVE  ReleaseAllocation(d, j) \in Database
BY DEF ReleaseAllocation, Database

\* The statements on artifacts (db.c:398-403, 829-858).
LEMMA ArtifactsType ==
  ASSUME NEW d \in Database, NEW j \in Jobs
  PROVE  UpsertArtifact(d, j) \in Database /\ DeleteArtifacts(d, j) \in Database
BY DEF UpsertArtifact, DeleteArtifacts, Database

\* The two DELETEs of a purge (db.c:1182-1207).
LEMMA PurgeType ==
  ASSUME NEW d \in Database
  PROVE  DeleteKeys(d) \in Database /\ DeleteJobs(d) \in Database
BY DEF DeleteKeys, DeleteJobs, Database, Row, Terminal

\* The recovery at startup (db.c:504-523).
LEMMA RecoveredType ==
  ASSUME NEW d \in Database
  PROVE  Recovered(d) \in Database
BY DEF Recovered, Database, Row

\* The rows a DELETE of a purge counts are finitely many.
LEMMA PurgeCounts ==
  ASSUME NEW d \in Database
  PROVE  /\ Cardinality(d.key \ DeleteKeys(d).key) \in Nat
         /\ Cardinality({i \in Jobs : d.job[i] \in Terminal}) \in Nat
<1>1. IsFiniteSet(Jobs)
  BY ConnectionParameters
<1>2. (d.key \ DeleteKeys(d).key) \subseteq Jobs
  BY DEF Database
<1>3. IsFiniteSet(d.key \ DeleteKeys(d).key) /\ IsFiniteSet({i \in Jobs : d.job[i] \in Terminal})
  BY <1>1, <1>2, FS_Subset
<1>4. QED
  BY <1>3, FS_CardinalityType

\* So are the rows of one job that a statement counts.
LEMMA JobCounts ==
  ASSUME NEW d \in Database, NEW j \in Jobs
  PROVE  /\ Cardinality(d.artifacts \cap {j}) \in Nat
         /\ Cardinality(d.open[j] \cup d.closed[j]) \in Nat
<1>1. IsFiniteSet(Jobs) /\ IsFiniteSet(Machines)
  BY ConnectionParameters
<1>2. (d.artifacts \cap {j}) \subseteq Jobs /\ (d.open[j] \cup d.closed[j]) \subseteq Machines
  BY DEF Database
<1>3. IsFiniteSet(d.artifacts \cap {j}) /\ IsFiniteSet(d.open[j] \cup d.closed[j])
  BY <1>1, <1>2, FS_Subset
<1>4. QED
  BY <1>3, FS_CardinalityType

-----------------------------------------------------------------------------
(* Type correctness: of the connection, and of the threads. *)

ConnectionTyped ==
  /\ disk \in Database /\ view \in Database /\ promised \in Database
  /\ txn \in {"none", "kept", "plain"}
  /\ active \in BOOLEAN
  /\ mutex \in {Nobody, "http", "sched"}
  /\ changes \in Nat
  /\ guest \in BOOLEAN /\ stray \in BOOLEAN
  /\ faults \in Nat /\ crashes \in Nat

Submitting == {"key", "hold"}

Starting == {"begin", "insert", "commit", "rollback", "leave", "give_up", "run"}

RetryPc == {"retry_row", "retry_changes", "retry_artifacts", "retry_commit", "retry_rollback"}

\* A thread that is in the middle of something knows its job and machine.
Addressed ==
  /\ http.pc \in Submitting => http.job \in Solo
  /\ http.pc \in RetryPc => http.job \in Jobs
  /\ sched.pc # "idle" => sched.job \in Jobs
  /\ sched.pc \in Starting => sched.at \in Machines

ThreadsTyped ==
  /\ queue \subseteq Jobs
  /\ http \in [pc : {"idle", "key", "hold", "batch", "batch_jobs", "failed", "rollback", "leave", "answer",
                     "purge_keys", "purge_jobs", "purge_commit", "retry_row", "retry_changes",
                     "retry_artifacts", "retry_commit", "retry_rollback"},
               op : {"none", "batch"}, job : Jobs \cup {Nobody}, todo : SUBSET Batch]
  /\ sched \in [pc : {"idle", "begin", "insert", "commit", "rollback", "leave", "give_up", "run",
                      "sweep", "sweep_release"},
                job : Jobs \cup {Nobody}, at : Machines \cup {Nobody}]
  /\ watch \in [Jobs -> {"none", "status", "artifacts", "release"}]
  /\ Addressed

Typed == ConnectionTyped /\ ThreadsTyped

\* The parts make up the type invariant.
LEMMA TypeOKOfTyped == Typed => TypeOK
BY DEF Typed, TypeOK, ConnectionTyped, ThreadsTyped

\* A statement that succeeds keeps the connection typed.
LEMMA WriteTyped ==
  ASSUME ConnectionTyped,
         view' \in Database, disk' \in {disk, view'}, promised' \in Database,
         changes' \in Nat, guest' \in BOOLEAN,
         UNCHANGED <<txn, active, mutex, stray, faults, crashes>>
  PROVE  ConnectionTyped'
BY DEF ConnectionTyped

\* So do the beginning and the end of transactions, and failures.
LEMMA TransactionTyped ==
  ASSUME ConnectionTyped, NEW t \in {"http", "sched"},
         \/ db_begin(t) \/ db_begin_fails(t) \/ db_commit(t) \/ db_commit_fails(t) \/ NotActive
         \/ Rollback(t) \/ RollbackLeave(t)
         \/ Fails(t) /\ UNCHANGED <<connection, history, crashes>>
         \/ UNCHANGED <<connection, history, faults, crashes>>
  PROVE  ConnectionTyped'
<1> USE DEF ConnectionTyped, connection, history
<1>1. CASE db_begin(t)
  BY <1>1 DEF db_begin
<1>2. CASE db_begin_fails(t)
  BY <1>2 DEF db_begin_fails, Fails
<1>3. CASE db_commit(t)
  BY <1>3 DEF db_commit, Left
<1>4. CASE db_commit_fails(t)
  <2>1. faults' \in Nat
    BY <1>4 DEF db_commit_fails, Fails
  <2>2. QED
    BY <1>4, <2>1 DEF db_commit_fails, Left
<1>5. CASE NotActive
  BY <1>5 DEF NotActive
<1>6. CASE Rollback(t)
  BY <1>6 DEF Rollback
<1>7. CASE RollbackLeave(t)
  <2>1. stray' \in BOOLEAN
    BY <1>7 DEF RollbackLeave
  <2>2. QED
    BY <1>7, <2>1 DEF RollbackLeave, Left
<1>8. CASE Fails(t) /\ UNCHANGED <<connection, history, crashes>>
  BY <1>8 DEF Fails
<1>9. CASE UNCHANGED <<connection, history, faults, crashes>>
  BY <1>9
<1>10. QED
  BY <1>1, <1>2, <1>3, <1>4, <1>5, <1>6, <1>7, <1>8, <1>9

\* The daemon starts with typed variables.
LEMMA InitTyped == Init => Typed
<1> SUFFICES ASSUME Init PROVE Typed
  OBVIOUS
<1>1. ConnectionTyped
  BY EmptyType, ConnectionParameters DEF Init, ConnectionTyped
<1>2. ThreadsTyped
  BY DEF Init, ThreadsTyped, Addressed, RetryPc, Submitting, Starting, HttpIdle, SchedIdle
<1>3. QED
  BY <1>1, <1>2 DEF Typed

\* The HTTP thread keeps the types.
LEMMA HttpTyped ==
  ASSUME Typed, 
         \/ \E j \in Jobs : SubmitInsert(j) \/ RetryBegin(j)
         \/ BatchBegin \/ PurgeBegin \/ HttpStep
  PROVE  Typed'
<1> USE DEF Typed, ThreadsTyped, Addressed, RetryPc, Submitting, Starting, others
<1>0. disk \in Database /\ view \in Database /\ promised \in Database /\ guest \in BOOLEAN
  BY DEF ConnectionTyped
<1>1. ASSUME NEW j \in Jobs, SubmitInsert(j) PROVE Typed'
  <2>1. ConnectionTyped'
    BY <1>1, WriteTyped, <1>0, SetStatusType DEF SubmitInsert, Row, Exec
  <2>2. ThreadsTyped'
    BY <1>1 DEF SubmitInsert, HttpIdle
  <2>3. QED
    BY <2>1, <2>2
<1>2. ASSUME NEW j \in Jobs, RetryBegin(j) PROVE Typed'
  <2>1. ConnectionTyped'
    BY <1>2, Zenon DEF RetryBegin, ConnectionTyped, history
  <2>2. ThreadsTyped'
    BY <1>2 DEF RetryBegin, HttpIdle
  <2>3. QED
    BY <2>1, <2>2
<1>3. CASE BatchBegin
  <2>1. ConnectionTyped'
    BY <1>3, TransactionTyped DEF BatchBegin
  <2>2. ThreadsTyped'
    BY <1>3, ZenonT(30) DEF BatchBegin, HttpIdle
  <2>3. QED
    BY <2>1, <2>2
<1>4. CASE PurgeBegin
  <2>1. ConnectionTyped'
    BY <1>4, TransactionTyped DEF PurgeBegin
  <2>2. ThreadsTyped'
    BY <1>4 DEF PurgeBegin, HttpGoto
  <2>3. QED
    BY <2>1, <2>2
<1>5. CASE SubmitKey
  <2>1. ConnectionTyped'
    BY <1>5, WriteTyped, <1>0, InsertKeyType DEF SubmitKey, Exec
  <2>2. ThreadsTyped'
    <3>1. CASE queue' = queue \cup {http.job} /\ HttpDone
      BY <1>5, <3>1 DEF SubmitKey, HttpDone, HttpIdle
    <3>2. CASE HttpGoto("hold") /\ UNCHANGED queue
      BY <1>5, <3>2 DEF SubmitKey, HttpGoto
    <3>3. QED
      BY <1>5, <3>1, <3>2 DEF SubmitKey
  <2>3. QED
    BY <2>1, <2>2
<1>51. CASE SubmitHold
  <2>1. ConnectionTyped'
    BY <1>51, WriteTyped, <1>0, SetStatusType DEF SubmitHold, Row, Exec
  <2>2. ThreadsTyped'
    BY <1>51 DEF SubmitHold, HttpDone, HttpIdle
  <2>3. QED
    BY <2>1, <2>2
<1>6. CASE BatchInsert
  <2>1. ConnectionTyped'
    BY <1>6, WriteTyped, <1>0, InsertBatchType DEF BatchInsert, ExecInside
  <2>2. ThreadsTyped'
    BY <1>6 DEF BatchInsert, HttpGoto
  <2>3. QED
    BY <2>1, <2>2
<1>7. ASSUME NEW j \in Batch, BatchJob(j) PROVE Typed'
  <2>1. ConnectionTyped'
    BY <1>7, WriteTyped, <1>0, SetStatusType DEF BatchJob, Row, ExecInside
  <2>2. ThreadsTyped'
    BY <1>7 DEF BatchJob
  <2>3. QED
    BY <2>1, <2>2
<1>8. CASE BatchStatementFails
  <2>1. ConnectionTyped'
    BY <1>8, TransactionTyped DEF BatchStatementFails
  <2>2. ThreadsTyped'
    BY <1>8 DEF BatchStatementFails, HttpGoto
  <2>3. QED
    BY <2>1, <2>2
<1>9. CASE BatchCommit
  <2>1. ConnectionTyped'
    BY <1>9, TransactionTyped DEF BatchCommit
  <2>2. ThreadsTyped'
    BY <1>9 DEF BatchCommit, HttpGoto, HttpDone, HttpIdle
  <2>3. QED
    BY <2>1, <2>2
<1>10. CASE RollbackTest
  <2>1. ConnectionTyped'
    BY <1>10, TransactionTyped DEF RollbackTest
  <2>2. ThreadsTyped'
    BY <1>10 DEF RollbackTest, HttpGoto
  <2>3. QED
    BY <2>1, <2>2
<1>11. CASE RollbackExec
  <2>1. ConnectionTyped'
    BY <1>11, TransactionTyped DEF RollbackExec
  <2>2. ThreadsTyped'
    BY <1>11 DEF RollbackExec, HttpGoto
  <2>3. QED
    BY <2>1, <2>2
<1>12. CASE RollbackDone
  <2>1. ConnectionTyped'
    BY <1>12, TransactionTyped DEF RollbackDone
  <2>2. ThreadsTyped'
    BY <1>12 DEF RollbackDone, HttpGoto
  <2>3. QED
    BY <2>1, <2>2
<1>13. CASE AnswerFailure
  <2>1. ConnectionTyped'
    BY <1>13, TransactionTyped DEF AnswerFailure
  <2>2. ThreadsTyped'
    BY <1>13 DEF AnswerFailure, HttpDone, HttpIdle
  <2>3. QED
    BY <2>1, <2>2
<1>14. CASE PurgeKeys
  <2>1. ConnectionTyped'
    BY <1>14, WriteTyped, <1>0, PurgeType, PurgeCounts DEF PurgeKeys, ExecInside
  <2>2. ThreadsTyped'
    BY <1>14 DEF PurgeKeys, HttpGoto
  <2>3. QED
    BY <2>1, <2>2
<1>15. CASE PurgeJobs
  <2>1. ConnectionTyped'
    BY <1>15, WriteTyped, <1>0, PurgeType, PurgeCounts DEF PurgeJobs, ExecInside
  <2>2. ThreadsTyped'
    BY <1>15 DEF PurgeJobs, HttpGoto
  <2>3. QED
    BY <2>1, <2>2
<1>16. CASE PurgeStatementFails
  <2>1. ConnectionTyped'
    BY <1>16, TransactionTyped DEF PurgeStatementFails
  <2>2. ThreadsTyped'
    BY <1>16 DEF PurgeStatementFails, HttpGoto
  <2>3. QED
    BY <2>1, <2>2
<1>17. CASE PurgeCommit
  <2>1. ConnectionTyped'
    BY <1>17, TransactionTyped DEF PurgeCommit
  <2>2. ThreadsTyped'
    BY <1>17 DEF PurgeCommit, HttpGoto, HttpDone, HttpIdle
  <2>3. QED
    BY <2>1, <2>2
<1>18. CASE RetryRow
  <2>1. ConnectionTyped'
    BY <1>18, WriteTyped, <1>0, SetStatusType DEF RetryRow, Row, ExecInside
  <2>2. ThreadsTyped'
    BY <1>18 DEF RetryRow, HttpGoto
  <2>3. QED
    BY <2>1, <2>2
<1>19. CASE RetryChanges
  <2>1. ConnectionTyped'
    BY <1>19, TransactionTyped DEF RetryChanges
  <2>2. ThreadsTyped'
    BY <1>19 DEF RetryChanges, HttpGoto
  <2>3. QED
    BY <2>1, <2>2
<1>20. CASE RetryArtifacts
  <2>1. ConnectionTyped'
    BY <1>20, WriteTyped, <1>0, ArtifactsType, JobCounts DEF RetryArtifacts, Addressed, RetryPc, ExecInside
  <2>2. ThreadsTyped'
    BY <1>20 DEF RetryArtifacts, HttpGoto
  <2>3. QED
    BY <2>1, <2>2
<1>21. CASE RetryStatementFails
  <2>1. ConnectionTyped'
    BY <1>21, TransactionTyped DEF RetryStatementFails
  <2>2. ThreadsTyped'
    BY <1>21 DEF RetryStatementFails, HttpGoto
  <2>3. QED
    BY <2>1, <2>2
<1>22. CASE RetryCommit
  <2>1. ConnectionTyped'
    BY <1>22, Zenon DEF RetryCommit, ConnectionTyped, history
  <2>2. ThreadsTyped'
    BY <1>22 DEF RetryCommit, HttpDone, HttpIdle
  <2>3. QED
    BY <2>1, <2>2
<1>23. CASE RetryRollback
  <2>1. ConnectionTyped'
    BY <1>23, TransactionTyped DEF RetryRollback
  <2>2. ThreadsTyped'
    BY <1>23 DEF RetryRollback, HttpDone, HttpIdle
  <2>3. QED
    BY <2>1, <2>2
<1> HIDE DEF Typed
<1>24. QED
  BY <1>1, <1>2, <1>3, <1>4, <1>5, <1>51, <1>6, <1>7, <1>8, <1>9, <1>10, <1>11, <1>12, <1>13, <1>14, <1>15, <1>16, <1>17, <1>18, <1>19, <1>20, <1>21, <1>22, <1>23 DEF HttpStep

\* The scheduler thread keeps the types.
LEMMA SchedTyped ==
  ASSUME Typed, (\E j \in Jobs : Pop(j)) \/ SchedStep
  PROVE  Typed'
<1> USE DEF Typed, ThreadsTyped, Addressed, RetryPc, Submitting, Starting, others
<1>0. disk \in Database /\ view \in Database /\ promised \in Database /\ guest \in BOOLEAN
  BY DEF ConnectionTyped
<1>1. ASSUME NEW j \in Jobs, Pop(j) PROVE Typed'
  <2>1. ConnectionTyped'
    BY <1>1, TransactionTyped DEF Pop
  <2>2. ThreadsTyped'
    BY <1>1 DEF Pop, SchedDone, SchedIdle
  <2>3. QED
    BY <2>1, <2>2
<1>2. CASE PersistBegin
  <2>1. ConnectionTyped'
    BY <1>2, TransactionTyped DEF PersistBegin
  <2>2. ThreadsTyped'
    BY <1>2 DEF PersistBegin, SchedGoto, SchedDone, SchedIdle, PushBack
  <2>3. QED
    BY <2>1, <2>2
<1>3. CASE PersistInsert
  <2>1. ConnectionTyped'
    BY <1>3, WriteTyped, <1>0, InsertAllocationType DEF PersistInsert, ExecInside
  <2>2. ThreadsTyped'
    BY <1>3 DEF PersistInsert, SchedGoto
  <2>3. QED
    BY <2>1, <2>2
<1>4. CASE PersistInsertFails
  <2>1. ConnectionTyped'
    BY <1>4, TransactionTyped DEF PersistInsertFails
  <2>2. ThreadsTyped'
    BY <1>4 DEF PersistInsertFails, SchedGoto
  <2>3. QED
    BY <2>1, <2>2
<1>5. CASE PersistRollback
  <2>1. ConnectionTyped'
    BY <1>5, TransactionTyped DEF PersistRollback
  <2>2. ThreadsTyped'
    BY <1>5 DEF PersistRollback, SchedGoto
  <2>3. QED
    BY <2>1, <2>2
<1>6. CASE PersistLeave
  <2>1. ConnectionTyped'
    BY <1>6, TransactionTyped DEF PersistLeave
  <2>2. ThreadsTyped'
    BY <1>6 DEF PersistLeave, SchedGoto
  <2>3. QED
    BY <2>1, <2>2
<1>7. CASE PersistGivesUp
  <2>1. ConnectionTyped'
    BY <1>7, TransactionTyped DEF PersistGivesUp
  <2>2. ThreadsTyped'
    BY <1>7 DEF PersistGivesUp, SchedDone, SchedIdle, PushBack
  <2>3. QED
    BY <2>1, <2>2
<1>8. CASE PersistCommit
  <2>1. ConnectionTyped'
    BY <1>8, TransactionTyped DEF PersistCommit
  <2>2. ThreadsTyped'
    BY <1>8 DEF PersistCommit, SchedGoto
  <2>3. QED
    BY <2>1, <2>2
<1>9. CASE StartJob
  <2>1. ConnectionTyped'
    BY <1>9, WriteTyped, <1>0, SetStatusType DEF StartJob, Row, Exec
  <2>2. ThreadsTyped'
    BY <1>9 DEF StartJob, SchedDone, SchedIdle
  <2>3. QED
    BY <2>1, <2>2
<1> HIDE DEF Typed
<1>10. QED
  BY <1>1, <1>2, <1>3, <1>4, <1>5, <1>6, <1>7, <1>8, <1>9 DEF SchedStep

\* The checks between two scans keep the types.
LEMMA PeriodicTyped ==
  ASSUME Typed, Periodic
  PROVE  Typed'
<1> USE DEF Typed, ThreadsTyped, Addressed, RetryPc, Submitting, Starting, others
<1>0. /\ disk \in Database /\ view \in Database /\ promised \in Database /\ guest \in BOOLEAN
      /\ sched.pc \in {"sweep", "sweep_release"} => sched.job \in Jobs
  BY DEF ConnectionTyped
<1>1. ASSUME NEW j \in Jobs, HeldCheck(j) PROVE Typed'
  <2>1. ConnectionTyped'
    BY <1>1, WriteTyped, <1>0, SetStatusType DEF HeldCheck, Row, Exec
  <2>2. ThreadsTyped'
    BY <1>1 DEF HeldCheck
  <2>3. QED
    BY <2>1, <2>2
<1>2. ASSUME NEW j \in Jobs, SweepLoad(j) PROVE Typed'
  <2>1. ConnectionTyped'
    BY <1>2, TransactionTyped DEF SweepLoad
  <2>2. ThreadsTyped'
    BY <1>2 DEF SweepLoad, SchedIdle
  <2>3. QED
    BY <2>1, <2>2
<1>3. CASE SweepJob
  <2>0. ASSUME SweepFails(sched.job), sched.job \in Jobs PROVE ConnectionTyped'
    BY <2>0, WriteTyped, <1>0, SetStatusType DEF SweepFails, Row, Exec
  <2>1. ConnectionTyped'
    BY <1>3, <1>0, <2>0, TransactionTyped DEF SweepJob
  <2>2. ThreadsTyped'
    BY <1>3 DEF SweepJob, SchedGoto, SchedDone, SchedIdle
  <2>3. QED
    BY <2>1, <2>2
<1>4. CASE SweepRelease
  <2>1. ConnectionTyped'
    BY <1>4, WriteTyped, <1>0, ReleaseAllocationType, JobCounts DEF SweepRelease, Exec
  <2>2. ThreadsTyped'
    BY <1>4 DEF SweepRelease, SchedDone, SchedIdle
  <2>3. QED
    BY <2>1, <2>2
<1> HIDE DEF Typed
<1>5. QED
  BY <1>1, <1>2, <1>3, <1>4 DEF Periodic

\* The watchers, a crash and its recovery keep the types.
LEMMA WatchTyped ==
  ASSUME Typed, (\E j \in Jobs : WatchStep(j)) \/ CrashRestart \/ UNCHANGED vars
  PROVE  Typed'
<1> USE DEF Typed, ThreadsTyped, Addressed, RetryPc, Submitting, Starting, others
<1>0. disk \in Database /\ view \in Database /\ promised \in Database /\ guest \in BOOLEAN
  BY DEF ConnectionTyped
<1>1. ASSUME NEW j \in Jobs, WatchStatus(j) PROVE Typed'
  <2>1. ConnectionTyped'
    BY <1>1, WriteTyped, <1>0, SetStatusType DEF WatchStatus, Terminal, Row, Exec
  <2>2. ThreadsTyped'
    BY <1>1 DEF WatchStatus, WatchGoto
  <2>3. QED
    BY <2>1, <2>2
<1>2. ASSUME NEW j \in Jobs, WatchArtifacts(j) PROVE Typed'
  <2>1. ConnectionTyped'
    BY <1>2, WriteTyped, <1>0, ArtifactsType DEF WatchArtifacts, Exec
  <2>2. ThreadsTyped'
    BY <1>2 DEF WatchArtifacts, WatchGoto
  <2>3. QED
    BY <2>1, <2>2
<1>3. ASSUME NEW j \in Jobs, WatchRelease(j) PROVE Typed'
  <2>1. ConnectionTyped'
    BY <1>3, WriteTyped, <1>0, ReleaseAllocationType, JobCounts DEF WatchRelease, Exec
  <2>2. ThreadsTyped'
    BY <1>3 DEF WatchRelease, WatchGoto
  <2>3. QED
    BY <2>1, <2>2
<1>4. CASE CrashRestart
  <2>0. crashes' \in Nat
    BY <1>4 DEF CrashRestart, ConnectionTyped
  <2>1. ConnectionTyped'
    BY <1>4, <1>0, <2>0, RecoveredType, Zenon DEF CrashRestart, ConnectionTyped, history
  <2>2. ThreadsTyped'
    BY <1>4 DEF CrashRestart, HttpIdle, SchedIdle
  <2>3. QED
    BY <2>1, <2>2
<1>5. CASE UNCHANGED vars
  BY <1>5 DEF vars, ConnectionTyped
<1> HIDE DEF Typed
<1>6. QED
  BY <1>1, <1>2, <1>3, <1>4, <1>5 DEF WatchStep

\* Every step keeps the types.
LEMMA StepTyped == Typed /\ [Next]_vars => Typed'
BY HttpTyped, SchedTyped, PeriodicTyped, WatchTyped DEF Next

(***************************************************************************)
(* Every variable of the connection and of its users keeps its type        *)
(* (db.c:293-412 and the handlers that call it), for any number of jobs    *)
(* and machines and any number of failures and crashes.                    *)
(***************************************************************************)
THEOREM ConnectionTypes == Spec => []TypeOK
<1>1. Spec => []Typed
  BY InitTyped, StepTyped, PTL DEF Spec
<1>2. QED
  BY <1>1, TypeOKOfTyped, PTL

-----------------------------------------------------------------------------
(* Who holds the connection.  A transaction of db_begin is open only while *)
(* its thread has the mutex and is inside it; that of db_retry_job only    *)
(* while nobody has the mutex.  A stray db_rollback leaves the scheduler   *)
(* with the mutex and with a transaction that it no longer knows of.       *)

HttpWrites == {"batch", "batch_jobs", "purge_keys", "purge_jobs", "purge_commit"}

Owned ==
  /\ txn = "kept" => mutex # Nobody
  /\ txn = "plain" => mutex = Nobody
  /\ txn = "plain" <=> http.pc \in RetryPc
  /\ http.pc \in HttpWrites => txn = "kept" /\ mutex = "http"
  /\ http.pc = "leave" /\ mutex = "http" => txn = "none"
  /\ mutex = "http" => http.pc \in Inside.http /\ active
  /\ sched.pc \in {"insert", "commit"} => txn = "kept"
  /\ sched.pc = "leave" => txn = "none"
  /\ sched.pc \in Inside.sched => mutex = "sched"
  /\ mutex = "sched" =>
       \/ sched.pc \in Inside.sched
       \/ /\ stray /\ txn = "kept" /\ ~active
          /\ sched.pc \in {"idle", "begin", "give_up", "sweep", "sweep_release"}
  /\ mutex = "sched" => active \/ stray

\* Steps of the HTTP thread keep the ownership of the connection.
LEMMA HttpOwned ==
  ASSUME Typed, Owned, 
         \/ \E j \in Jobs : SubmitInsert(j) \/ RetryBegin(j)
         \/ BatchBegin \/ PurgeBegin \/ HttpStep
  PROVE  Owned'
<1> USE ConnectionParameters
<1> USE DEF Owned, Inside, HttpWrites, RetryPc, MayExec, connection, history, others,
            Typed, ThreadsTyped, ConnectionTyped
<1>1. ASSUME NEW j \in Jobs, SubmitInsert(j) PROVE Owned'
  BY <1>1 DEF SubmitInsert, Exec, HttpIdle
<1>2. ASSUME NEW j \in Jobs, RetryBegin(j) PROVE Owned'
  BY <1>2 DEF RetryBegin, HttpIdle
<1>3. CASE BatchBegin
  BY <1>3, ZenonT(30) DEF BatchBegin, db_begin, db_begin_fails, Fails, HttpIdle
<1>4. CASE PurgeBegin
  BY <1>4 DEF PurgeBegin, db_begin, db_begin_fails, Fails, HttpGoto
<1>5. CASE SubmitKey
  BY <1>5 DEF SubmitKey, Exec, HttpGoto, HttpDone, HttpIdle
<1>51. CASE SubmitHold
  BY <1>51 DEF SubmitHold, Exec, HttpDone, HttpIdle
<1>6. CASE BatchInsert
  BY <1>6 DEF BatchInsert, ExecInside, HttpGoto
<1>7. ASSUME NEW j \in Batch, BatchJob(j) PROVE Owned'
  BY <1>7 DEF BatchJob, ExecInside
<1>8. CASE BatchStatementFails
  BY <1>8 DEF BatchStatementFails, Fails, HttpGoto
<1>9. CASE BatchCommit
  BY <1>9 DEF BatchCommit, db_commit, db_commit_fails, NotActive, Fails, Left, HttpGoto, HttpDone, HttpIdle
<1>10. CASE RollbackTest
  BY <1>10 DEF RollbackTest, HttpGoto
<1>11. CASE RollbackExec
  BY <1>11 DEF RollbackExec, Rollback, HttpGoto
<1>12. CASE RollbackDone
  BY <1>12 DEF RollbackDone, RollbackLeave, Left, HttpGoto
<1>13. CASE AnswerFailure
  BY <1>13 DEF AnswerFailure, HttpDone, HttpIdle
<1>14. CASE PurgeKeys
  BY <1>14 DEF PurgeKeys, ExecInside, HttpGoto
<1>15. CASE PurgeJobs
  BY <1>15 DEF PurgeJobs, ExecInside, HttpGoto
<1>16. CASE PurgeStatementFails
  BY <1>16 DEF PurgeStatementFails, Fails, HttpGoto
<1>17. CASE PurgeCommit
  BY <1>17 DEF PurgeCommit, db_commit, db_commit_fails, NotActive, Fails, Left, HttpGoto, HttpDone, HttpIdle
<1>18. CASE RetryRow
  BY <1>18 DEF RetryRow, ExecInside, HttpGoto
<1>19. CASE RetryChanges
  BY <1>19 DEF RetryChanges, HttpGoto
<1>20. CASE RetryArtifacts
  BY <1>20 DEF RetryArtifacts, ExecInside, HttpGoto
<1>21. CASE RetryStatementFails
  BY <1>21 DEF RetryStatementFails, Fails, HttpGoto
<1>22. CASE RetryCommit
  BY <1>22 DEF RetryCommit, HttpDone, HttpIdle
<1>23. CASE RetryRollback
  BY <1>23 DEF RetryRollback, Rollback, HttpDone, HttpIdle
<1> HIDE DEF Owned
<1>24. QED
  BY <1>1, <1>2, <1>3, <1>4, <1>5, <1>51, <1>6, <1>7, <1>8, <1>9, <1>10, <1>11, <1>12, <1>13, <1>14, <1>15, <1>16, <1>17, <1>18, <1>19, <1>20, <1>21, <1>22, <1>23 DEF HttpStep

\* Steps of the scheduler thread do.
LEMMA SchedOwned ==
  ASSUME Typed, Owned, (\E j \in Jobs : Pop(j)) \/ SchedStep
  PROVE  Owned'
<1> USE ConnectionParameters
<1> USE DEF Owned, Inside, HttpWrites, RetryPc, MayExec, connection, history, others,
            Typed, ThreadsTyped, ConnectionTyped
<1>1. ASSUME NEW j \in Jobs, Pop(j) PROVE Owned'
  BY <1>1 DEF Pop, SchedDone, SchedIdle
<1>2. CASE PersistBegin
  BY <1>2 DEF PersistBegin, db_begin, db_begin_fails, Fails, SchedGoto, SchedDone, SchedIdle
<1>3. CASE PersistInsert
  BY <1>3 DEF PersistInsert, ExecInside, SchedGoto
<1>4. CASE PersistInsertFails
  BY <1>4 DEF PersistInsertFails, Fails, SchedGoto
<1>5. CASE PersistRollback
  BY <1>5 DEF PersistRollback, Rollback, SchedGoto
<1>6. CASE PersistLeave
  BY <1>6 DEF PersistLeave, RollbackLeave, Left, SchedGoto
<1>7. CASE PersistGivesUp
  BY <1>7 DEF PersistGivesUp, SchedDone, SchedIdle
<1>8. CASE PersistCommit
  BY <1>8 DEF PersistCommit, db_commit, db_commit_fails, NotActive, Fails, Left, SchedGoto
<1>9. CASE StartJob
  BY <1>9 DEF StartJob, Exec, SchedDone, SchedIdle
<1> HIDE DEF Owned
<1>10. QED
  BY <1>1, <1>2, <1>3, <1>4, <1>5, <1>6, <1>7, <1>8, <1>9 DEF SchedStep

\* The checks between two scans do.
LEMMA PeriodicOwned ==
  ASSUME Typed, Owned, Periodic
  PROVE  Owned'
<1> USE ConnectionParameters
<1> USE DEF Owned, Inside, HttpWrites, RetryPc, MayExec, connection, history, others,
            Typed, ThreadsTyped, ConnectionTyped
<1>1. ASSUME NEW j \in Jobs, HeldCheck(j) PROVE Owned'
  BY <1>1 DEF HeldCheck, Exec
<1>2. ASSUME NEW j \in Jobs, SweepLoad(j) PROVE Owned'
  BY <1>2 DEF SweepLoad, SchedIdle
<1>3. CASE SweepJob
  <2>1. UNCHANGED <<txn, mutex, active, stray, http>> /\ sched'.pc \in {"idle", "sweep_release"}
    BY <1>3 DEF SweepJob, SweepFails, Exec, SchedGoto, SchedDone, SchedIdle
  <2>2. sched.pc = "sweep"
    BY <1>3 DEF SweepJob
  <2>3. QED
    BY <2>1, <2>2
<1>4. CASE SweepRelease
  BY <1>4 DEF SweepRelease, Exec, SchedDone, SchedIdle
<1> HIDE DEF Owned
<1>5. QED
  BY <1>1, <1>2, <1>3, <1>4 DEF Periodic

\* Steps of the watchers and a crash do.
LEMMA WatchOwned ==
  ASSUME Typed, Owned, (\E j \in Jobs : WatchStep(j)) \/ CrashRestart \/ UNCHANGED vars
  PROVE  Owned'
<1> USE ConnectionParameters
<1> USE DEF Owned, Inside, HttpWrites, RetryPc, MayExec, connection, history, others,
            Typed, ThreadsTyped, ConnectionTyped
<1>1. ASSUME NEW j \in Jobs, WatchStatus(j) PROVE Owned'
  BY <1>1 DEF WatchStatus, Exec
<1>2. ASSUME NEW j \in Jobs, WatchArtifacts(j) PROVE Owned'
  BY <1>2 DEF WatchArtifacts, Exec
<1>3. ASSUME NEW j \in Jobs, WatchRelease(j) PROVE Owned'
  BY <1>3 DEF WatchRelease, Exec
<1>4. CASE CrashRestart
  BY <1>4 DEF CrashRestart, HttpIdle, SchedIdle, RetryPc
<1>5. CASE UNCHANGED vars
  BY <1>5 DEF vars
<1> HIDE DEF Owned
<1>6. QED
  BY <1>1, <1>2, <1>3, <1>4, <1>5 DEF WatchStep

\* Every step does.
LEMMA StepOwned == Typed /\ Owned /\ [Next]_vars => Owned'
BY HttpOwned, SchedOwned, PeriodicOwned, WatchOwned DEF Next

\* Nobody owns the connection at the start.
LEMMA InitOwned == Init => Owned
BY ConnectionParameters DEF Init, Owned, RetryPc, HttpWrites, Inside, HttpIdle, SchedIdle

(***************************************************************************)
(* The mutex that db_begin takes is given back on every path of its        *)
(* callers (db.c:293-327, batches.c:90-177, allocator.c:115-128), except   *)
(* by a scheduler whose flag a stray db_rollback has cleared.              *)
(***************************************************************************)
THEOREM ConnectionFreed == Spec => []ConnectionIsFreed
<1>1. Spec => [](Typed /\ Owned)
  BY InitTyped, StepTyped, InitOwned, StepOwned, PTL DEF Spec
<1>2. Typed /\ Owned => ConnectionIsFreed
  BY DEF Owned, ConnectionIsFreed
<1>3. QED
  BY <1>1, <1>2, PTL

-----------------------------------------------------------------------------
(* What is stored.  Outside of transactions the connection sees the file,  *)
(* and no statement outside of a transaction of its own thread runs inside *)
(* a transaction of db_begin, as long as that is not abandoned.            *)

Stored ==
  /\ txn = "none" => view = disk
  /\ guest \/ disk = promised

\* Steps of the HTTP thread lose nothing that was acknowledged.
LEMMA HttpStored ==
  ASSUME Typed, Owned, Stored, 
         \/ \E j \in Jobs : SubmitInsert(j) \/ RetryBegin(j)
         \/ BatchBegin \/ PurgeBegin \/ HttpStep
  PROVE  Stored'
<1> USE ConnectionParameters
<1> USE DEF Stored, Owned, Inside, HttpWrites, RetryPc, MayExec, connection, history, others,
            Typed, ConnectionTyped
<1>1. ASSUME NEW j \in Jobs, SubmitInsert(j) PROVE Stored'
  BY <1>1 DEF SubmitInsert, Exec
<1>2. ASSUME NEW j \in Jobs, RetryBegin(j) PROVE Stored'
  BY <1>2 DEF RetryBegin
<1>3. CASE BatchBegin
  BY <1>3 DEF BatchBegin, db_begin, db_begin_fails, Fails
<1>4. CASE PurgeBegin
  BY <1>4 DEF PurgeBegin, db_begin, db_begin_fails, Fails
<1>5. CASE SubmitKey
  BY <1>5 DEF SubmitKey, Exec
<1>51. CASE SubmitHold
  BY <1>51 DEF SubmitHold, Exec
<1>6. CASE BatchInsert
  BY <1>6 DEF BatchInsert, ExecInside
<1>7. ASSUME NEW j \in Batch, BatchJob(j) PROVE Stored'
  BY <1>7 DEF BatchJob, ExecInside
<1>8. CASE BatchStatementFails
  BY <1>8 DEF BatchStatementFails, Fails
<1>9. CASE BatchCommit
  BY <1>9 DEF BatchCommit, db_commit, db_commit_fails, NotActive, Fails
<1>10. CASE RollbackTest
  BY <1>10 DEF RollbackTest
<1>11. CASE RollbackExec
  BY <1>11 DEF RollbackExec, Rollback
<1>12. CASE RollbackDone
  BY <1>12 DEF RollbackDone, RollbackLeave
<1>13. CASE AnswerFailure
  BY <1>13 DEF AnswerFailure
<1>14. CASE PurgeKeys
  BY <1>14 DEF PurgeKeys, ExecInside
<1>15. CASE PurgeJobs
  BY <1>15 DEF PurgeJobs, ExecInside
<1>16. CASE PurgeStatementFails
  BY <1>16 DEF PurgeStatementFails, Fails
<1>17. CASE PurgeCommit
  BY <1>17 DEF PurgeCommit, db_commit, db_commit_fails, NotActive, Fails
<1>18. CASE RetryRow
  BY <1>18 DEF RetryRow, ExecInside
<1>19. CASE RetryChanges
  BY <1>19 DEF RetryChanges
<1>20. CASE RetryArtifacts
  BY <1>20 DEF RetryArtifacts, ExecInside
<1>21. CASE RetryStatementFails
  BY <1>21 DEF RetryStatementFails, Fails
<1>22. CASE RetryCommit
  BY <1>22 DEF RetryCommit
<1>23. CASE RetryRollback
  BY <1>23 DEF RetryRollback, Rollback
<1> HIDE DEF Stored
<1>24. QED
  BY <1>1, <1>2, <1>3, <1>4, <1>5, <1>51, <1>6, <1>7, <1>8, <1>9, <1>10, <1>11, <1>12, <1>13, <1>14, <1>15, <1>16, <1>17, <1>18, <1>19, <1>20, <1>21, <1>22, <1>23 DEF HttpStep

\* Steps of the scheduler thread do not either.
LEMMA SchedStored ==
  ASSUME Typed, Owned, Stored, (\E j \in Jobs : Pop(j)) \/ SchedStep
  PROVE  Stored'
<1> USE ConnectionParameters
<1> USE DEF Stored, Owned, Inside, HttpWrites, RetryPc, MayExec, connection, history, others,
            Typed, ConnectionTyped
<1>1. ASSUME NEW j \in Jobs, Pop(j) PROVE Stored'
  BY <1>1 DEF Pop
<1>2. CASE PersistBegin
  BY <1>2 DEF PersistBegin, db_begin, db_begin_fails, Fails
<1>3. CASE PersistInsert
  BY <1>3 DEF PersistInsert, ExecInside
<1>4. CASE PersistInsertFails
  BY <1>4 DEF PersistInsertFails, Fails
<1>5. CASE PersistRollback
  BY <1>5 DEF PersistRollback, Rollback
<1>6. CASE PersistLeave
  BY <1>6 DEF PersistLeave, RollbackLeave
<1>7. CASE PersistGivesUp
  BY <1>7 DEF PersistGivesUp
<1>8. CASE PersistCommit
  BY <1>8 DEF PersistCommit, db_commit, db_commit_fails, NotActive, Fails
<1>9. CASE StartJob
  BY <1>9 DEF StartJob, Exec
<1> HIDE DEF Stored
<1>10. QED
  BY <1>1, <1>2, <1>3, <1>4, <1>5, <1>6, <1>7, <1>8, <1>9 DEF SchedStep

\* Nor do the checks between two scans: what they write into an abandoned
\* transaction is a guest there.
LEMMA PeriodicStored ==
  ASSUME Typed, Owned, Stored, Periodic
  PROVE  Stored'
<1> USE ConnectionParameters
<1> USE DEF Stored, Owned, Inside, HttpWrites, RetryPc, MayExec, connection, history, others,
            Typed, ConnectionTyped
<1>0. sched.pc \notin Inside.sched /\ mutex \in {Nobody, "sched"} /\ txn = "kept" => Abandoned
  BY DEF Abandoned
<1>1. ASSUME NEW j \in Jobs, HeldCheck(j) PROVE Stored'
  BY <1>0, <1>1 DEF HeldCheck, Exec
<1>2. ASSUME NEW j \in Jobs, SweepLoad(j) PROVE Stored'
  BY <1>2 DEF SweepLoad
<1>3. CASE SweepJob
  <2>1. sched.pc \notin Inside.sched
    BY <1>3 DEF SweepJob
  <2>2. CASE SweepFails(sched.job)
    BY <1>0, <2>1, <2>2 DEF SweepFails, Exec
  <2>3. CASE UNCHANGED <<connection, history>>
    BY <2>3
  <2>4. QED
    BY <1>3, <2>2, <2>3 DEF SweepJob
<1>4. CASE SweepRelease
  BY <1>0, <1>4 DEF SweepRelease, Exec
<1> HIDE DEF Stored
<1>5. QED
  BY <1>1, <1>2, <1>3, <1>4 DEF Periodic

\* Nor do the watchers or a crash.
LEMMA WatchStored ==
  ASSUME Typed, Owned, Stored, (\E j \in Jobs : WatchStep(j)) \/ CrashRestart \/ UNCHANGED vars
  PROVE  Stored'
<1> USE ConnectionParameters
<1> USE DEF Stored, Owned, Inside, HttpWrites, RetryPc, MayExec, connection, history, others,
            Typed, ConnectionTyped
<1>1. ASSUME NEW j \in Jobs, WatchStatus(j) PROVE Stored'
  BY <1>1 DEF WatchStatus, Exec
<1>2. ASSUME NEW j \in Jobs, WatchArtifacts(j) PROVE Stored'
  BY <1>2 DEF WatchArtifacts, Exec
<1>3. ASSUME NEW j \in Jobs, WatchRelease(j) PROVE Stored'
  BY <1>3 DEF WatchRelease, Exec
<1>4. CASE CrashRestart
  BY <1>4 DEF CrashRestart
<1>5. CASE UNCHANGED vars
  BY <1>5 DEF vars
<1> HIDE DEF Stored
<1>6. QED
  BY <1>1, <1>2, <1>3, <1>4, <1>5 DEF WatchStep

\* Nor does any step.
LEMMA StepStored == Typed /\ Owned /\ Stored /\ [Next]_vars => Stored'
BY HttpStored, SchedStored, PeriodicStored, WatchStored DEF Next

\* The file, the view and the promises start out the same.
LEMMA InitStored == Init => Stored
BY DEF Init, Stored

(***************************************************************************)
(* An acknowledged write is in the file unless it was made inside the      *)
(* transaction of db_retry_job (db.c:379-412), or inside the one that the  *)
(* scheduler cannot end any more because a db_rollback of the HTTP thread  *)
(* cleared its flag (db.c:322).  Everywhere else db_begin keeps the mutex, *)
(* so that no rollback (db.c:309-327) takes the statement of another       *)
(* thread with it.                                                         *)
(***************************************************************************)
THEOREM GuestsAloneLose == Spec => []OnlyGuestsLose
<1>1. Spec => [](Typed /\ Owned /\ Stored)
  BY InitTyped, StepTyped, InitOwned, StepOwned, InitStored, StepStored, PTL DEF Spec
<1>2. Stored => OnlyGuestsLose
  BY DEF Stored, OnlyGuestsLose
<1>3. QED
  BY <1>1, <1>2, PTL

-----------------------------------------------------------------------------
(* Batches and purges are whole.  First what the statements do to a        *)
(* database that is whole, and which rows they leave in existence.         *)

KeysPresent(d) == \A j \in d.key : Present(d, j)

Whole(d) == (\A j \in Batch : d.batch <=> d.job[j] # "none") /\ KeysPresent(d)

Exists(d, j) == d.job[j] # "none"

Grows(d, e) == \A j \in Jobs : Exists(d, j) => Exists(e, j)

\* Rows are kept and those that are present stay so.
Steady(d, e) ==
  /\ Grows(d, e)
  /\ \A j \in Jobs : Present(d, j) => Present(e, j)
  /\ e.batch = d.batch /\ e.key = d.key

Live == {"CREATED", "QUEUED", "RUNNING", "SUCCEEDED", "FAILED"}

\* A status is written to one row, and never takes a row away.
LEMMA StatusIsSteady ==
  ASSUME NEW d \in Database, NEW j \in Jobs, NEW s \in Live
  PROVE  /\ Steady(d, SetStatus(d, j, s))
         /\ Exists(SetStatus(d, j, s), j)
         /\ \A i \in Jobs : i # j => (Exists(SetStatus(d, j, s), i) <=> Exists(d, i))
         /\ d.job[j] # "purged" => Present(SetStatus(d, j, s), j)
BY DEF Steady, Grows, Exists, Present, SetStatus, Database, Live

\* Statements on allocations and artifacts leave the jobs alone.
LEMMA OthersAreSteady ==
  ASSUME NEW d \in Database, NEW j, NEW m,
         NEW e \in {InsertAllocation(d, j, m), ReleaseAllocation(d, j), UpsertArtifact(d, j),
                    DeleteArtifacts(d, j)}
  PROVE  Steady(d, e) /\ e.job = d.job
BY DEF Steady, Grows, Exists, Present, InsertAllocation, ReleaseAllocation, UpsertArtifact,
       DeleteArtifacts, Database

\* A whole database stays whole when no job of the batch comes to exist.
LEMMA SteadyIsWhole ==
  ASSUME NEW d \in Database, NEW e \in Database, Steady(d, e), Whole(d),
         \A j \in Batch : Exists(e, j) => Exists(d, j)
  PROVE  Whole(e)
<1>1. KeysPresent(e)
  BY DEF Steady, Whole, KeysPresent, Database
<1>2. ASSUME NEW j \in Batch PROVE e.batch <=> e.job[j] # "none"
  <2>1. e.job[j] # "none" <=> d.job[j] # "none"
    BY DEF Steady, Grows, Exists
  <2>2. d.batch <=> d.job[j] # "none"
    BY DEF Whole
  <2>3. e.batch = d.batch
    BY DEF Steady
  <2>4. QED
    BY <2>1, <2>2, <2>3
<1>3. QED
  BY <1>1, <1>2 DEF Whole

\* The key of a job that is present.
LEMMA KeyIsWhole ==
  ASSUME NEW d \in Database, NEW j \in Solo, Whole(d), Present(d, j)
  PROVE  /\ Whole(InsertKey(d, j)) /\ InsertKey(d, j).batch = d.batch
         /\ InsertKey(d, j).job = d.job
<1>1. InsertKey(d, j).batch = d.batch /\ InsertKey(d, j).job = d.job /\ InsertKey(d, j).key = d.key \cup {j}
  BY DEF InsertKey, Database
<1>2. QED
  BY <1>1 DEF Whole, KeysPresent, Present

\* The row of the batch alone.
LEMMA BatchIsInserted ==
  ASSUME NEW d \in Database
  PROVE  /\ InsertBatch(d).job = d.job /\ InsertBatch(d).key = d.key /\ InsertBatch(d).batch
         /\ KeysPresent(d) => KeysPresent(InsertBatch(d))
<1>1. InsertBatch(d).batch /\ InsertBatch(d).job = d.job /\ InsertBatch(d).key = d.key
  BY DEF InsertBatch, Database
<1>2. QED
  BY <1>1 DEF KeysPresent, Present

\* After the first DELETE of a purge no finished job has a key.
LEMMA KeysAreDeleted ==
  ASSUME NEW d \in Database, Whole(d)
  PROVE  /\ Whole(DeleteKeys(d)) /\ DeleteKeys(d).batch = d.batch /\ DeleteKeys(d).job = d.job
         /\ \A j \in DeleteKeys(d).key : d.job[j] \notin Terminal
<1>1. /\ DeleteKeys(d).batch = d.batch /\ DeleteKeys(d).job = d.job
      /\ DeleteKeys(d).key = {j \in d.key : d.job[j] \notin Terminal}
  BY DEF DeleteKeys, Database
<1>2. QED
  BY <1>1 DEF Whole, KeysPresent, Present

\* The second DELETE then takes no job away from its key.
LEMMA JobsAreDeleted ==
  ASSUME NEW d \in Database, Whole(d), \A j \in d.key : d.job[j] \notin Terminal
  PROVE  /\ Whole(DeleteJobs(d)) /\ DeleteJobs(d).batch = d.batch
         /\ \A j \in Jobs : Exists(DeleteJobs(d), j) <=> Exists(d, j)
<1> DEFINE e == DeleteJobs(d)
<1>1. /\ e.batch = d.batch /\ e.key = d.key
      /\ e.job = [j \in Jobs |-> IF d.job[j] \in Terminal THEN "purged" ELSE d.job[j]]
  BY DEF DeleteJobs, Database
<1>2. \A j \in Jobs : Exists(e, j) <=> Exists(d, j)
  BY <1>1 DEF Exists, Terminal
<1>3. KeysPresent(e)
  BY <1>1 DEF Whole, KeysPresent, Present, Database
<1> HIDE DEF e
<1>4. ASSUME NEW j \in Batch PROVE e.batch <=> e.job[j] # "none"
  <2>1. d.batch <=> d.job[j] # "none"
    BY DEF Whole
  <2>2. QED
    BY <2>1, <1>1, <1>2 DEF Exists
<1>5. QED
  BY <1>1, <1>2, <1>3, <1>4 DEF Whole, e

\* The recovery neither adds nor removes a row.
LEMMA RecoveredIsWhole ==
  ASSUME NEW d \in Database, Whole(d)
  PROVE  Whole(Recovered(d)) /\ \A j \in Jobs : Exists(Recovered(d), j) <=> Exists(d, j)
<1> DEFINE e == Recovered(d)
<1>1. /\ e.batch = d.batch /\ e.key = d.key
      /\ e.job = [j \in Jobs |-> IF d.job[j] = "RUNNING" THEN "FAILED" ELSE d.job[j]]
  BY DEF Recovered, Database
<1>2. Steady(d, e) /\ \A j \in Jobs : Exists(e, j) <=> Exists(d, j)
  BY <1>1 DEF Steady, Grows, Exists, Present
<1>3. QED
  BY <1>2, SteadyIsWhole, RecoveredType

-----------------------------------------------------------------------------
(* The invariant of batches and purges. *)

BatchPc == {"batch", "batch_jobs", "failed", "rollback", "leave", "answer"}

\* The file is whole; what the connection sees is too, unless the HTTP
\* thread is in the middle of a batch.
Halves ==
  /\ Whole(disk)
  /\ Grows(disk, view)
  /\ \/ Whole(view)
     \/ mutex = "http" /\ txn = "kept" /\ http.pc \in {"batch_jobs", "failed", "rollback"}

Batching ==
  /\ http.pc = "batch" => http.todo = Batch
  /\ http.pc = "batch_jobs" =>
       /\ view.batch /\ KeysPresent(view)
       /\ \A j \in Batch : j \in http.todo \/ Exists(view, j)
  /\ http.op = "batch" => http.pc \in BatchPc /\ ~disk.batch
  /\ http.op = "batch" /\ view.batch => mutex = "http" /\ txn = "kept"

Purging == http.pc = "purge_jobs" => \A j \in view.key : view.job[j] \notin Terminal

Keyed == http.pc \in Submitting => Present(disk, http.job) /\ Present(view, http.job)

\* Who works on a job can rely on its row.
Listed(j) ==
  \/ j \in queue
  \/ sched.pc # "idle" /\ sched.job = j
  \/ watch[j] # "none"
  \/ http.pc \in RetryPc /\ http.job = j

Known == \A j \in Jobs : Listed(j) => Exists(disk, j)

\* Only the HTTP thread inserts rows: the others see none that the file does
\* not have.
Matching == mutex # "http" => Grows(view, disk)

Complete == Halves /\ Batching /\ Purging /\ Keyed /\ Matching

\* A statement of another thread than the HTTP thread.
LEMMA ForeignWrite ==
  ASSUME Typed, Owned, Stored, Complete,
         mutex # "http", UNCHANGED <<http, txn, mutex>>, view' \in Database,
         Steady(view, view'), \A j \in Jobs : Exists(view', j) => Exists(view, j),
         \/ disk' = disk
         \/ disk = view /\ disk' = view'
  PROVE  Complete' /\ Grows(disk, disk')
<1> USE DEF Complete
<1>1. disk \in Database /\ view \in Database /\ Whole(view) /\ Whole(view')
  <2>1. disk \in Database /\ view \in Database /\ Whole(view)
    BY DEF Typed, ConnectionTyped, Halves
  <2>2. QED
    BY <2>1, SteadyIsWhole
<1>2. Whole(disk') /\ Grows(disk, disk') /\ Grows(disk', view')
  BY <1>1 DEF Halves, Steady, Grows
<1>3. Halves'
  BY <1>1, <1>2 DEF Halves
<1>4. http.pc \notin HttpWrites
  BY DEF Owned
<1>5. Batching'
  <2>1. view'.batch = view.batch /\ (http.op = "batch" => disk'.batch = disk.batch)
    BY DEF Steady
  <2>2. QED
    BY <2>1, <1>4 DEF Batching, HttpWrites
<1>6. Purging'
  BY <1>4 DEF Purging, HttpWrites
<1>7. Keyed'
  BY DEF Keyed, Steady, Typed, ThreadsTyped, Addressed
<1>8. Matching'
  BY DEF Matching, Grows
<1>9. QED
  BY <1>2, <1>3, <1>5, <1>6, <1>7, <1>8

\* A commit or a rollback of another thread than the HTTP thread.
LEMMA ForeignTransaction ==
  ASSUME Typed, Owned, Complete,
         mutex # "http", UNCHANGED http,
         \/ disk' = disk /\ view' \in {disk, view}
         \/ disk' = view /\ view' = view
  PROVE  Complete' /\ Grows(disk, disk')
<1> USE DEF Complete
<1>1. Whole(view) /\ Whole(disk) /\ Grows(disk, view)
  BY DEF Halves
<1>2. Halves' /\ Grows(disk, disk')
  BY <1>1 DEF Halves, Grows
<1>3. http.pc \notin HttpWrites
  BY DEF Owned
<1>4. Batching'
  BY <1>3 DEF Batching, HttpWrites
<1>5. Purging'
  BY <1>3 DEF Purging, HttpWrites
<1>6. Keyed'
  BY DEF Keyed
<1>7. Matching'
  BY DEF Matching, Grows
<1>8. QED
  BY <1>2, <1>4, <1>5, <1>6, <1>7

\* Steps of the scheduler thread keep the invariant.
LEMMA SchedComplete ==
  ASSUME Typed, Owned, Stored, Complete, Known, (\E j \in Jobs : Pop(j)) \/ SchedStep
  PROVE  (Complete /\ Known)'
<1> USE DEF MayExec, connection, history, Inside
<1>0. /\ disk \in Database /\ view \in Database /\ mutex \in {Nobody, "http", "sched"}
      /\ mutex = "sched" => mutex # "http"
      /\ Nobody # "http"
      /\ queue \subseteq Jobs
      /\ sched.pc # "idle" => sched.job \in Jobs /\ Exists(view, sched.job)
      /\ \A j \in Jobs : watch[j] # "none" => Exists(view, j)
      /\ sched.pc \in Inside.sched => mutex = "sched"
      /\ watch \in [Jobs -> {"none", "status", "artifacts", "release"}]
  BY ConnectionParameters
     DEF Typed, ConnectionTyped, ThreadsTyped, Addressed, Complete, Halves, Known, Listed, Grows, Owned
<1>00. sched \in [pc : {"idle", "begin", "insert", "commit", "rollback", "leave", "give_up", "run",
                        "sweep", "sweep_release"},
                  job : Jobs \cup {Nobody}, at : Machines \cup {Nobody}]
  BY DEF Typed, ThreadsTyped
<1>01. sched.pc = "insert" => sched.at \in Machines
  BY DEF Typed, ThreadsTyped, Addressed, Starting
<1>1. ASSUME NEW j \in Jobs, Pop(j) PROVE (Complete /\ Known)'
  <2>1. mutex # "http" /\ UNCHANGED http
    BY <1>1, <1>0 DEF Pop
  <2>2. \/ disk' = disk /\ view' \in {disk, view}
        \/ disk' = view /\ view' = view
    BY <1>1 DEF Pop
  <2>3. Complete' /\ Grows(disk, disk')
    BY <2>1, <2>2, ForeignTransaction
  <2>5. Known'
    BY <1>1, <2>1, <2>3, <1>0 DEF Pop, SchedDone, SchedIdle, Known, Listed, Grows
  <2>6. QED
    BY <2>3, <2>5
<1>2. CASE PersistBegin
  <2>1. mutex # "http" /\ UNCHANGED http
    BY <1>2, <1>0 DEF PersistBegin, db_begin, db_begin_fails, Fails
  <2>2. \/ disk' = disk /\ view' \in {disk, view}
        \/ disk' = view /\ view' = view
    BY <1>2 DEF PersistBegin, db_begin, db_begin_fails, Fails
  <2>3. Complete' /\ Grows(disk, disk')
    BY <2>1, <2>2, ForeignTransaction
  <2>4. /\ queue' \subseteq queue \cup {sched.job} /\ UNCHANGED watch
        /\ sched.pc # "idle" /\ (sched'.pc = "idle" \/ sched'.job = sched.job)
    BY <1>2, <1>00 DEF PersistBegin, SchedGoto, SchedDone, SchedIdle, PushBack
  <2>5. Known'
    BY <2>1, <2>3, <2>4, <1>0 DEF Known, Listed, Grows
  <2>6. QED
    BY <2>3, <2>5
<1>3. CASE PersistInsert
  <2>1. mutex # "http" /\ UNCHANGED <<http, txn, mutex>>
    BY <1>3, <1>0 DEF PersistInsert, ExecInside
  <2>2. /\ view' \in Database /\ Steady(view, view')
        /\ \A i \in Jobs : Exists(view', i) => Exists(view, i)
    BY <1>3, <1>0, <1>01, InsertAllocationType, OthersAreSteady DEF PersistInsert, ExecInside, Exists
  <2>4. disk' = disk \/ (disk = view /\ disk' = view')
    BY <1>3 DEF PersistInsert, ExecInside, Stored
  <2>3. Complete' /\ Grows(disk, disk')
    BY <2>1, <2>2, <2>4, ForeignWrite
  <2>5. Known'
    BY <1>3, <2>1, <2>3, <1>0 DEF PersistInsert, SchedGoto, Known, Listed, Grows
  <2>6. QED
    BY <2>3, <2>5
<1>4. CASE PersistInsertFails
  <2>1. mutex # "http" /\ UNCHANGED http
    BY <1>4, <1>0 DEF PersistInsertFails, Fails
  <2>2. \/ disk' = disk /\ view' \in {disk, view}
        \/ disk' = view /\ view' = view
    BY <1>4 DEF PersistInsertFails, Fails
  <2>3. Complete' /\ Grows(disk, disk')
    BY <2>1, <2>2, ForeignTransaction
  <2>5. Known'
    BY <1>4, <2>1, <2>3, <1>0 DEF PersistInsertFails, SchedGoto, Known, Listed, Grows
  <2>6. QED
    BY <2>3, <2>5
<1>5. CASE PersistRollback
  <2>1. mutex # "http" /\ UNCHANGED http
    BY <1>5, <1>0 DEF PersistRollback, Rollback
  <2>2. \/ disk' = disk /\ view' \in {disk, view}
        \/ disk' = view /\ view' = view
    BY <1>5 DEF PersistRollback, Rollback
  <2>3. Complete' /\ Grows(disk, disk')
    BY <2>1, <2>2, ForeignTransaction
  <2>5. Known'
    BY <1>5, <2>1, <2>3, <1>0 DEF PersistRollback, SchedGoto, Known, Listed, Grows
  <2>6. QED
    BY <2>3, <2>5
<1>6. CASE PersistLeave
  <2>1. mutex # "http" /\ UNCHANGED http
    BY <1>6, <1>0 DEF PersistLeave, RollbackLeave
  <2>2. \/ disk' = disk /\ view' \in {disk, view}
        \/ disk' = view /\ view' = view
    BY <1>6 DEF PersistLeave, RollbackLeave
  <2>3. Complete' /\ Grows(disk, disk')
    BY <2>1, <2>2, ForeignTransaction
  <2>5. Known'
    BY <1>6, <2>1, <2>3, <1>0 DEF PersistLeave, SchedGoto, Known, Listed, Grows
  <2>6. QED
    BY <2>3, <2>5
<1>7. CASE PersistGivesUp
  <2>1. UNCHANGED <<http, connection>>
    BY <1>7 DEF PersistGivesUp
  <2>3. Complete' /\ Grows(disk, disk')
    BY <2>1 DEF Complete, Halves, Batching, Purging, Keyed, Matching, Grows
  <2>5. Known'
    BY <1>7, <2>1, <2>3, <1>0 DEF PersistGivesUp, SchedDone, SchedIdle, PushBack, Known, Listed, Grows
  <2>6. QED
    BY <2>3, <2>5
<1>8. CASE PersistCommit
  <2>1. mutex # "http" /\ UNCHANGED http
    BY <1>8, <1>0 DEF PersistCommit, db_commit, db_commit_fails, NotActive, Fails
  <2>2. \/ disk' = disk /\ view' \in {disk, view}
        \/ disk' = view /\ view' = view
    BY <1>8 DEF PersistCommit, db_commit, db_commit_fails, NotActive, Fails
  <2>3. Complete' /\ Grows(disk, disk')
    BY <2>1, <2>2, ForeignTransaction
  <2>4. /\ queue' \subseteq queue \cup {sched.job} /\ UNCHANGED watch
        /\ sched.pc # "idle" /\ (sched'.pc = "idle" \/ sched'.job = sched.job)
    BY <1>8, <1>00 DEF PersistCommit, SchedGoto
  <2>5. Known'
    BY <2>1, <2>3, <2>4, <1>0 DEF Known, Listed, Grows
  <2>6. QED
    BY <2>3, <2>5
<1>9. CASE StartJob
  <2>1. mutex # "http" /\ UNCHANGED <<http, txn, mutex>>
    BY <1>9, <1>0 DEF StartJob, Exec
  <2>2. /\ view' \in Database /\ Steady(view, view')
        /\ \A i \in Jobs : Exists(view', i) => Exists(view, i)
    BY <1>9, <1>0, SetStatusType, StatusIsSteady DEF StartJob, Exec, Row, Live
  <2>4. disk' = disk \/ (disk = view /\ disk' = view')
    BY <1>9 DEF StartJob, Exec, Stored
  <2>3. Complete' /\ Grows(disk, disk')
    BY <2>1, <2>2, <2>4, ForeignWrite
  <2>5. Known'
    BY <1>9, <2>1, <2>3, <1>0 DEF StartJob, SchedDone, SchedIdle, Known, Listed, Grows
  <2>6. QED
    BY <2>3, <2>5
<1>10. QED
  BY <1>1, <1>2, <1>3, <1>4, <1>5, <1>6, <1>7, <1>8, <1>9 DEF SchedStep

\* The checks between two scans keep it: a row they see is in the file.
LEMMA PeriodicComplete ==
  ASSUME Typed, Owned, Stored, Complete, Known, Periodic
  PROVE  (Complete /\ Known)'
<1> USE DEF MayExec, connection, history
<1>0. /\ disk \in Database /\ view \in Database /\ mutex \in {Nobody, "http", "sched"}
      /\ Nobody # "http" /\ queue \subseteq Jobs
      /\ sched.pc # "idle" => sched.job \in Jobs /\ Exists(view, sched.job)
      /\ \A j \in Jobs : watch[j] # "none" => Exists(view, j)
      /\ watch \in [Jobs -> {"none", "status", "artifacts", "release"}]
      /\ mutex # "http" => \A j \in Jobs : Exists(view, j) => Exists(disk, j)
  BY ConnectionParameters
     DEF Typed, ConnectionTyped, ThreadsTyped, Addressed, Complete, Halves, Known, Listed, Grows, Matching
<1>00. sched \in [pc : {"idle", "begin", "insert", "commit", "rollback", "leave", "give_up", "run",
                        "sweep", "sweep_release"},
                  job : Jobs \cup {Nobody}, at : Machines \cup {Nobody}]
  BY DEF Typed, ThreadsTyped
<1>1. ASSUME NEW j \in Jobs, HeldCheck(j) PROVE (Complete /\ Known)'
  <2>0. PICK s \in {"FAILED", "CREATED", "QUEUED"} :
          Exec("sched", SetStatus(view, j, s), SetStatus(promised, j, s), 1)
    BY <1>1 DEF HeldCheck
  <2>1. mutex # "http" /\ UNCHANGED <<http, txn, mutex>>
    BY <1>0, <1>1, <2>0 DEF HeldCheck, Exec
  <2>2. Exists(view, j) /\ Exists(disk, j)
    BY <1>0, <1>1, <2>1 DEF HeldCheck, Exists
  <2>3. /\ view' \in Database /\ Steady(view, view')
        /\ \A i \in Jobs : Exists(view', i) => Exists(view, i)
    BY <1>0, <2>0, <2>2, SetStatusType, StatusIsSteady DEF Exec, Row, Live
  <2>4. disk' = disk \/ (disk = view /\ disk' = view')
    BY <2>0 DEF Exec, Stored
  <2>5. Complete' /\ Grows(disk, disk')
    BY <2>1, <2>3, <2>4, ForeignWrite
  <2>6. queue' \subseteq queue \cup {j} /\ UNCHANGED <<sched, watch>>
    BY <1>1 DEF HeldCheck
  <2>7. Known'
    BY <1>0, <2>1, <2>2, <2>5, <2>6 DEF Known, Listed, Grows
  <2>8. QED
    BY <2>5, <2>7
<1>2. ASSUME NEW j \in Jobs, SweepLoad(j) PROVE (Complete /\ Known)'
  <2>1. mutex # "http" /\ UNCHANGED <<http, disk, view, queue, watch>>
    BY <1>0, <1>2 DEF SweepLoad
  <2>2. Exists(disk, j) /\ sched'.job = j
    BY <1>0, <1>2, <2>1 DEF SweepLoad, Exists, SchedIdle
  <2>3. Complete'
    BY <2>1, ForeignTransaction
  <2>4. Known'
    BY <1>0, <2>1, <2>2 DEF Known, Listed
  <2>5. QED
    BY <2>3, <2>4
<1>3. CASE SweepJob
  <2>1. sched.pc = "sweep" /\ sched.job \in Jobs /\ Exists(view, sched.job)
    BY <1>0, <1>3 DEF SweepJob
  <2>2. /\ UNCHANGED <<http, queue>> /\ (sched'.pc = "idle" \/ sched'.job = sched.job)
        /\ \A i \in Jobs : watch'[i] # "none" => watch[i] # "none"
    BY <1>0, <1>00, <1>3, <2>1 DEF SweepJob, SchedGoto, SchedDone, SchedIdle
  <2>3. Complete' /\ Grows(disk, disk')
    <3>1. CASE SweepFails(sched.job)
      <4>1. mutex # "http" /\ UNCHANGED <<txn, mutex>>
        BY <1>0, <3>1 DEF SweepFails, Exec
      <4>2. /\ view' \in Database /\ Steady(view, view')
            /\ \A i \in Jobs : Exists(view', i) => Exists(view, i)
        BY <1>0, <2>1, <3>1, SetStatusType, StatusIsSteady DEF SweepFails, Exec, Row, Live
      <4>3. disk' = disk \/ (disk = view /\ disk' = view')
        BY <3>1 DEF SweepFails, Exec, Stored
      <4>4. QED
        BY <2>2, <4>1, <4>2, <4>3, ForeignWrite
    <3>2. CASE UNCHANGED connection
      BY <2>2, <3>2 DEF Complete, Halves, Batching, Purging, Keyed, Matching, Grows
    <3>3. QED
      BY <1>3, <3>1, <3>2 DEF SweepJob
  <2>4. Known'
    BY <1>0, <2>1, <2>2, <2>3 DEF Known, Listed, Grows
  <2>5. QED
    BY <2>3, <2>4
<1>4. CASE SweepRelease
  <2>1. mutex # "http" /\ UNCHANGED <<http, txn, mutex, queue, watch>> /\ sched'.pc = "idle"
    BY <1>0, <1>4 DEF SweepRelease, Exec, SchedDone, SchedIdle
  <2>2. /\ view' \in Database /\ Steady(view, view')
        /\ \A i \in Jobs : Exists(view', i) => Exists(view, i)
    BY <1>0, <1>4, ReleaseAllocationType, OthersAreSteady DEF SweepRelease, Exec, Exists
  <2>3. disk' = disk \/ (disk = view /\ disk' = view')
    BY <1>4 DEF SweepRelease, Exec, Stored
  <2>4. Complete' /\ Grows(disk, disk')
    BY <2>1, <2>2, <2>3, ForeignWrite
  <2>5. Known'
    BY <1>0, <2>1, <2>4 DEF Known, Listed, Grows
  <2>6. QED
    BY <2>4, <2>5
<1>5. QED
  BY <1>1, <1>2, <1>3, <1>4 DEF Periodic

\* Steps of the watchers and a crash keep it.
LEMMA WatchComplete ==
  ASSUME Typed, Owned, Stored, Complete, Known, (\E j \in Jobs : WatchStep(j)) \/ CrashRestart \/ UNCHANGED vars
  PROVE  (Complete /\ Known)'
<1> USE DEF MayExec, connection, history, Inside
<1>0. /\ disk \in Database /\ view \in Database /\ mutex \in {Nobody, "http", "sched"}
      /\ mutex = "sched" => mutex # "http"
      /\ Nobody # "http"
      /\ queue \subseteq Jobs
      /\ sched.pc # "idle" => sched.job \in Jobs /\ Exists(view, sched.job)
      /\ \A j \in Jobs : watch[j] # "none" => Exists(view, j)
      /\ sched.pc \in Inside.sched => mutex = "sched"
      /\ watch \in [Jobs -> {"none", "status", "artifacts", "release"}]
  BY ConnectionParameters
     DEF Typed, ConnectionTyped, ThreadsTyped, Addressed, Complete, Halves, Known, Listed, Grows, Owned
<1>1. ASSUME NEW j \in Jobs, WatchStatus(j) PROVE (Complete /\ Known)'
  <2>1. mutex # "http" /\ UNCHANGED <<http, txn, mutex>>
    BY <1>1, <1>0 DEF WatchStatus, Exec
  <2>2. /\ view' \in Database /\ Steady(view, view')
        /\ \A i \in Jobs : Exists(view', i) => Exists(view, i)
    BY <1>1, <1>0, SetStatusType, StatusIsSteady DEF WatchStatus, Exec, Row, Live, Terminal
  <2>4. disk' = disk \/ (disk = view /\ disk' = view')
    BY <1>1 DEF WatchStatus, Exec, Stored
  <2>3. Complete' /\ Grows(disk, disk')
    BY <2>1, <2>2, <2>4, ForeignWrite
  <2>5. Known'
    BY <1>1, <2>1, <2>3, <1>0 DEF WatchStatus, WatchGoto, Known, Listed, Grows
  <2>6. QED
    BY <2>3, <2>5
<1>2. ASSUME NEW j \in Jobs, WatchArtifacts(j) PROVE (Complete /\ Known)'
  <2>1. mutex # "http" /\ UNCHANGED <<http, txn, mutex>>
    BY <1>2, <1>0 DEF WatchArtifacts, Exec
  <2>2. /\ view' \in Database /\ Steady(view, view')
        /\ \A i \in Jobs : Exists(view', i) => Exists(view, i)
    BY <1>2, <1>0, ArtifactsType, OthersAreSteady DEF WatchArtifacts, Exec, Exists
  <2>4. disk' = disk \/ (disk = view /\ disk' = view')
    BY <1>2 DEF WatchArtifacts, Exec, Stored
  <2>3. Complete' /\ Grows(disk, disk')
    BY <2>1, <2>2, <2>4, ForeignWrite
  <2>5. Known'
    BY <1>2, <2>1, <2>3, <1>0 DEF WatchArtifacts, WatchGoto, Known, Listed, Grows
  <2>6. QED
    BY <2>3, <2>5
<1>3. ASSUME NEW j \in Jobs, WatchRelease(j) PROVE (Complete /\ Known)'
  <2>1. mutex # "http" /\ UNCHANGED <<http, txn, mutex>>
    BY <1>3, <1>0 DEF WatchRelease, Exec
  <2>2. /\ view' \in Database /\ Steady(view, view')
        /\ \A i \in Jobs : Exists(view', i) => Exists(view, i)
    BY <1>3, <1>0, ReleaseAllocationType, OthersAreSteady DEF WatchRelease, Exec, Exists
  <2>4. disk' = disk \/ (disk = view /\ disk' = view')
    BY <1>3 DEF WatchRelease, Exec, Stored
  <2>3. Complete' /\ Grows(disk, disk')
    BY <2>1, <2>2, <2>4, ForeignWrite
  <2>5. Known'
    BY <1>3, <2>1, <2>3, <1>0 DEF WatchRelease, WatchGoto, Known, Listed, Grows
  <2>6. QED
    BY <2>3, <2>5
<1>4. CASE CrashRestart
  <2>1. /\ Whole(disk') /\ view' = disk'
        /\ \A j \in Jobs : Exists(disk', j) <=> Exists(disk, j)
    BY <1>4, <1>0, RecoveredIsWhole DEF CrashRestart, Complete, Halves
  <2>2. http'.pc = "idle" /\ http'.op = "none" /\ sched'.pc = "idle" /\ \A j \in Jobs : watch'[j] = "none"
    BY <1>4 DEF CrashRestart, HttpIdle, SchedIdle
  <2>3. Complete'
    BY <2>1, <2>2 DEF Complete, Halves, Batching, Purging, Keyed, Matching, Submitting, Grows
  <2>4. Known'
    BY <1>4, <2>1, <2>2 DEF CrashRestart, Known, Listed, RetryPc, Exists
  <2>5. QED
    BY <2>3, <2>4
<1>5. CASE UNCHANGED vars
  BY <1>5 DEF vars, Complete, Halves, Batching, Purging, Keyed, Matching, Known, Listed
<1>6. QED
  BY <1>1, <1>2, <1>3, <1>4, <1>5 DEF WatchStep

\* Steps of the HTTP thread.
LEMMA HttpComplete ==
  ASSUME Typed, Owned, Stored, Complete, Known,
         \/ \E j \in Jobs : SubmitInsert(j) \/ RetryBegin(j)
         \/ BatchBegin \/ PurgeBegin \/ HttpStep
  PROVE  (Complete /\ Known)'
<1> USE DEF MayExec
<1>0. /\ disk \in Database /\ view \in Database /\ mutex \in {Nobody, "http", "sched"}
      /\ txn \in {"none", "kept", "plain"} /\ queue \subseteq Jobs /\ Whole(disk) /\ Grows(disk, view)
      /\ http \in [pc : {"idle", "key", "hold", "batch", "batch_jobs", "failed", "rollback", "leave", "answer",
                         "purge_keys", "purge_jobs", "purge_commit", "retry_row", "retry_changes",
                         "retry_artifacts", "retry_commit", "retry_rollback"},
                   op : {"none", "batch"}, job : Jobs \cup {Nobody}, todo : SUBSET Batch]
      /\ http.pc \notin {"batch_jobs", "failed", "rollback"} => Whole(view)
      /\ http.op = "batch" => http.pc \in {"batch", "batch_jobs", "failed", "rollback", "leave", "answer"}
      /\ http.pc \in RetryPc => http.job \in Jobs /\ Exists(disk, http.job) /\ Exists(view, http.job)
      /\ http.pc \in Submitting => http.job \in Solo /\ Present(disk, http.job) /\ Present(view, http.job)
      /\ http.pc = "purge_jobs" => \A j \in view.key : view.job[j] \notin Terminal
      /\ Known /\ Batching /\ Halves /\ Matching
  BY DEF Typed, ConnectionTyped, ThreadsTyped, Addressed, Complete, Halves, Batching, BatchPc, Purging,
         Keyed, Matching, Known, Listed, Grows
<1>1. ASSUME NEW j \in Jobs, SubmitInsert(j) PROVE (Complete /\ Known)'
  <2>1. txn = "none" /\ view = disk /\ j \in Solo /\ j \notin Batch /\ view.job[j] = "none" /\ Whole(view)
    BY <1>1, <1>0, ConnectionParameters DEF SubmitInsert, Exec, Owned, RetryPc, Inside, Stored
  <2>2. /\ view' = SetStatus(view, j, "QUEUED") /\ disk' = view' /\ UNCHANGED others
        /\ http'.pc = "key" /\ http'.op = "none" /\ http'.job = j
    BY <1>1, <1>0, <2>1 DEF SubmitInsert, Exec, HttpIdle
  <2>3. Steady(view, view') /\ (\A i \in Batch : Exists(view', i) => Exists(view, i)) /\ Present(view', j)
    BY <1>1, <1>0, <2>1, <2>2, StatusIsSteady DEF Live
  <2>4. Whole(view') /\ Grows(disk, disk') /\ Grows(disk', view')
    BY <1>1, <1>0, <2>1, <2>2, <2>3, SteadyIsWhole, SetStatusType DEF Row, Steady, Grows
  <2>8. Complete'
    BY <2>2, <2>3, <2>4 DEF Complete, Halves, Batching, Purging, Keyed, Matching, Submitting, BatchPc, Grows
  <2>9. Known'
    BY <2>2, <2>4 DEF Known, Listed, RetryPc, Grows, others
  <2>10. QED
    BY <2>8, <2>9
<1>2. ASSUME NEW j \in Jobs, RetryBegin(j) PROVE (Complete /\ Known)'
  <2>1. view = disk /\ Exists(disk, j) /\ Whole(view)
    BY <1>2, <1>0 DEF RetryBegin, Stored, Exists
  <2>2. /\ UNCHANGED <<disk, view, mutex, sched, watch>> /\ queue' \subseteq queue
        /\ http'.pc = "retry_row" /\ http'.op = "none" /\ http'.job = j
    BY <1>2, <1>0 DEF RetryBegin, HttpIdle
  <2>8. Complete'
    BY <1>2, <1>0, <2>1, <2>2 DEF Complete, Halves, Batching, Purging, Keyed, Matching, Submitting, BatchPc
  <2>9. Known'
    BY <1>2, <1>0, <2>1, <2>2 DEF Known, Listed, RetryPc, Grows
  <2>10. QED
    BY <2>8, <2>9
<1>3. CASE BatchBegin
  <2>1. Whole(view) /\ Batch # {} /\ \A j \in Batch : ~Exists(view, j)
    BY <1>3, <1>0 DEF BatchBegin, Exists
  <2>2. ~view.batch /\ ~disk.batch
    BY <1>3, <1>0, <2>1 DEF Whole, Exists, Grows
  <2>3. /\ UNCHANGED <<disk, view>> /\ UNCHANGED others /\ mutex' \in {mutex, "http"}
        /\ http'.op = "batch" /\ http'.pc \in {"batch", "failed"} /\ (http'.pc = "batch" => http'.todo = Batch)
    BY <1>3, <1>0 DEF BatchBegin, db_begin, db_begin_fails, connection, HttpIdle
  <2>8. Complete'
    BY <1>3, <1>0, <2>1, <2>2, <2>3 DEF Complete, Halves, Batching, Purging, Keyed, Matching, Submitting, BatchPc
  <2>9. Known'
    BY <1>3, <1>0, <2>3 DEF Known, Listed, RetryPc, Grows, others
  <2>10. QED
    BY <2>8, <2>9
<1>4. CASE PurgeBegin
  <2>1. /\ UNCHANGED <<disk, view>> /\ UNCHANGED others /\ mutex' \in {mutex, "http"}
        /\ http'.op = http.op /\ http'.pc \in {"idle", "purge_keys"}
    BY <1>4, <1>0 DEF PurgeBegin, db_begin, db_begin_fails, connection, HttpGoto
  <2>2. http.op # "batch" /\ Whole(view)
    BY <1>4, <1>0 DEF PurgeBegin
  <2>8. Complete'
    BY <1>4, <1>0, <2>1, <2>2 DEF Complete, Halves, Batching, Purging, Keyed, Matching, Submitting, BatchPc
  <2>9. Known'
    BY <1>4, <1>0, <2>1 DEF Known, Listed, RetryPc, Grows, others
  <2>10. QED
    BY <2>8, <2>9
<1>5. CASE SubmitKey
  <2>1. txn = "none" /\ view = disk /\ http.job \in Solo /\ Present(view, http.job) /\ Whole(view)
    BY <1>5, <1>0, ConnectionParameters DEF SubmitKey, Submitting, Exec, Owned, RetryPc, Inside, Stored
  <2>2. /\ view' = InsertKey(view, http.job) /\ disk' = view' /\ UNCHANGED <<sched, watch>>
        /\ queue' \subseteq queue \cup {http.job} /\ http'.op # "batch"
        /\ http'.pc = "idle" \/ (http'.pc = "hold" /\ http'.job = http.job)
    <3>1. view' = InsertKey(view, http.job) /\ disk' = view' /\ UNCHANGED <<sched, watch>>
      BY <1>5, <2>1 DEF SubmitKey, Exec
    <3>2. http.op # "batch"
      BY <1>5, <1>0 DEF SubmitKey
    <3>3. CASE queue' = queue \cup {http.job} /\ HttpDone
      BY <3>1, <3>3 DEF HttpDone, HttpIdle
    <3>4. CASE HttpGoto("hold") /\ UNCHANGED queue
      BY <1>0, <3>1, <3>2, <3>4 DEF HttpGoto
    <3>5. QED
      BY <1>5, <3>3, <3>4 DEF SubmitKey
  <2>3. Whole(view') /\ view'.job = view.job
    BY <1>5, <1>0, <2>1, <2>2, KeyIsWhole
  <2>4. /\ Grows(disk', view') /\ Grows(view', disk')
        /\ (\A j \in Jobs : Exists(disk, j) => Exists(disk', j)) /\ Exists(disk', http.job)
        /\ Present(disk', http.job) /\ Present(view', http.job)
    BY <2>1, <2>2, <2>3 DEF Grows, Exists, Present
  <2>8. Complete'
    BY <2>2, <2>3, <2>4 DEF Complete, Halves, Batching, Purging, Keyed, Matching, Submitting, BatchPc
  <2>9. Known'
    BY <1>5, <1>0, <2>2, <2>4 DEF Known, Listed, RetryPc, Grows
  <2>10. QED
    BY <2>8, <2>9
<1>51. CASE SubmitHold
  <2>1. /\ txn = "none" /\ view = disk /\ http.job \in Solo /\ http.job \notin Batch
        /\ Present(view, http.job) /\ Whole(view)
    BY <1>51, <1>0, ConnectionParameters DEF SubmitHold, Submitting, Exec, Owned, RetryPc, Inside, Stored
  <2>2. /\ view' = SetStatus(view, http.job, "CREATED") /\ disk' = view' /\ UNCHANGED others
        /\ http'.pc = "idle" /\ http'.op = "none"
    BY <1>51, <2>1 DEF SubmitHold, Exec, HttpDone, HttpIdle
  <2>3. view' \in Database /\ Steady(view, view') /\ \A i \in Batch : Exists(view', i) => Exists(view, i)
    BY <1>0, <2>1, <2>2, SetStatusType, StatusIsSteady DEF Row, Live
  <2>4. Whole(view') /\ Grows(disk, disk') /\ Grows(disk', view')
    BY <1>0, <2>1, <2>2, <2>3, SteadyIsWhole DEF Steady, Grows
  <2>8. Complete'
    BY <2>2, <2>4 DEF Complete, Halves, Batching, Purging, Keyed, Matching, Submitting, Grows
  <2>9. Known'
    BY <1>0, <2>2, <2>4 DEF Known, Listed, RetryPc, Grows, others
  <2>10. QED
    BY <2>8, <2>9
<1>6. CASE BatchInsert
  <2>1. mutex = "http" /\ txn = "kept" /\ http.todo = Batch /\ KeysPresent(view)
    BY <1>6, <1>0 DEF BatchInsert, Owned, HttpWrites, Whole, Batching
  <2>2. /\ view' = InsertBatch(view) /\ UNCHANGED <<disk, mutex, txn>> /\ UNCHANGED others
        /\ http'.pc = "batch_jobs" /\ http'.op = http.op /\ http'.todo = http.todo
    BY <1>6, <1>0 DEF BatchInsert, ExecInside, HttpGoto
  <2>3. KeysPresent(view') /\ view'.batch /\ view'.job = view.job
    BY <1>6, <1>0, <2>1, <2>2, BatchIsInserted
  <2>4. Grows(disk, view')
    BY <1>6, <1>0, <2>3 DEF Grows, Exists
  <2>8. Complete'
    BY <1>6, <1>0, <2>1, <2>2, <2>3, <2>4 DEF Complete, Halves, Batching, Purging, Keyed, Matching, Submitting, BatchPc
  <2>9. Known'
    BY <1>6, <1>0, <2>2 DEF Known, Listed, RetryPc, Grows, others
  <2>10. QED
    BY <2>8, <2>9
<1>7. ASSUME NEW i \in Batch, BatchJob(i) PROVE (Complete /\ Known)'
  <2>1. mutex = "http" /\ txn = "kept"
    BY <1>7, <1>0 DEF BatchJob, Owned, HttpWrites
  <2>2. /\ view' = SetStatus(view, i, "QUEUED") /\ UNCHANGED <<disk, mutex, txn>> /\ UNCHANGED others
        /\ http'.pc = "batch_jobs" /\ http'.op = http.op /\ http'.todo = http.todo \ {i} /\ http.pc = "batch_jobs"
    BY <1>7, <1>0 DEF BatchJob, ExecInside
  <2>3. Steady(view, view') /\ Exists(view', i)
    BY <1>7, <1>0, <2>2, StatusIsSteady DEF Live
  <2>4. KeysPresent(view') /\ view'.batch /\ Grows(disk, view') /\ (\A j \in Batch : j \in http'.todo \/ Exists(view', j))
    BY <1>7, <1>0, <2>2, <2>3 DEF Steady, KeysPresent, Grows, Database, Batching
  <2>8. Complete'
    BY <1>7, <1>0, <2>1, <2>2, <2>4 DEF Complete, Halves, Batching, Purging, Keyed, Matching, Submitting, BatchPc
  <2>9. Known'
    BY <1>7, <1>0, <2>2 DEF Known, Listed, RetryPc, Grows, others
  <2>10. QED
    BY <2>8, <2>9
<1>8. CASE BatchStatementFails
  <2>1. mutex = "http" /\ txn = "kept"
    BY <1>8, <1>0 DEF BatchStatementFails, Owned, HttpWrites
  <2>2. /\ UNCHANGED <<disk, view, mutex, txn>> /\ UNCHANGED others
        /\ http'.pc = "failed" /\ http'.op = http.op
    BY <1>8, <1>0 DEF BatchStatementFails, connection, HttpGoto
  <2>8. Complete'
    BY <1>8, <1>0, <2>1, <2>2 DEF Complete, Halves, Batching, Purging, Keyed, Matching, Submitting, BatchPc
  <2>9. Known'
    BY <1>8, <1>0, <2>2 DEF Known, Listed, RetryPc, Grows, others
  <2>10. QED
    BY <2>8, <2>9
<1>9. CASE BatchCommit
  <2>1. mutex = "http" /\ active /\ http.todo = {} /\ http.pc = "batch_jobs"
    BY <1>9, <1>0 DEF BatchCommit, Owned, HttpWrites
  <2>2. Whole(view) /\ \A j \in Batch : Exists(view, j)
    BY <1>9, <1>0, <2>1 DEF Whole, Exists, Batching
  <2>3. CASE db_commit("http") /\ queue' = queue \cup Batch /\ HttpDone /\ UNCHANGED <<sched, watch>>
    <3>1. disk' = view /\ view' = view /\ http'.pc = "idle" /\ http'.op = "none"
      BY <2>3 DEF db_commit, HttpDone, HttpIdle
    <3>2. Complete'
      BY <2>2, <3>1 DEF Complete, Halves, Batching, Purging, Keyed, Matching, Submitting, Grows
    <3>3. Known'
      BY <1>9, <1>0, <2>2, <2>3, <3>1 DEF Known, Listed, RetryPc, Grows
    <3>4. QED
      BY <3>2, <3>3
  <2>4. CASE db_commit_fails("http") /\ HttpGoto("failed") /\ UNCHANGED <<queue, sched, watch>>
    <3>1. disk' = disk /\ view' = disk /\ http'.pc = "failed" /\ http'.op = http.op
      BY <1>9, <1>0, <2>4 DEF db_commit_fails, HttpGoto
    <3>2. Complete'
      BY <1>9, <1>0, <3>1 DEF Complete, Halves, Batching, Purging, Keyed, Matching, Submitting, Grows, BatchPc
    <3>3. Known'
      BY <1>9, <1>0, <2>4, <3>1 DEF Known, Listed, RetryPc
    <3>4. QED
      BY <3>2, <3>3
  <2>5. QED
    BY <1>9, <1>0, <2>1, <2>3, <2>4, Zenon DEF BatchCommit, NotActive
<1>10. CASE RollbackTest
  <2>1. /\ UNCHANGED <<disk, view, mutex, txn>> /\ UNCHANGED others
        /\ http'.op = http.op /\ http'.pc \in {"rollback", "answer"}
    BY <1>10, <1>0 DEF RollbackTest, connection, HttpGoto
  <2>2. http'.pc = "answer" => mutex # "http"
    BY <1>10, <1>0 DEF RollbackTest, HttpGoto, Owned
  <2>8. Complete'
    BY <1>10, <1>0, <2>1, <2>2 DEF Complete, Halves, Batching, Purging, Keyed, Matching, Submitting, BatchPc
  <2>9. Known'
    BY <1>10, <1>0, <2>1 DEF Known, Listed, RetryPc, Grows, others
  <2>10. QED
    BY <2>8, <2>9
<1>11. CASE RollbackExec
  <2>1. /\ UNCHANGED disk /\ view' = disk /\ UNCHANGED others
        /\ http'.op = http.op /\ http'.pc = "leave"
    BY <1>11, <1>0 DEF RollbackExec, Rollback, HttpGoto
  <2>8. Complete'
    BY <1>11, <1>0, <2>1 DEF Complete, Halves, Batching, Purging, Keyed, Matching, Submitting, BatchPc, Grows
  <2>9. Known'
    BY <1>11, <1>0, <2>1 DEF Known, Listed, RetryPc, Grows, others
  <2>10. QED
    BY <2>8, <2>9
<1>12. CASE RollbackDone
  <2>1. /\ UNCHANGED <<disk, view>> /\ UNCHANGED others
        /\ http'.op = http.op /\ http'.pc = "answer" /\ http.pc = "leave"
    BY <1>12, <1>0 DEF RollbackDone, RollbackLeave, HttpGoto
  <2>2. ~(mutex = "http" /\ txn = "kept") /\ (mutex = "http" => view = disk)
    BY <2>1, <1>12, <1>0 DEF Owned, Stored
  <2>3. mutex' # "http" => Grows(view, disk)
    BY <1>12, <1>0, <2>2 DEF RollbackDone, RollbackLeave, Left, Matching, Grows
  <2>8. Complete'
    BY <1>12, <1>0, <2>1, <2>2, <2>3 DEF Complete, Halves, Batching, Purging, Keyed, Matching, Submitting, BatchPc
  <2>9. Known'
    BY <1>12, <1>0, <2>1 DEF Known, Listed, RetryPc, Grows, others
  <2>10. QED
    BY <2>8, <2>9
<1>13. CASE AnswerFailure
  <2>1. /\ UNCHANGED <<disk, view, mutex>> /\ UNCHANGED others
        /\ http'.op = "none" /\ http'.pc = "idle" /\ http.pc = "answer"
    BY <1>13, <1>0 DEF AnswerFailure, connection, HttpDone, HttpIdle
  <2>8. Complete'
    BY <1>13, <1>0, <2>1 DEF Complete, Halves, Batching, Purging, Keyed, Matching, Submitting, BatchPc
  <2>9. Known'
    BY <1>13, <1>0, <2>1 DEF Known, Listed, RetryPc, Grows, others
  <2>10. QED
    BY <2>8, <2>9
<1>14. CASE PurgeKeys
  <2>1. Whole(view) /\ http.op # "batch" /\ mutex = "http"
    BY <1>14, <1>0 DEF PurgeKeys, Owned, HttpWrites
  <2>2. /\ view' = DeleteKeys(view) /\ UNCHANGED <<disk, mutex, txn>> /\ UNCHANGED others
        /\ http'.pc = "purge_jobs" /\ http'.op = http.op
    BY <1>14, <1>0 DEF PurgeKeys, ExecInside, HttpGoto
  <2>3. Whole(view') /\ view'.job = view.job /\ \A j \in view'.key : view'.job[j] \notin Terminal
    BY <1>14, <1>0, <2>1, <2>2, KeysAreDeleted
  <2>4. Grows(disk, view')
    BY <1>14, <1>0, <2>3 DEF Grows, Exists
  <2>8. Complete'
    BY <1>14, <1>0, <2>1, <2>2, <2>3, <2>4 DEF Complete, Halves, Batching, Purging, Keyed, Matching, Submitting, BatchPc
  <2>9. Known'
    BY <1>14, <1>0, <2>2 DEF Known, Listed, RetryPc, Grows, others
  <2>10. QED
    BY <2>8, <2>9
<1>15. CASE PurgeJobs
  <2>1. Whole(view) /\ http.op # "batch" /\ mutex = "http" /\ \A j \in view.key : view.job[j] \notin Terminal
    BY <1>15, <1>0 DEF PurgeJobs, Owned, HttpWrites
  <2>2. /\ view' = DeleteJobs(view) /\ UNCHANGED <<disk, mutex, txn>> /\ UNCHANGED others
        /\ http'.pc = "purge_commit" /\ http'.op = http.op
    BY <1>15, <1>0 DEF PurgeJobs, ExecInside, HttpGoto
  <2>3. Whole(view') /\ Grows(disk, view')
    BY <1>15, <1>0, <2>1, <2>2, JobsAreDeleted DEF Grows
  <2>8. Complete'
    BY <1>15, <1>0, <2>1, <2>2, <2>3 DEF Complete, Halves, Batching, Purging, Keyed, Matching, Submitting, BatchPc
  <2>9. Known'
    BY <1>15, <1>0, <2>2 DEF Known, Listed, RetryPc, Grows, others
  <2>10. QED
    BY <2>8, <2>9
<1>16. CASE PurgeStatementFails
  <2>1. Whole(view) /\ http.op # "batch"
    BY <1>16, <1>0 DEF PurgeStatementFails
  <2>2. /\ UNCHANGED <<disk, view, mutex, txn>> /\ UNCHANGED others
        /\ http'.pc = "failed" /\ http'.op = http.op
    BY <1>16, <1>0 DEF PurgeStatementFails, connection, HttpGoto
  <2>8. Complete'
    BY <1>16, <1>0, <2>1, <2>2 DEF Complete, Halves, Batching, Purging, Keyed, Matching, Submitting, BatchPc
  <2>9. Known'
    BY <1>16, <1>0, <2>2 DEF Known, Listed, RetryPc, Grows, others
  <2>10. QED
    BY <2>8, <2>9
<1>17. CASE PurgeCommit
  <2>1. Whole(view) /\ http.op # "batch" /\ active
    BY <1>17, <1>0 DEF PurgeCommit, Owned, HttpWrites
  <2>2. /\ (disk' = view /\ view' = view) \/ (disk' = disk /\ view' = disk)
        /\ UNCHANGED others /\ http'.pc \in {"failed", "idle"} /\ http'.op # "batch"
    BY <1>17, <1>0, <2>1 DEF PurgeCommit, db_commit, db_commit_fails, NotActive, connection, HttpGoto, HttpDone, HttpIdle
  <2>8. Complete'
    BY <1>17, <1>0, <2>1, <2>2 DEF Complete, Halves, Batching, Purging, Keyed, Matching, Submitting, BatchPc, Grows
  <2>9. Known'
    BY <1>17, <1>0, <2>2 DEF Known, Listed, RetryPc, Grows, others
  <2>10. QED
    BY <2>8, <2>9
<1>18. CASE RetryRow
  <2>1. Whole(view) /\ http.op # "batch" /\ http.job \in Jobs /\ Exists(view, http.job)
    BY <1>18, <1>0 DEF RetryRow, RetryPc
  <2>2. /\ view' = SetStatus(view, http.job, "QUEUED") \/ view' = view
        /\ UNCHANGED <<disk, mutex, txn>> /\ UNCHANGED others
        /\ http'.pc = "retry_changes" /\ http'.op = http.op /\ http'.job = http.job /\ http.pc \in RetryPc
    BY <1>18, <1>0 DEF RetryRow, ExecInside, HttpGoto, RetryPc
  <2>3. Whole(view') /\ Grows(disk, view') /\ (mutex # "http" => Grows(view', disk))
    <3>1. CASE view' = view
      BY <1>0, <2>1, <3>1 DEF Matching
    <3>2. CASE view' = SetStatus(view, http.job, "QUEUED")
      <4>1. view' \in Database /\ Steady(view, view') /\ \A i \in Jobs : Exists(view', i) => Exists(view, i)
        BY <1>0, <2>1, <3>2, StatusIsSteady, SetStatusType DEF Row, Live
      <4>2. mutex # "http" => Grows(view', disk)
        BY <1>0, <4>1 DEF Matching, Grows
      <4>3. QED
        BY <1>0, <2>1, <4>1, <4>2, SteadyIsWhole DEF Steady, Grows
    <3>3. QED
      BY <2>2, <3>1, <3>2
  <2>8. Complete'
    BY <1>0, <2>1, <2>2, <2>3 DEF Complete, Halves, Batching, Purging, Keyed, Matching, Submitting, BatchPc
  <2>9. Known'
    BY <1>0, <2>2 DEF Known, Listed, RetryPc, Grows, others
  <2>10. QED
    BY <2>8, <2>9
<1>19. CASE RetryChanges
  <2>1. Whole(view) /\ http.op # "batch" /\ http.job \in Jobs /\ Exists(view, http.job)
    BY <1>19, <1>0 DEF RetryChanges, RetryPc
  <2>2. /\ UNCHANGED <<disk, view, mutex, txn>> /\ UNCHANGED others
        /\ http'.pc \in {"retry_artifacts", "retry_rollback"} /\ http'.op = http.op /\ http'.job = http.job /\ http.pc \in RetryPc
    BY <1>19, <1>0 DEF RetryChanges, connection, HttpGoto, RetryPc
  <2>8. Complete'
    BY <1>0, <2>1, <2>2 DEF Complete, Halves, Batching, Purging, Keyed, Matching, Submitting, BatchPc
  <2>9. Known'
    BY <1>0, <2>2 DEF Known, Listed, RetryPc, Grows, others
  <2>10. QED
    BY <2>8, <2>9
<1>20. CASE RetryArtifacts
  <2>1. Whole(view) /\ http.op # "batch" /\ http.job \in Jobs /\ Exists(view, http.job)
    BY <1>20, <1>0 DEF RetryArtifacts, RetryPc
  <2>2. /\ view' = DeleteArtifacts(view, http.job)
        /\ UNCHANGED <<disk, mutex, txn>> /\ UNCHANGED others
        /\ http'.pc = "retry_commit" /\ http'.op = http.op /\ http'.job = http.job /\ http.pc \in RetryPc
    BY <1>20, <1>0 DEF RetryArtifacts, ExecInside, HttpGoto, RetryPc
  <2>3. Steady(view, view') /\ view'.job = view.job
    BY <1>0, <2>2, OthersAreSteady
  <2>4. Whole(view') /\ Grows(disk, view')
    BY <1>0, <2>1, <2>2, <2>3, SteadyIsWhole, ArtifactsType, ZenonT(30) DEF Steady, Grows, Exists
  <2>5. mutex # "http" => Grows(view', disk)
    BY <1>0, <2>3 DEF Matching, Grows, Exists
  <2>8. Complete'
    BY <1>0, <2>1, <2>2, <2>4, <2>5 DEF Complete, Halves, Batching, Purging, Keyed, Matching, Submitting, BatchPc
  <2>9. Known'
    BY <1>0, <2>2 DEF Known, Listed, RetryPc, Grows, others
  <2>10. QED
    BY <2>8, <2>9
<1>21. CASE RetryStatementFails
  <2>1. Whole(view) /\ http.op # "batch" /\ http.job \in Jobs /\ Exists(view, http.job)
    BY <1>21, <1>0 DEF RetryStatementFails, RetryPc
  <2>2. /\ UNCHANGED <<disk, view, mutex, txn>> /\ UNCHANGED others
        /\ http'.pc = "retry_rollback" /\ http'.op = http.op /\ http'.job = http.job /\ http.pc \in RetryPc
    BY <1>21, <1>0 DEF RetryStatementFails, connection, HttpGoto, RetryPc
  <2>8. Complete'
    BY <1>0, <2>1, <2>2 DEF Complete, Halves, Batching, Purging, Keyed, Matching, Submitting, BatchPc
  <2>9. Known'
    BY <1>0, <2>2 DEF Known, Listed, RetryPc, Grows, others
  <2>10. QED
    BY <2>8, <2>9
<1>22. CASE RetryCommit
  <2>1. Whole(view) /\ http.op # "batch" /\ http.job \in Jobs /\ Exists(view, http.job)
    BY <1>22, <1>0 DEF RetryCommit, RetryPc
  <2>2. /\ disk' = view /\ view' = view /\ UNCHANGED <<sched, watch>>
        /\ queue' = queue \cup {http.job} /\ http'.pc = "idle" /\ http'.op = "none"
    BY <1>22, <1>0 DEF RetryCommit, HttpDone, HttpIdle
  <2>8. Complete'
    BY <1>0, <2>1, <2>2 DEF Complete, Halves, Batching, Purging, Keyed, Matching, Submitting, BatchPc, Grows
  <2>9. Known'
    BY <1>0, <2>1, <2>2 DEF Known, Listed, RetryPc, Grows
  <2>10. QED
    BY <2>8, <2>9
<1>23. CASE RetryRollback
  <2>2. /\ UNCHANGED disk /\ view' = disk /\ UNCHANGED others
        /\ http'.pc = "idle" /\ http'.op = "none"
    BY <1>23, <1>0 DEF RetryRollback, Rollback, HttpDone, HttpIdle
  <2>8. Complete'
    BY <1>0, <2>2 DEF Complete, Halves, Batching, Purging, Keyed, Matching, Submitting, BatchPc, Grows
  <2>9. Known'
    BY <1>0, <2>2 DEF Known, Listed, RetryPc, Grows, others
  <2>10. QED
    BY <2>8, <2>9
<1>24. QED
  BY <1>1, <1>2, <1>3, <1>4, <1>5, <1>51, <1>6, <1>7, <1>8, <1>9, <1>10, <1>11, <1>12, <1>13, <1>14, <1>15, <1>16, <1>17, <1>18, <1>19, <1>20, <1>21, <1>22, <1>23 DEF HttpStep

\* The empty database is whole.
LEMMA InitComplete == Init => Complete /\ Known
<1> SUFFICES ASSUME Init PROVE Complete /\ Known
  OBVIOUS
<1>1. Whole(Empty) /\ Grows(Empty, Empty)
  BY DEF Whole, KeysPresent, Grows, Empty
<1>2. Complete
  BY <1>1 DEF Init, Complete, Halves, Batching, Purging, Keyed, Matching, Submitting, HttpIdle
<1>3. Known
  BY DEF Init, Known, Listed, HttpIdle, SchedIdle, RetryPc
<1>4. QED
  BY <1>2, <1>3

\* Every step keeps the invariant.
LEMMA StepComplete ==
  Typed /\ Owned /\ Stored /\ Complete /\ Known /\ [Next]_vars => (Complete /\ Known)'
BY HttpComplete, SchedComplete, PeriodicComplete, WatchComplete DEF Next

\* It holds in every state.
LEMMA CompleteAlways == Spec => [](Typed /\ Complete /\ Known)
BY InitTyped, StepTyped, InitOwned, StepOwned, InitStored, StepStored, InitComplete, StepComplete,
   PTL DEF Spec

(***************************************************************************)
(* A batch and its jobs are in the file together or not at all             *)
(* (batches.c:90-177), and so are the keys of present jobs after a purge   *)
(* (db.c:1182-1207): whatever fails, whoever rolls back, whenever the      *)
(* daemon dies.                                                            *)
(***************************************************************************)
THEOREM BatchesAreWhole == Spec => []AllOrNothing
<1>1. Complete => AllOrNothing
  BY DEF Complete, Halves, Whole, KeysPresent, AllOrNothing
<1>2. QED
  BY <1>1, CompleteAlways, PTL

(***************************************************************************)
(* Jobs of a batch are queued only once the batch is in the file, and "no  *)
(* jobs were committed" (batches.c:176) is answered only when it is not.   *)
(***************************************************************************)
THEOREM BatchAnswers == Spec => []BatchAnswerIsTrue
<1>1. ASSUME Typed, Complete, Known PROVE BatchAnswerIsTrue
  <2>1. ASSUME NEW j \in queue \cap Batch PROVE disk.batch
    <3>1. Exists(disk, j)
      BY <1>1, <2>1 DEF Known, Listed
    <3>2. QED
      BY <1>1, <2>1, <3>1 DEF Complete, Halves, Whole, Exists
  <2>2. http.pc = "answer" /\ http.op = "batch" => ~disk.batch
    BY <1>1 DEF Complete, Batching
  <2>3. QED
    BY <2>1, <2>2 DEF BatchAnswerIsTrue
<1>2. QED
  BY <1>1, CompleteAlways, PTL

-----------------------------------------------------------------------------
(* Retried jobs and their artifacts.  As long as nobody writes inside the  *)
(* transaction of another, the row of a waiting job has no artifacts: only *)
(* a watcher adds them, and a job that has a watcher is not waiting.       *)

Waiting == {"CREATED", "QUEUED"}

Fresh(d, j) == d.job[j] \in Waiting => j \notin d.artifacts

Retrying(j) == http.pc \in RetryPc /\ http.job = j

\* Between its two statements the retry has made the row QUEUED and not yet
\* deleted the artifacts.
Freshness ==
  /\ \A j \in Jobs : Fresh(disk, j)
  /\ \A j \in Jobs :
       \/ Fresh(view, j)
       \/ Retrying(j) /\ http.pc \in {"retry_changes", "retry_artifacts", "retry_rollback"}
  /\ \A j \in Jobs : j \in disk.artifacts => Exists(disk, j)
  /\ \A j \in Jobs : j \in view.artifacts => Exists(view, j)

\* retry_job asks executor_is_active, and no execution starts during a retry.
Watched ==
  \A j \in Jobs : watch[j] # "none" =>
    disk.job[j] \notin Waiting /\ view.job[j] \notin Waiting /\ ~Retrying(j)

\* The scheduler starts jobs whose rows are QUEUED, and none of those that the
\* HTTP thread is still submitting.
Held ==
  /\ sched.pc \in Starting =>
       /\ disk.job[sched.job] = "QUEUED" /\ view.job[sched.job] = "QUEUED"
       /\ ~Retrying(sched.job)
  /\ http.pc \in Submitting =>
       /\ disk.job[http.job] = "QUEUED" /\ view.job[http.job] = "QUEUED"
       /\ http.job \notin queue
       /\ sched.pc # "idle" => sched.job # http.job

\* What a transaction has not committed concerns the jobs of its own thread.
Apart ==
  /\ http.pc \in RetryPc => http.job \notin queue
  /\ txn = "plain" => \A j \in Jobs : j = http.job \/ view.job[j] = disk.job[j]
  /\ mutex = "sched" => view.job = disk.job
  /\ http.pc \in {"batch", "batch_jobs"} => \A j \in http.todo : view.job[j] = "none"

Clean == guest \/ (Freshness /\ Watched /\ Held /\ Apart)

\* What the statements do to rows and artifacts.
LEMMA StatusFacts ==
  ASSUME NEW d \in Database, NEW j \in Jobs, NEW s
  PROVE  /\ SetStatus(d, j, s).artifacts = d.artifacts
         /\ \A i \in Jobs : SetStatus(d, j, s).job[i] =
              IF i = j /\ d.job[j] # "purged" THEN s ELSE d.job[i]
BY DEF SetStatus, Database

LEMMA OtherFacts ==
  ASSUME NEW d \in Database, NEW j, NEW m,
         NEW e \in {InsertKey(d, j), InsertBatch(d), InsertAllocation(d, j, m),
                    ReleaseAllocation(d, j), DeleteKeys(d)}
  PROVE  e.artifacts = d.artifacts /\ e.job = d.job
BY DEF InsertKey, InsertBatch, InsertAllocation, ReleaseAllocation, DeleteKeys, Database

LEMMA ArtifactFacts ==
  ASSUME NEW d \in Database, NEW j
  PROVE  /\ UpsertArtifact(d, j).job = d.job /\ UpsertArtifact(d, j).artifacts = d.artifacts \cup {j}
         /\ DeleteArtifacts(d, j).job = d.job /\ DeleteArtifacts(d, j).artifacts = d.artifacts \ {j}
BY DEF UpsertArtifact, DeleteArtifacts, Database

LEMMA SweepFacts ==
  ASSUME NEW d \in Database
  PROVE  /\ DeleteJobs(d).artifacts = d.artifacts /\ Recovered(d).artifacts = d.artifacts
         /\ \A i \in Jobs : /\ DeleteJobs(d).job[i] = IF d.job[i] \in Terminal THEN "purged" ELSE d.job[i]
                            /\ Recovered(d).job[i] = IF d.job[i] = "RUNNING" THEN "FAILED" ELSE d.job[i]
BY DEF DeleteJobs, Recovered, Database

\* A statement outside of transactions goes into the file alone.
LEMMA ExecAlone ==
  ASSUME Typed, Owned, Stored, NEW t \in {"http", "sched", "watch"}, NEW new, NEW ack, NEW n,
         Exec(t, new, ack, n), ~guest',
         t = "http" => http.pc \in {"idle", "key", "hold"}, t = "sched" => sched.pc \notin Inside.sched
  PROVE  /\ view = disk /\ view' = new /\ disk' = new
         /\ txn = "none" /\ txn' = "none" /\ mutex' = mutex
         /\ disk \in Database /\ view \in Database
<1>1. txn # "plain"
  BY DEF Exec
<1>2. txn # "kept"
  BY ConnectionParameters DEF Exec, MayExec, Abandoned, Typed, ConnectionTyped, Owned, Inside
<1>3. txn = "none"
  BY <1>1, <1>2 DEF Typed, ConnectionTyped
<1>4. QED
  BY <1>3 DEF Exec, Stored, Typed, ConnectionTyped

\* Steps of the HTTP thread.
LEMMA HttpClean ==
  ASSUME Typed, Owned, Stored, Complete, Known, Freshness, Watched, Held, Apart, ~guest',
         \/ \E j \in Jobs : SubmitInsert(j) \/ RetryBegin(j)
         \/ BatchBegin \/ PurgeBegin \/ HttpStep
  PROVE  (Freshness /\ Watched /\ Held /\ Apart)'
<1>0. /\ disk \in Database /\ view \in Database
      /\ \A j \in Jobs : watch[j] # "none" => Exists(disk, j) /\ Exists(view, j)
      /\ \A j \in Batch : j \in Jobs /\ (disk.batch <=> Exists(disk, j))
      /\ http.op = "batch" => ~disk.batch
      /\ mutex \in {Nobody, "http", "sched"} /\ Nobody \notin {"http", "sched"}
      /\ sched.pc # "idle" => sched.job \in Jobs
      /\ http.pc \in RetryPc \cup Submitting => http.job \in Jobs
      /\ \A j \in Jobs : j \in queue \/ (sched.pc # "idle" /\ sched.job = j) => Exists(disk, j)
      /\ http.todo \subseteq Batch
  BY ConnectionParameters DEF Typed, ConnectionTyped, ThreadsTyped, Addressed, Complete, Halves,
     Batching, Whole, Known, Listed, Grows, Exists, Jobs
<1>01. /\ txn = "plain" <=> http.pc \in RetryPc
       /\ txn = "none" => view = disk
       /\ http.pc \in HttpWrites => txn = "kept" /\ mutex = "http"
       /\ sched.pc \in {"insert", "commit"} => txn = "kept" /\ mutex = "sched"
       /\ sched.pc = "rollback" => mutex = "sched"
       /\ txn = "plain" => mutex = Nobody
       /\ txn = "kept" => mutex \in {"http", "sched"}
  BY DEF Owned, Stored, Inside, Typed, ConnectionTyped
<1>1. ASSUME NEW j \in Jobs, SubmitInsert(j) PROVE (Freshness /\ Watched /\ Held /\ Apart)'
  <2>00. /\ Exec("http", SetStatus(view, j, "QUEUED"), SetStatus(promised, j, "QUEUED"), 1)
         /\ http.pc = "idle" /\ view.job[j] = "none"
    BY <1>1 DEF SubmitInsert
  <2>0. view = disk /\ disk' = view' /\ view' = SetStatus(view, j, "QUEUED")
    BY <2>00, ExecAlone
  <2>1. /\ \A i \in Jobs : view'.job[i] = IF i = j THEN "QUEUED" ELSE view.job[i]
        /\ view'.artifacts = view.artifacts /\ view = disk /\ disk' = view' /\ view.job[j] = "none"
    BY <1>0, <2>00, <2>0, StatusFacts
  <2>2. /\ http.pc = "idle"
        /\ http'.pc = "key" /\ http'.job = j
        /\ UNCHANGED <<queue, sched, watch, mutex>> /\ txn' = "none"
    BY <1>0, <1>01, <1>1, ExecAlone DEF SubmitInsert, HttpIdle, connection, others, Left,
       RetryPc, Exec, Typed, ThreadsTyped
  <2>3. Freshness'
    BY <1>0, <1>01, <2>1, <2>2 DEF Freshness, Watched, Held, Apart, Fresh, Exists, Retrying,
       RetryPc, Submitting, Starting, Waiting, HttpWrites, Terminal
  <2>4. Watched'
    BY <1>0, <1>01, <2>1, <2>2 DEF Watched, Held, Apart, Exists, Retrying, RetryPc,
       Submitting, Starting, Waiting, HttpWrites, Terminal
  <2>5. Held'
    BY <1>0, <1>01, <2>1, <2>2 DEF Watched, Held, Apart, Exists, Retrying, RetryPc,
       Submitting, Starting, Waiting, HttpWrites, Terminal
  <2>6. Apart'
    BY <1>0, <1>01, <2>1, <2>2 DEF Held, Apart, Exists, Retrying, RetryPc, HttpWrites,
       Submitting, Starting
  <2>7. QED
    BY <2>3, <2>4, <2>5, <2>6
<1>2. ASSUME NEW j \in Jobs, RetryBegin(j) PROVE (Freshness /\ Watched /\ Held /\ Apart)'
  <2>1. disk' = disk /\ view' = view /\ view = disk /\ view.job[j] = "FAILED"
    BY <1>0, <1>01, <1>2 DEF RetryBegin, connection
  <2>2. /\ http.pc = "idle" /\ watch[j] = "none"
        /\ http'.pc = "retry_row" /\ http'.job = j
        /\ queue' = queue \ {j} /\ txn' = "plain" /\ UNCHANGED <<sched, watch, mutex>>
    BY <1>0, <1>01, <1>2 DEF RetryBegin, HttpIdle, connection, others, Left, RetryPc, Typed,
       ThreadsTyped
  <2>3. Freshness'
    BY <1>0, <1>01, <2>1, <2>2 DEF Freshness, Watched, Held, Apart, Fresh, Exists, Retrying,
       RetryPc, Submitting, Starting, Waiting, HttpWrites, Terminal
  <2>4. Watched'
    BY <1>0, <1>01, <2>1, <2>2 DEF Watched, Held, Apart, Exists, Retrying, RetryPc,
       Submitting, Starting, Waiting, HttpWrites, Terminal
  <2>5. Held'
    BY <1>0, <1>01, <2>1, <2>2 DEF Watched, Held, Apart, Exists, Retrying, RetryPc,
       Submitting, Starting, Waiting, HttpWrites, Terminal
  <2>6. Apart'
    BY <1>0, <1>01, <2>1, <2>2 DEF Held, Apart, Exists, Retrying, RetryPc, HttpWrites,
       Submitting, Starting
  <2>7. QED
    BY <2>3, <2>4, <2>5, <2>6
<1>3. CASE BatchBegin
  <2>1. disk' = disk /\ view' = view /\ \A i \in Batch : view.job[i] = "none"
    BY <1>0, <1>01, <1>3 DEF BatchBegin, db_begin, db_begin_fails, Fails, connection
  <2>2. /\ http.pc = "idle" /\ http'.pc \in {"batch", "failed"} /\ (http'.pc = "batch" => http'.todo = Batch)
        /\ UNCHANGED <<queue, sched, watch>> /\ mutex' \in {mutex, "http"} /\ txn' \in {txn, "kept"}
    BY <1>0, <1>01, <1>3 DEF BatchBegin, db_begin, db_begin_fails, Fails, HttpIdle,
       connection, others, Left, RetryPc, Typed, ThreadsTyped
  <2>3. Freshness'
    BY <1>0, <1>01, <2>1, <2>2 DEF Freshness, Watched, Held, Apart, Fresh, Exists, Retrying,
       RetryPc, Submitting, Starting, Waiting, HttpWrites, Terminal
  <2>4. Watched'
    BY <1>0, <1>01, <2>1, <2>2 DEF Watched, Held, Apart, Exists, Retrying, RetryPc,
       Submitting, Starting, Waiting, HttpWrites, Terminal
  <2>5. Held'
    BY <1>0, <1>01, <2>1, <2>2 DEF Watched, Held, Apart, Exists, Retrying, RetryPc,
       Submitting, Starting, Waiting, HttpWrites, Terminal
  <2>6. Apart'
    BY <1>0, <1>01, <2>1, <2>2 DEF Held, Apart, Exists, Retrying, RetryPc, HttpWrites,
       Submitting, Starting
  <2>7. QED
    BY <2>3, <2>4, <2>5, <2>6
<1>4. CASE PurgeBegin
  <2>1. disk' = disk /\ view' = view
    BY <1>0, <1>01, <1>4 DEF PurgeBegin, db_begin, db_begin_fails, Fails, connection
  <2>2. /\ http.pc = "idle" /\ http'.pc \in {"idle", "purge_keys"}
        /\ UNCHANGED <<queue, sched, watch>> /\ mutex' \in {mutex, "http"} /\ txn' \in {txn, "kept"}
    BY <1>0, <1>01, <1>4 DEF PurgeBegin, db_begin, db_begin_fails, Fails, HttpGoto,
       connection, others, Left, RetryPc, Typed, ThreadsTyped
  <2>3. Freshness'
    BY <1>0, <1>01, <2>1, <2>2 DEF Freshness, Watched, Held, Apart, Fresh, Exists, Retrying,
       RetryPc, Submitting, Starting, Waiting, HttpWrites, Terminal
  <2>4. Watched'
    BY <1>0, <1>01, <2>1, <2>2 DEF Watched, Held, Apart, Exists, Retrying, RetryPc,
       Submitting, Starting, Waiting, HttpWrites, Terminal
  <2>5. Held'
    BY <1>0, <1>01, <2>1, <2>2 DEF Watched, Held, Apart, Exists, Retrying, RetryPc,
       Submitting, Starting, Waiting, HttpWrites, Terminal
  <2>6. Apart'
    BY <1>0, <1>01, <2>1, <2>2 DEF Held, Apart, Exists, Retrying, RetryPc, HttpWrites,
       Submitting, Starting
  <2>7. QED
    BY <2>3, <2>4, <2>5, <2>6
<1>5. CASE SubmitKey
  <2>1. /\ view'.job = view.job /\ view'.artifacts = view.artifacts
        /\ view = disk /\ disk' = view'
    BY <1>0, <1>5, ExecAlone, OtherFacts DEF SubmitKey
  <2>0. txn' = "none" /\ UNCHANGED <<sched, watch, mutex>> /\ http.pc = "key"
    BY <1>5, ExecAlone DEF SubmitKey, Exec
  <2>2. /\ txn' = "none" /\ UNCHANGED <<sched, watch, mutex>> /\ http.pc = "key"
        /\ \/ http'.pc = "idle" /\ queue' = queue \cup {http.job}
           \/ http'.pc = "hold" /\ http'.job = http.job /\ queue' = queue
    <3>1. CASE queue' = queue \cup {http.job} /\ HttpDone
      BY <2>0, <3>1 DEF HttpDone, HttpIdle
    <3>2. CASE HttpGoto("hold") /\ UNCHANGED queue
      BY <2>0, <3>2 DEF HttpGoto, Typed, ThreadsTyped
    <3>3. QED
      BY <1>5, <3>1, <3>2 DEF SubmitKey
  <2>3. Freshness'
    BY <1>0, <1>01, <2>1, <2>2 DEF Freshness, Watched, Held, Apart, Fresh, Exists, Retrying,
       RetryPc, Submitting, Starting, Waiting, HttpWrites, Terminal
  <2>4. Watched'
    BY <1>0, <1>01, <2>1, <2>2 DEF Watched, Held, Apart, Exists, Retrying, RetryPc,
       Submitting, Starting, Waiting, HttpWrites, Terminal
  <2>5. Held'
    BY <1>0, <1>01, <2>1, <2>2 DEF Watched, Held, Apart, Exists, Retrying, RetryPc,
       Submitting, Starting, Waiting, HttpWrites, Terminal
  <2>6. Apart'
    BY <1>0, <1>01, <2>1, <2>2 DEF Held, Apart, Exists, Retrying, RetryPc, HttpWrites,
       Submitting, Starting
  <2>7. QED
    BY <2>3, <2>4, <2>5, <2>6
<1>51. CASE SubmitHold
  <2>00. /\ Exec("http", SetStatus(view, http.job, "CREATED"), SetStatus(promised, http.job, "CREATED"), 1)
         /\ http.pc = "hold" /\ http.job \in Jobs
    BY <1>0, <1>51 DEF SubmitHold, Submitting
  <2>0. view = disk /\ disk' = view' /\ view' = SetStatus(view, http.job, "CREATED") /\ txn' = "none"
    BY <2>00, ExecAlone
  <2>1. /\ \A i \in Jobs : view'.job[i] = IF i = http.job THEN "CREATED" ELSE view.job[i]
        /\ view'.artifacts = view.artifacts /\ view = disk /\ disk' = view' /\ view.job[http.job] = "QUEUED"
    BY <1>0, <2>00, <2>0, StatusFacts DEF Held, Submitting
  <2>2. /\ http.pc = "hold" /\ http'.pc = "idle" /\ txn' = "none"
        /\ UNCHANGED <<queue, sched, watch, mutex>>
    BY <1>51, <2>0 DEF SubmitHold, HttpDone, HttpIdle, others, Exec
  <2>3. Freshness'
    BY <1>0, <1>01, <2>1, <2>2 DEF Freshness, Watched, Held, Apart, Fresh, Exists, Retrying,
       RetryPc, Submitting, Starting, Waiting, HttpWrites, Terminal
  <2>4. Watched'
    BY <1>0, <1>01, <2>1, <2>2 DEF Watched, Held, Apart, Exists, Retrying, RetryPc,
       Submitting, Starting, Waiting, HttpWrites, Terminal
  <2>5. Held'
    BY <1>0, <1>01, <2>1, <2>2 DEF Watched, Held, Apart, Exists, Retrying, RetryPc,
       Submitting, Starting, Waiting, HttpWrites, Terminal
  <2>6. Apart'
    BY <1>0, <1>01, <2>1, <2>2 DEF Held, Apart, Exists, Retrying, RetryPc, HttpWrites,
       Submitting, Starting
  <2>7. QED
    BY <2>3, <2>4, <2>5, <2>6
<1>6. CASE BatchInsert
  <2>1. /\ disk' = disk /\ view'.job = view.job /\ view'.artifacts = view.artifacts
    BY <1>0, <1>01, <1>6, OtherFacts DEF BatchInsert, ExecInside, connection
  <2>2. /\ http.pc = "batch"
        /\ http'.pc = "batch_jobs" /\ http'.job = http.job /\ http'.todo = http.todo
        /\ UNCHANGED <<queue, sched, watch, mutex, txn>>
    BY <1>0, <1>01, <1>6 DEF BatchInsert, ExecInside, HttpGoto, connection, others, Left,
       RetryPc, Typed, ThreadsTyped
  <2>3. Freshness'
    BY <1>0, <1>01, <2>1, <2>2 DEF Freshness, Watched, Held, Apart, Fresh, Exists, Retrying,
       RetryPc, Submitting, Starting, Waiting, HttpWrites, Terminal
  <2>4. Watched'
    BY <1>0, <1>01, <2>1, <2>2 DEF Watched, Held, Apart, Exists, Retrying, RetryPc,
       Submitting, Starting, Waiting, HttpWrites, Terminal
  <2>5. Held'
    BY <1>0, <1>01, <2>1, <2>2 DEF Watched, Held, Apart, Exists, Retrying, RetryPc,
       Submitting, Starting, Waiting, HttpWrites, Terminal
  <2>6. Apart'
    BY <1>0, <1>01, <2>1, <2>2 DEF Held, Apart, Exists, Retrying, RetryPc, HttpWrites,
       Submitting, Starting
  <2>7. QED
    BY <2>3, <2>4, <2>5, <2>6
<1>7. ASSUME NEW j \in Batch, BatchJob(j) PROVE (Freshness /\ Watched /\ Held /\ Apart)'
  <2>1. /\ \A i \in Jobs : view'.job[i] = IF i = j /\ view.job[j] # "purged" THEN "QUEUED" ELSE view.job[i]
        /\ view'.artifacts = view.artifacts /\ disk' = disk
    BY <1>0, <1>01, <1>7, StatusFacts DEF BatchJob, ExecInside, connection
  <2>2. /\ http.pc = "batch_jobs" /\ j \in http.todo
        /\ http'.pc = "batch_jobs" /\ http'.job = http.job /\ http'.todo = http.todo \ {j}
        /\ UNCHANGED <<queue, sched, watch, mutex, txn>>
    BY <1>0, <1>01, <1>7 DEF BatchJob, ExecInside, connection, others, Left, RetryPc, Typed,
       ThreadsTyped
  <2>3. Freshness'
    BY <1>0, <1>01, <2>1, <2>2 DEF Freshness, Watched, Held, Apart, Fresh, Exists, Retrying,
       RetryPc, Submitting, Starting, Waiting, HttpWrites, Terminal
  <2>4. Watched'
    BY <1>0, <1>01, <2>1, <2>2 DEF Watched, Held, Apart, Exists, Retrying, RetryPc,
       Submitting, Starting, Waiting, HttpWrites, Terminal
  <2>5. Held'
    BY <1>0, <1>01, <2>1, <2>2 DEF Watched, Held, Apart, Exists, Retrying, RetryPc,
       Submitting, Starting, Waiting, HttpWrites, Terminal
  <2>6. Apart'
    BY <1>0, <1>01, <2>1, <2>2 DEF Held, Apart, Exists, Retrying, RetryPc, HttpWrites,
       Submitting, Starting
  <2>7. QED
    BY <2>3, <2>4, <2>5, <2>6
<1>8. CASE BatchStatementFails
  <2>1. disk' = disk /\ view' = view
    BY <1>0, <1>01, <1>8 DEF BatchStatementFails, Fails, connection
  <2>2. /\ http.pc \notin RetryPc /\ http'.pc = "failed"
        /\ UNCHANGED <<queue, sched, watch, mutex, txn>>
    BY <1>0, <1>01, <1>8 DEF BatchStatementFails, Fails, HttpGoto, connection, others, Left,
       RetryPc, Typed, ThreadsTyped
  <2>3. Freshness'
    BY <1>0, <1>01, <2>1, <2>2 DEF Freshness, Watched, Held, Apart, Fresh, Exists, Retrying,
       RetryPc, Submitting, Starting, Waiting, HttpWrites, Terminal
  <2>4. Watched'
    BY <1>0, <1>01, <2>1, <2>2 DEF Watched, Held, Apart, Exists, Retrying, RetryPc,
       Submitting, Starting, Waiting, HttpWrites, Terminal
  <2>5. Held'
    BY <1>0, <1>01, <2>1, <2>2 DEF Watched, Held, Apart, Exists, Retrying, RetryPc,
       Submitting, Starting, Waiting, HttpWrites, Terminal
  <2>6. Apart'
    BY <1>0, <1>01, <2>1, <2>2 DEF Held, Apart, Exists, Retrying, RetryPc, HttpWrites,
       Submitting, Starting
  <2>7. QED
    BY <2>3, <2>4, <2>5, <2>6
<1>9. CASE BatchCommit
  <2>1. \/ disk' = view /\ view' = view
        \/ disk' = disk /\ view' = disk
        \/ disk' = disk /\ view' = view
    BY <1>0, <1>01, <1>9 DEF BatchCommit, db_commit, db_commit_fails, NotActive, Fails,
       connection
  <2>2. /\ http.pc = "batch_jobs" /\ http'.pc \in {"idle", "failed"} /\ mutex' \in {mutex, Nobody}
        /\ txn' \in {txn, "none"} /\ UNCHANGED <<sched, watch>>
    BY <1>0, <1>01, <1>9 DEF BatchCommit, db_commit, db_commit_fails, NotActive, Fails,
       HttpGoto, HttpDone, HttpIdle, connection, others, Left, RetryPc, Typed, ThreadsTyped
  <2>3. Freshness'
    BY <1>0, <1>01, <2>1, <2>2 DEF Freshness, Watched, Held, Apart, Fresh, Exists, Retrying,
       RetryPc, Submitting, Starting, Waiting, HttpWrites, Terminal
  <2>4. Watched'
    BY <1>0, <1>01, <2>1, <2>2 DEF Watched, Held, Apart, Exists, Retrying, RetryPc,
       Submitting, Starting, Waiting, HttpWrites, Terminal
  <2>5. Held'
    BY <1>0, <1>01, <2>1, <2>2 DEF Watched, Held, Apart, Exists, Retrying, RetryPc,
       Submitting, Starting, Waiting, HttpWrites, Terminal
  <2>6. Apart'
    BY <1>0, <1>01, <2>1, <2>2 DEF Held, Apart, Exists, Retrying, RetryPc, HttpWrites,
       Submitting, Starting
  <2>7. QED
    BY <2>3, <2>4, <2>5, <2>6
<1>10. CASE RollbackTest
  <2>1. disk' = disk /\ view' = view
    BY <1>0, <1>01, <1>10 DEF RollbackTest, connection
  <2>2. /\ http.pc = "failed" /\ http'.pc \in {"rollback", "answer"}
        /\ UNCHANGED <<queue, sched, watch, mutex, txn>>
    BY <1>0, <1>01, <1>10 DEF RollbackTest, HttpGoto, connection, others, Left, RetryPc,
       Typed, ThreadsTyped
  <2>3. Freshness'
    BY <1>0, <1>01, <2>1, <2>2 DEF Freshness, Watched, Held, Apart, Fresh, Exists, Retrying,
       RetryPc, Submitting, Starting, Waiting, HttpWrites, Terminal
  <2>4. Watched'
    BY <1>0, <1>01, <2>1, <2>2 DEF Watched, Held, Apart, Exists, Retrying, RetryPc,
       Submitting, Starting, Waiting, HttpWrites, Terminal
  <2>5. Held'
    BY <1>0, <1>01, <2>1, <2>2 DEF Watched, Held, Apart, Exists, Retrying, RetryPc,
       Submitting, Starting, Waiting, HttpWrites, Terminal
  <2>6. Apart'
    BY <1>0, <1>01, <2>1, <2>2 DEF Held, Apart, Exists, Retrying, RetryPc, HttpWrites,
       Submitting, Starting
  <2>7. QED
    BY <2>3, <2>4, <2>5, <2>6
<1>11. CASE RollbackExec
  <2>1. disk' = disk /\ view' = disk
    BY <1>0, <1>01, <1>11 DEF RollbackExec, Rollback, connection
  <2>2. /\ http.pc = "rollback" /\ http'.pc = "leave" /\ txn' = "none"
        /\ UNCHANGED <<queue, sched, watch, mutex>>
    BY <1>0, <1>01, <1>11 DEF RollbackExec, Rollback, HttpGoto, connection, others, Left,
       RetryPc, Typed, ThreadsTyped
  <2>3. Freshness'
    BY <1>0, <1>01, <2>1, <2>2 DEF Freshness, Watched, Held, Apart, Fresh, Exists, Retrying,
       RetryPc, Submitting, Starting, Waiting, HttpWrites, Terminal
  <2>4. Watched'
    BY <1>0, <1>01, <2>1, <2>2 DEF Watched, Held, Apart, Exists, Retrying, RetryPc,
       Submitting, Starting, Waiting, HttpWrites, Terminal
  <2>5. Held'
    BY <1>0, <1>01, <2>1, <2>2 DEF Watched, Held, Apart, Exists, Retrying, RetryPc,
       Submitting, Starting, Waiting, HttpWrites, Terminal
  <2>6. Apart'
    BY <1>0, <1>01, <2>1, <2>2 DEF Held, Apart, Exists, Retrying, RetryPc, HttpWrites,
       Submitting, Starting
  <2>7. QED
    BY <2>3, <2>4, <2>5, <2>6
<1>12. CASE RollbackDone
  <2>1. disk' = disk /\ view' = view
    BY <1>0, <1>01, <1>12 DEF RollbackDone, RollbackLeave, connection
  <2>2. /\ http.pc = "leave" /\ http'.pc = "answer" /\ mutex' \in {mutex, Nobody}
        /\ UNCHANGED <<queue, sched, watch, txn>>
    BY <1>0, <1>01, <1>12 DEF RollbackDone, RollbackLeave, Left, HttpGoto, connection,
       others, Left, RetryPc, Typed, ThreadsTyped
  <2>3. Freshness'
    BY <1>0, <1>01, <2>1, <2>2 DEF Freshness, Watched, Held, Apart, Fresh, Exists, Retrying,
       RetryPc, Submitting, Starting, Waiting, HttpWrites, Terminal
  <2>4. Watched'
    BY <1>0, <1>01, <2>1, <2>2 DEF Watched, Held, Apart, Exists, Retrying, RetryPc,
       Submitting, Starting, Waiting, HttpWrites, Terminal
  <2>5. Held'
    BY <1>0, <1>01, <2>1, <2>2 DEF Watched, Held, Apart, Exists, Retrying, RetryPc,
       Submitting, Starting, Waiting, HttpWrites, Terminal
  <2>6. Apart'
    BY <1>0, <1>01, <2>1, <2>2 DEF Held, Apart, Exists, Retrying, RetryPc, HttpWrites,
       Submitting, Starting
  <2>7. QED
    BY <2>3, <2>4, <2>5, <2>6
<1>13. CASE AnswerFailure
  <2>1. disk' = disk /\ view' = view
    BY <1>0, <1>01, <1>13 DEF AnswerFailure, connection
  <2>2. /\ http.pc = "answer" /\ http'.pc = "idle"
        /\ UNCHANGED <<queue, sched, watch, mutex, txn>>
    BY <1>0, <1>01, <1>13 DEF AnswerFailure, HttpDone, HttpIdle, connection, others, Left,
       RetryPc, Typed, ThreadsTyped
  <2>3. Freshness'
    BY <1>0, <1>01, <2>1, <2>2 DEF Freshness, Watched, Held, Apart, Fresh, Exists, Retrying,
       RetryPc, Submitting, Starting, Waiting, HttpWrites, Terminal
  <2>4. Watched'
    BY <1>0, <1>01, <2>1, <2>2 DEF Watched, Held, Apart, Exists, Retrying, RetryPc,
       Submitting, Starting, Waiting, HttpWrites, Terminal
  <2>5. Held'
    BY <1>0, <1>01, <2>1, <2>2 DEF Watched, Held, Apart, Exists, Retrying, RetryPc,
       Submitting, Starting, Waiting, HttpWrites, Terminal
  <2>6. Apart'
    BY <1>0, <1>01, <2>1, <2>2 DEF Held, Apart, Exists, Retrying, RetryPc, HttpWrites,
       Submitting, Starting
  <2>7. QED
    BY <2>3, <2>4, <2>5, <2>6
<1>14. CASE PurgeKeys
  <2>1. /\ disk' = disk /\ view'.job = view.job /\ view'.artifacts = view.artifacts
    BY <1>0, <1>01, <1>14, OtherFacts DEF PurgeKeys, ExecInside, connection
  <2>2. /\ http.pc = "purge_keys" /\ http'.pc = "purge_jobs"
        /\ UNCHANGED <<queue, sched, watch, mutex, txn>>
    BY <1>0, <1>01, <1>14 DEF PurgeKeys, ExecInside, HttpGoto, connection, others, Left,
       RetryPc, Typed, ThreadsTyped
  <2>3. Freshness'
    BY <1>0, <1>01, <2>1, <2>2 DEF Freshness, Watched, Held, Apart, Fresh, Exists, Retrying,
       RetryPc, Submitting, Starting, Waiting, HttpWrites, Terminal
  <2>4. Watched'
    BY <1>0, <1>01, <2>1, <2>2 DEF Watched, Held, Apart, Exists, Retrying, RetryPc,
       Submitting, Starting, Waiting, HttpWrites, Terminal
  <2>5. Held'
    BY <1>0, <1>01, <2>1, <2>2 DEF Watched, Held, Apart, Exists, Retrying, RetryPc,
       Submitting, Starting, Waiting, HttpWrites, Terminal
  <2>6. Apart'
    BY <1>0, <1>01, <2>1, <2>2 DEF Held, Apart, Exists, Retrying, RetryPc, HttpWrites,
       Submitting, Starting
  <2>7. QED
    BY <2>3, <2>4, <2>5, <2>6
<1>15. CASE PurgeJobs
  <2>1. /\ \A i \in Jobs : view'.job[i] = IF view.job[i] \in Terminal THEN "purged" ELSE view.job[i]
        /\ view'.artifacts = view.artifacts /\ disk' = disk
    BY <1>0, <1>01, <1>15, SweepFacts DEF PurgeJobs, ExecInside, connection, Terminal
  <2>2. /\ http.pc = "purge_jobs" /\ http'.pc = "purge_commit"
        /\ UNCHANGED <<queue, sched, watch, mutex, txn>>
    BY <1>0, <1>01, <1>15 DEF PurgeJobs, ExecInside, HttpGoto, connection, others, Left,
       RetryPc, Typed, ThreadsTyped
  <2>3. Freshness'
    BY <1>0, <1>01, <2>1, <2>2 DEF Freshness, Watched, Held, Apart, Fresh, Exists, Retrying,
       RetryPc, Submitting, Starting, Waiting, HttpWrites, Terminal
  <2>4. Watched'
    BY <1>0, <1>01, <2>1, <2>2 DEF Watched, Held, Apart, Exists, Retrying, RetryPc,
       Submitting, Starting, Waiting, HttpWrites, Terminal
  <2>5. Held'
    BY <1>0, <1>01, <2>1, <2>2 DEF Watched, Held, Apart, Exists, Retrying, RetryPc,
       Submitting, Starting, Waiting, HttpWrites, Terminal
  <2>6. Apart'
    BY <1>0, <1>01, <2>1, <2>2 DEF Held, Apart, Exists, Retrying, RetryPc, HttpWrites,
       Submitting, Starting
  <2>7. QED
    BY <2>3, <2>4, <2>5, <2>6
<1>16. CASE PurgeStatementFails
  <2>1. disk' = disk /\ view' = view
    BY <1>0, <1>01, <1>16 DEF PurgeStatementFails, Fails, connection
  <2>2. /\ http.pc \notin RetryPc /\ http'.pc = "failed"
        /\ UNCHANGED <<queue, sched, watch, mutex, txn>>
    BY <1>0, <1>01, <1>16 DEF PurgeStatementFails, Fails, HttpGoto, connection, others,
       Left, RetryPc, Typed, ThreadsTyped
  <2>3. Freshness'
    BY <1>0, <1>01, <2>1, <2>2 DEF Freshness, Watched, Held, Apart, Fresh, Exists, Retrying,
       RetryPc, Submitting, Starting, Waiting, HttpWrites, Terminal
  <2>4. Watched'
    BY <1>0, <1>01, <2>1, <2>2 DEF Watched, Held, Apart, Exists, Retrying, RetryPc,
       Submitting, Starting, Waiting, HttpWrites, Terminal
  <2>5. Held'
    BY <1>0, <1>01, <2>1, <2>2 DEF Watched, Held, Apart, Exists, Retrying, RetryPc,
       Submitting, Starting, Waiting, HttpWrites, Terminal
  <2>6. Apart'
    BY <1>0, <1>01, <2>1, <2>2 DEF Held, Apart, Exists, Retrying, RetryPc, HttpWrites,
       Submitting, Starting
  <2>7. QED
    BY <2>3, <2>4, <2>5, <2>6
<1>17. CASE PurgeCommit
  <2>1. \/ disk' = view /\ view' = view
        \/ disk' = disk /\ view' = disk
        \/ disk' = disk /\ view' = view
    BY <1>0, <1>01, <1>17 DEF PurgeCommit, db_commit, db_commit_fails, NotActive, Fails,
       connection
  <2>2. /\ http.pc = "purge_commit" /\ http'.pc \in {"idle", "failed"} /\ mutex' \in {mutex, Nobody}
        /\ txn' \in {txn, "none"} /\ UNCHANGED <<queue, sched, watch>>
    BY <1>0, <1>01, <1>17 DEF PurgeCommit, db_commit, db_commit_fails, NotActive, Fails,
       HttpGoto, HttpDone, HttpIdle, connection, others, Left, RetryPc, Typed, ThreadsTyped
  <2>3. Freshness'
    BY <1>0, <1>01, <2>1, <2>2 DEF Freshness, Watched, Held, Apart, Fresh, Exists, Retrying,
       RetryPc, Submitting, Starting, Waiting, HttpWrites, Terminal
  <2>4. Watched'
    BY <1>0, <1>01, <2>1, <2>2 DEF Watched, Held, Apart, Exists, Retrying, RetryPc,
       Submitting, Starting, Waiting, HttpWrites, Terminal
  <2>5. Held'
    BY <1>0, <1>01, <2>1, <2>2 DEF Watched, Held, Apart, Exists, Retrying, RetryPc,
       Submitting, Starting, Waiting, HttpWrites, Terminal
  <2>6. Apart'
    BY <1>0, <1>01, <2>1, <2>2 DEF Held, Apart, Exists, Retrying, RetryPc, HttpWrites,
       Submitting, Starting
  <2>7. QED
    BY <2>3, <2>4, <2>5, <2>6
<1>18. CASE RetryRow
  <2>0. /\ disk' = disk /\ http.job \in Jobs
        /\ \/ view.job[http.job] = "FAILED" /\ view' = SetStatus(view, http.job, "QUEUED")
           \/ view' = view
    BY <1>0, <1>18 DEF RetryRow, ExecInside, RetryPc
  <2>1. /\ \A i \in Jobs : i # http.job => view'.job[i] = view.job[i]
        /\ view'.job[http.job] \in {view.job[http.job], "QUEUED"}
        /\ view'.artifacts = view.artifacts /\ disk' = disk
        /\ view.job[http.job] = "none" => view'.job[http.job] = "none"
    <3>1. CASE view' = view
      BY <2>0, <3>1
    <3>2. CASE view.job[http.job] = "FAILED" /\ view' = SetStatus(view, http.job, "QUEUED")
      BY <1>0, <2>0, <3>2, StatusFacts
    <3>3. QED
      BY <2>0, <3>1, <3>2
  <2>2. /\ http.pc = "retry_row"
        /\ http'.pc = "retry_changes" /\ http'.job = http.job
        /\ UNCHANGED <<queue, sched, watch, mutex, txn>>
    BY <1>0, <1>01, <1>18 DEF RetryRow, ExecInside, HttpGoto, connection, others, Left,
       RetryPc, Typed, ThreadsTyped
  <2>3. Freshness'
    BY <1>0, <1>01, <2>1, <2>2 DEF Freshness, Watched, Held, Apart, Fresh, Exists, Retrying,
       RetryPc, Submitting, Starting, Waiting, HttpWrites, Terminal
  <2>4. Watched'
    BY <1>0, <1>01, <2>1, <2>2 DEF Watched, Held, Apart, Exists, Retrying, RetryPc,
       Submitting, Starting, Waiting, HttpWrites, Terminal
  <2>5. Held'
    BY <1>0, <1>01, <2>1, <2>2 DEF Watched, Held, Apart, Exists, Retrying, RetryPc,
       Submitting, Starting, Waiting, HttpWrites, Terminal
  <2>6. Apart'
    BY <1>0, <1>01, <2>1, <2>2 DEF Held, Apart, Exists, Retrying, RetryPc, HttpWrites,
       Submitting, Starting
  <2>7. QED
    BY <2>3, <2>4, <2>5, <2>6
<1>19. CASE RetryChanges
  <2>1. disk' = disk /\ view' = view
    BY <1>0, <1>01, <1>19 DEF RetryChanges, connection
  <2>2. /\ http.pc = "retry_changes"
        /\ http'.pc \in {"retry_artifacts", "retry_rollback"} /\ http'.job = http.job
        /\ UNCHANGED <<queue, sched, watch, mutex, txn>>
    BY <1>0, <1>01, <1>19 DEF RetryChanges, HttpGoto, connection, others, Left, RetryPc,
       Typed, ThreadsTyped
  <2>3. Freshness'
    BY <1>0, <1>01, <2>1, <2>2 DEF Freshness, Watched, Held, Apart, Fresh, Exists, Retrying,
       RetryPc, Submitting, Starting, Waiting, HttpWrites, Terminal
  <2>4. Watched'
    BY <1>0, <1>01, <2>1, <2>2 DEF Watched, Held, Apart, Exists, Retrying, RetryPc,
       Submitting, Starting, Waiting, HttpWrites, Terminal
  <2>5. Held'
    BY <1>0, <1>01, <2>1, <2>2 DEF Watched, Held, Apart, Exists, Retrying, RetryPc,
       Submitting, Starting, Waiting, HttpWrites, Terminal
  <2>6. Apart'
    BY <1>0, <1>01, <2>1, <2>2 DEF Held, Apart, Exists, Retrying, RetryPc, HttpWrites,
       Submitting, Starting
  <2>7. QED
    BY <2>3, <2>4, <2>5, <2>6
<1>20. CASE RetryArtifacts
  <2>1. disk' = disk /\ view'.job = view.job /\ view'.artifacts = view.artifacts \ {http.job}
    BY <1>0, <1>01, <1>20, ArtifactFacts DEF RetryArtifacts, ExecInside, connection
  <2>2. /\ http.pc = "retry_artifacts"
        /\ http'.pc = "retry_commit" /\ http'.job = http.job
        /\ UNCHANGED <<queue, sched, watch, mutex, txn>>
    BY <1>0, <1>01, <1>20 DEF RetryArtifacts, ExecInside, HttpGoto, connection, others,
       Left, RetryPc, Typed, ThreadsTyped
  <2>3. Freshness'
    BY <1>0, <1>01, <2>1, <2>2 DEF Freshness, Watched, Held, Apart, Fresh, Exists, Retrying,
       RetryPc, Submitting, Starting, Waiting, HttpWrites, Terminal
  <2>4. Watched'
    BY <1>0, <1>01, <2>1, <2>2 DEF Watched, Held, Apart, Exists, Retrying, RetryPc,
       Submitting, Starting, Waiting, HttpWrites, Terminal
  <2>5. Held'
    BY <1>0, <1>01, <2>1, <2>2 DEF Watched, Held, Apart, Exists, Retrying, RetryPc,
       Submitting, Starting, Waiting, HttpWrites, Terminal
  <2>6. Apart'
    BY <1>0, <1>01, <2>1, <2>2 DEF Held, Apart, Exists, Retrying, RetryPc, HttpWrites,
       Submitting, Starting
  <2>7. QED
    BY <2>3, <2>4, <2>5, <2>6
<1>21. CASE RetryStatementFails
  <2>1. disk' = disk /\ view' = view
    BY <1>0, <1>01, <1>21 DEF RetryStatementFails, Fails, connection
  <2>2. /\ http.pc \in RetryPc
        /\ http'.pc = "retry_rollback" /\ http'.job = http.job
        /\ UNCHANGED <<queue, sched, watch, mutex, txn>>
    BY <1>0, <1>01, <1>21 DEF RetryStatementFails, Fails, HttpGoto, connection, others,
       Left, RetryPc, Typed, ThreadsTyped
  <2>3. Freshness'
    BY <1>0, <1>01, <2>1, <2>2 DEF Freshness, Watched, Held, Apart, Fresh, Exists, Retrying,
       RetryPc, Submitting, Starting, Waiting, HttpWrites, Terminal
  <2>4. Watched'
    BY <1>0, <1>01, <2>1, <2>2 DEF Watched, Held, Apart, Exists, Retrying, RetryPc,
       Submitting, Starting, Waiting, HttpWrites, Terminal
  <2>5. Held'
    BY <1>0, <1>01, <2>1, <2>2 DEF Watched, Held, Apart, Exists, Retrying, RetryPc,
       Submitting, Starting, Waiting, HttpWrites, Terminal
  <2>6. Apart'
    BY <1>0, <1>01, <2>1, <2>2 DEF Held, Apart, Exists, Retrying, RetryPc, HttpWrites,
       Submitting, Starting
  <2>7. QED
    BY <2>3, <2>4, <2>5, <2>6
<1>22. CASE RetryCommit
  <2>1. disk' = view /\ view' = view
    BY <1>0, <1>01, <1>22 DEF RetryCommit, connection
  <2>2. /\ http.pc = "retry_commit" /\ http'.pc = "idle" /\ queue' = queue \cup {http.job} /\ txn' = "none"
        /\ UNCHANGED <<sched, watch, mutex>>
    BY <1>0, <1>01, <1>22 DEF RetryCommit, HttpDone, HttpIdle, connection, others, Left,
       RetryPc, Typed, ThreadsTyped
  <2>3. Freshness'
    BY <1>0, <1>01, <2>1, <2>2 DEF Freshness, Watched, Held, Apart, Fresh, Exists, Retrying,
       RetryPc, Submitting, Starting, Waiting, HttpWrites, Terminal
  <2>4. Watched'
    BY <1>0, <1>01, <2>1, <2>2 DEF Watched, Held, Apart, Exists, Retrying, RetryPc,
       Submitting, Starting, Waiting, HttpWrites, Terminal
  <2>5. Held'
    BY <1>0, <1>01, <2>1, <2>2 DEF Watched, Held, Apart, Exists, Retrying, RetryPc,
       Submitting, Starting, Waiting, HttpWrites, Terminal
  <2>6. Apart'
    BY <1>0, <1>01, <2>1, <2>2 DEF Held, Apart, Exists, Retrying, RetryPc, HttpWrites,
       Submitting, Starting
  <2>7. QED
    BY <2>3, <2>4, <2>5, <2>6
<1>23. CASE RetryRollback
  <2>1. disk' = disk /\ view' = disk
    BY <1>0, <1>01, <1>23 DEF RetryRollback, Rollback, connection
  <2>2. /\ http.pc = "retry_rollback" /\ http'.pc = "idle" /\ txn' = "none"
        /\ UNCHANGED <<queue, sched, watch, mutex>>
    BY <1>0, <1>01, <1>23 DEF RetryRollback, Rollback, HttpDone, HttpIdle, connection,
       others, Left, RetryPc, Typed, ThreadsTyped
  <2>3. Freshness'
    BY <1>0, <1>01, <2>1, <2>2 DEF Freshness, Watched, Held, Apart, Fresh, Exists, Retrying,
       RetryPc, Submitting, Starting, Waiting, HttpWrites, Terminal
  <2>4. Watched'
    BY <1>0, <1>01, <2>1, <2>2 DEF Watched, Held, Apart, Exists, Retrying, RetryPc,
       Submitting, Starting, Waiting, HttpWrites, Terminal
  <2>5. Held'
    BY <1>0, <1>01, <2>1, <2>2 DEF Watched, Held, Apart, Exists, Retrying, RetryPc,
       Submitting, Starting, Waiting, HttpWrites, Terminal
  <2>6. Apart'
    BY <1>0, <1>01, <2>1, <2>2 DEF Held, Apart, Exists, Retrying, RetryPc, HttpWrites,
       Submitting, Starting
  <2>7. QED
    BY <2>3, <2>4, <2>5, <2>6
<1>24. QED
  BY <1>1, <1>2, <1>3, <1>4, <1>5, <1>51, <1>6, <1>7, <1>8, <1>9, <1>10, <1>11, <1>12, <1>13,
     <1>14, <1>15, <1>16, <1>17, <1>18, <1>19, <1>20, <1>21, <1>22, <1>23 DEF HttpStep

\* Steps of the scheduler thread.
LEMMA SchedClean ==
  ASSUME Typed, Owned, Stored, Complete, Known, Freshness, Watched, Held, Apart, ~guest',
         (\E j \in Jobs : Pop(j)) \/ SchedStep
  PROVE  (Freshness /\ Watched /\ Held /\ Apart)'
<1>0. /\ disk \in Database /\ view \in Database
      /\ \A j \in Jobs : watch[j] # "none" => Exists(disk, j) /\ Exists(view, j)
      /\ \A j \in Batch : j \in Jobs /\ (disk.batch <=> Exists(disk, j))
      /\ http.op = "batch" => ~disk.batch
      /\ mutex \in {Nobody, "http", "sched"} /\ Nobody \notin {"http", "sched"}
      /\ sched.pc # "idle" => sched.job \in Jobs
      /\ http.pc \in RetryPc \cup Submitting => http.job \in Jobs
      /\ \A j \in Jobs : j \in queue \/ (sched.pc # "idle" /\ sched.job = j) => Exists(disk, j)
      /\ http.todo \subseteq Batch
  BY ConnectionParameters DEF Typed, ConnectionTyped, ThreadsTyped, Addressed, Complete, Halves,
     Batching, Whole, Known, Listed, Grows, Exists, Jobs
<1>01. /\ txn = "plain" <=> http.pc \in RetryPc
       /\ txn = "none" => view = disk
       /\ http.pc \in HttpWrites => txn = "kept" /\ mutex = "http"
       /\ sched.pc \in {"insert", "commit"} => txn = "kept" /\ mutex = "sched"
       /\ sched.pc = "rollback" => mutex = "sched"
       /\ txn = "plain" => mutex = Nobody
       /\ txn = "kept" => mutex \in {"http", "sched"}
  BY DEF Owned, Stored, Inside, Typed, ConnectionTyped
<1>1. ASSUME NEW j \in Jobs, Pop(j) PROVE (Freshness /\ Watched /\ Held /\ Apart)'
  <2>1. disk' = disk /\ view' = view
    BY <1>0, <1>01, <1>1 DEF Pop, connection
  <2>2. /\ sched.pc = "idle" /\ j \in queue /\ queue' = queue \ {j} /\ mutex \in {Nobody, "sched"}
        /\ sched'.pc # "idle" => sched'.job = j /\ view.job[j] = "QUEUED"
        /\ UNCHANGED <<http, watch, mutex, txn>>
    BY <1>0, <1>01, <1>1 DEF Pop, SchedDone, SchedIdle, connection, others, Left, RetryPc,
       Typed, ThreadsTyped, MayExec
  <2>3. Freshness'
    BY <1>0, <1>01, <2>1, <2>2 DEF Freshness, Watched, Held, Apart, Fresh, Exists, Retrying,
       RetryPc, Submitting, Starting, Waiting, HttpWrites, Terminal
  <2>4. Watched'
    BY <1>0, <1>01, <2>1, <2>2 DEF Watched, Held, Apart, Exists, Retrying, RetryPc,
       Submitting, Starting, Waiting, HttpWrites, Terminal
  <2>5. Held'
    <3>1. view.job[j] = disk.job[j] /\ ~Retrying(j)
      <4>1. CASE txn = "plain"
        BY <1>0, <1>01, <2>2, <4>1 DEF Apart, Retrying
      <4>2. CASE txn = "none"
        <5>1. http.pc \notin RetryPc
          BY <1>01, <4>2
        <5>2. view = disk
          BY <1>01, <4>2
        <5>3. QED
          BY <5>1, <5>2 DEF Retrying
      <4>3. CASE txn = "kept"
        BY <1>0, <1>01, <2>2, <4>3 DEF Apart, Retrying
      <4>4. QED
        BY <4>1, <4>2, <4>3 DEF Typed, ConnectionTyped
    <3>2. QED
      BY <1>0, <2>1, <2>2, <3>1 DEF Held, Retrying, Starting, Submitting
  <2>6. Apart'
    BY <1>0, <1>01, <2>1, <2>2 DEF Held, Apart, Exists, Retrying, RetryPc, HttpWrites,
       Submitting, Starting
  <2>7. QED
    BY <2>3, <2>4, <2>5, <2>6
<1>2. CASE PersistBegin
  <2>1. disk' = disk /\ view' = view
    BY <1>0, <1>01, <1>2 DEF PersistBegin, db_begin, db_begin_fails, Fails, connection
  <2>2. /\ sched.pc = "begin" /\ queue' \subseteq queue \cup {sched.job}
        /\ sched'.pc # "idle" => sched'.job = sched.job
        /\ \/ mutex' = mutex /\ txn' = txn
           \/ txn = "none" /\ mutex' = "sched" /\ txn' = "kept"
        /\ UNCHANGED <<http, watch>>
    BY <1>0, <1>01, <1>2 DEF PersistBegin, db_begin, db_begin_fails, Fails, PushBack,
       SchedGoto, SchedDone, SchedIdle, connection, others, Left, RetryPc, Typed,
       ThreadsTyped
  <2>3. Freshness'
    BY <1>0, <1>01, <2>1, <2>2 DEF Freshness, Watched, Held, Apart, Fresh, Exists, Retrying,
       RetryPc, Submitting, Starting, Waiting, HttpWrites, Terminal
  <2>4. Watched'
    BY <1>0, <1>01, <2>1, <2>2 DEF Watched, Held, Apart, Exists, Retrying, RetryPc,
       Submitting, Starting, Waiting, HttpWrites, Terminal
  <2>5. Held'
    BY <1>0, <1>01, <2>1, <2>2 DEF Watched, Held, Apart, Exists, Retrying, RetryPc,
       Submitting, Starting, Waiting, HttpWrites, Terminal
  <2>6. Apart'
    BY <1>0, <1>01, <2>1, <2>2 DEF Held, Apart, Exists, Retrying, RetryPc, HttpWrites,
       Submitting, Starting
  <2>7. QED
    BY <2>3, <2>4, <2>5, <2>6
<1>3. CASE PersistInsert
  <2>1. disk' = disk /\ view'.job = view.job /\ view'.artifacts = view.artifacts
    BY <1>0, <1>01, <1>3, OtherFacts DEF PersistInsert, ExecInside, connection
  <2>2. /\ sched.pc = "insert"
        /\ sched'.pc = "commit" /\ sched'.job = sched.job
        /\ UNCHANGED <<http, watch, queue, mutex, txn>>
    BY <1>0, <1>01, <1>3 DEF PersistInsert, ExecInside, SchedGoto, connection, others, Left,
       RetryPc, Typed, ThreadsTyped
  <2>3. Freshness'
    BY <1>0, <1>01, <2>1, <2>2 DEF Freshness, Watched, Held, Apart, Fresh, Exists, Retrying,
       RetryPc, Submitting, Starting, Waiting, HttpWrites, Terminal
  <2>4. Watched'
    BY <1>0, <1>01, <2>1, <2>2 DEF Watched, Held, Apart, Exists, Retrying, RetryPc,
       Submitting, Starting, Waiting, HttpWrites, Terminal
  <2>5. Held'
    BY <1>0, <1>01, <2>1, <2>2 DEF Watched, Held, Apart, Exists, Retrying, RetryPc,
       Submitting, Starting, Waiting, HttpWrites, Terminal
  <2>6. Apart'
    BY <1>0, <1>01, <2>1, <2>2 DEF Held, Apart, Exists, Retrying, RetryPc, HttpWrites,
       Submitting, Starting
  <2>7. QED
    BY <2>3, <2>4, <2>5, <2>6
<1>4. CASE PersistInsertFails
  <2>1. disk' = disk /\ view' = view
    BY <1>0, <1>01, <1>4 DEF PersistInsertFails, Fails, connection
  <2>2. /\ sched.pc = "insert" /\ sched'.job = sched.job
        /\ UNCHANGED <<http, watch, queue, mutex, txn>>
    BY <1>0, <1>01, <1>4 DEF PersistInsertFails, Fails, SchedGoto, connection, others, Left,
       RetryPc, Typed, ThreadsTyped
  <2>3. Freshness'
    BY <1>0, <1>01, <2>1, <2>2 DEF Freshness, Watched, Held, Apart, Fresh, Exists, Retrying,
       RetryPc, Submitting, Starting, Waiting, HttpWrites, Terminal
  <2>4. Watched'
    BY <1>0, <1>01, <2>1, <2>2 DEF Watched, Held, Apart, Exists, Retrying, RetryPc,
       Submitting, Starting, Waiting, HttpWrites, Terminal
  <2>5. Held'
    BY <1>0, <1>01, <2>1, <2>2 DEF Watched, Held, Apart, Exists, Retrying, RetryPc,
       Submitting, Starting, Waiting, HttpWrites, Terminal
  <2>6. Apart'
    BY <1>0, <1>01, <2>1, <2>2 DEF Held, Apart, Exists, Retrying, RetryPc, HttpWrites,
       Submitting, Starting
  <2>7. QED
    BY <2>3, <2>4, <2>5, <2>6
<1>5. CASE PersistRollback
  <2>1. disk' = disk /\ view' = disk
    BY <1>0, <1>01, <1>5 DEF PersistRollback, Rollback, connection
  <2>2. /\ sched.pc = "rollback"
        /\ sched'.pc = "leave" /\ sched'.job = sched.job
        /\ txn' = "none" /\ UNCHANGED <<http, watch, queue, mutex>>
    BY <1>0, <1>01, <1>5 DEF PersistRollback, Rollback, SchedGoto, connection, others, Left,
       RetryPc, Typed, ThreadsTyped
  <2>3. Freshness'
    BY <1>0, <1>01, <2>1, <2>2 DEF Freshness, Watched, Held, Apart, Fresh, Exists, Retrying,
       RetryPc, Submitting, Starting, Waiting, HttpWrites, Terminal
  <2>4. Watched'
    BY <1>0, <1>01, <2>1, <2>2 DEF Watched, Held, Apart, Exists, Retrying, RetryPc,
       Submitting, Starting, Waiting, HttpWrites, Terminal
  <2>5. Held'
    BY <1>0, <1>01, <2>1, <2>2 DEF Watched, Held, Apart, Exists, Retrying, RetryPc,
       Submitting, Starting, Waiting, HttpWrites, Terminal
  <2>6. Apart'
    BY <1>0, <1>01, <2>1, <2>2 DEF Held, Apart, Exists, Retrying, RetryPc, HttpWrites,
       Submitting, Starting
  <2>7. QED
    BY <2>3, <2>4, <2>5, <2>6
<1>6. CASE PersistLeave
  <2>1. disk' = disk /\ view' = view
    BY <1>0, <1>01, <1>6 DEF PersistLeave, RollbackLeave, connection
  <2>2. /\ sched.pc = "leave" /\ mutex' \in {mutex, Nobody}
        /\ sched'.pc = "give_up" /\ sched'.job = sched.job
        /\ UNCHANGED <<http, watch, queue, txn>>
    BY <1>0, <1>01, <1>6 DEF PersistLeave, RollbackLeave, Left, SchedGoto, connection,
       others, Left, RetryPc, Typed, ThreadsTyped
  <2>3. Freshness'
    BY <1>0, <1>01, <2>1, <2>2 DEF Freshness, Watched, Held, Apart, Fresh, Exists, Retrying,
       RetryPc, Submitting, Starting, Waiting, HttpWrites, Terminal
  <2>4. Watched'
    BY <1>0, <1>01, <2>1, <2>2 DEF Watched, Held, Apart, Exists, Retrying, RetryPc,
       Submitting, Starting, Waiting, HttpWrites, Terminal
  <2>5. Held'
    BY <1>0, <1>01, <2>1, <2>2 DEF Watched, Held, Apart, Exists, Retrying, RetryPc,
       Submitting, Starting, Waiting, HttpWrites, Terminal
  <2>6. Apart'
    BY <1>0, <1>01, <2>1, <2>2 DEF Held, Apart, Exists, Retrying, RetryPc, HttpWrites,
       Submitting, Starting
  <2>7. QED
    BY <2>3, <2>4, <2>5, <2>6
<1>7. CASE PersistGivesUp
  <2>1. disk' = disk /\ view' = view
    BY <1>0, <1>01, <1>7 DEF PersistGivesUp, connection
  <2>2. /\ sched.pc = "give_up" /\ sched'.pc = "idle" /\ queue' = queue \cup {sched.job}
        /\ UNCHANGED <<http, watch, mutex, txn>>
    BY <1>0, <1>01, <1>7 DEF PersistGivesUp, PushBack, SchedDone, SchedIdle, connection,
       others, Left, RetryPc, Typed, ThreadsTyped
  <2>3. Freshness'
    BY <1>0, <1>01, <2>1, <2>2 DEF Freshness, Watched, Held, Apart, Fresh, Exists, Retrying,
       RetryPc, Submitting, Starting, Waiting, HttpWrites, Terminal
  <2>4. Watched'
    BY <1>0, <1>01, <2>1, <2>2 DEF Watched, Held, Apart, Exists, Retrying, RetryPc,
       Submitting, Starting, Waiting, HttpWrites, Terminal
  <2>5. Held'
    BY <1>0, <1>01, <2>1, <2>2 DEF Watched, Held, Apart, Exists, Retrying, RetryPc,
       Submitting, Starting, Waiting, HttpWrites, Terminal
  <2>6. Apart'
    BY <1>0, <1>01, <2>1, <2>2 DEF Held, Apart, Exists, Retrying, RetryPc, HttpWrites,
       Submitting, Starting
  <2>7. QED
    BY <2>3, <2>4, <2>5, <2>6
<1>8. CASE PersistCommit
  <2>1. \/ disk' = view /\ view' = view
        \/ disk' = disk /\ view' = disk
        \/ disk' = disk /\ view' = view
    BY <1>0, <1>01, <1>8 DEF PersistCommit, db_commit, db_commit_fails, NotActive, Fails,
       connection
  <2>2. /\ sched.pc = "commit" /\ sched'.job = sched.job /\ mutex' \in {mutex, Nobody}
        /\ txn' \in {txn, "none"} /\ UNCHANGED <<http, watch, queue>>
    BY <1>0, <1>01, <1>8 DEF PersistCommit, db_commit, db_commit_fails, NotActive, Fails,
       SchedGoto, connection, others, Left, RetryPc, Typed, ThreadsTyped
  <2>3. Freshness'
    BY <1>0, <1>01, <2>1, <2>2 DEF Freshness, Watched, Held, Apart, Fresh, Exists, Retrying,
       RetryPc, Submitting, Starting, Waiting, HttpWrites, Terminal
  <2>4. Watched'
    BY <1>0, <1>01, <2>1, <2>2 DEF Watched, Held, Apart, Exists, Retrying, RetryPc,
       Submitting, Starting, Waiting, HttpWrites, Terminal
  <2>5. Held'
    BY <1>0, <1>01, <2>1, <2>2 DEF Watched, Held, Apart, Exists, Retrying, RetryPc,
       Submitting, Starting, Waiting, HttpWrites, Terminal
  <2>6. Apart'
    BY <1>0, <1>01, <2>1, <2>2 DEF Held, Apart, Exists, Retrying, RetryPc, HttpWrites,
       Submitting, Starting
  <2>7. QED
    BY <2>3, <2>4, <2>5, <2>6
<1>9. CASE StartJob
  <2>1. /\ \A i \in Jobs : view'.job[i] = IF i = sched.job THEN "RUNNING" ELSE view.job[i]
        /\ view'.artifacts = view.artifacts /\ view = disk /\ disk' = view'
    BY <1>0, <1>9, ExecAlone, StatusFacts DEF StartJob, Held, Starting, Inside
  <2>2. /\ sched.pc = "run" /\ sched'.pc = "idle" /\ txn' = "none"
        /\ \A i \in Jobs : watch'[i] = IF i = sched.job THEN "status" ELSE watch[i]
        /\ UNCHANGED <<http, queue, mutex>>
    BY <1>0, <1>01, <1>9, ExecAlone DEF StartJob, Inside, SchedDone, SchedIdle, connection, others,
       Left, RetryPc, Exec, Typed, ThreadsTyped
  <2>3. Freshness'
    BY <1>0, <1>01, <2>1, <2>2 DEF Freshness, Watched, Held, Apart, Fresh, Exists, Retrying,
       RetryPc, Submitting, Starting, Waiting, HttpWrites, Terminal
  <2>4. Watched'
    BY <1>0, <1>01, <2>1, <2>2 DEF Watched, Held, Apart, Exists, Retrying, RetryPc,
       Submitting, Starting, Waiting, HttpWrites, Terminal
  <2>5. Held'
    BY <1>0, <1>01, <2>1, <2>2 DEF Watched, Held, Apart, Exists, Retrying, RetryPc,
       Submitting, Starting, Waiting, HttpWrites, Terminal
  <2>6. Apart'
    BY <1>0, <1>01, <2>1, <2>2 DEF Held, Apart, Exists, Retrying, RetryPc, HttpWrites,
       Submitting, Starting
  <2>7. QED
    BY <2>3, <2>4, <2>5, <2>6
<1>10. QED
  BY <1>1, <1>2, <1>3, <1>4, <1>5, <1>6, <1>7, <1>8, <1>9 DEF SchedStep

\* The checks between two scans.
LEMMA PeriodicClean ==
  ASSUME Typed, Owned, Stored, Complete, Known, Freshness, Watched, Held, Apart, ~guest', Periodic
  PROVE  (Freshness /\ Watched /\ Held /\ Apart)'
<1>0. /\ disk \in Database /\ view \in Database
      /\ \A j \in Jobs : watch[j] # "none" => Exists(disk, j) /\ Exists(view, j)
      /\ \A j \in Batch : j \in Jobs /\ (disk.batch <=> Exists(disk, j))
      /\ http.op = "batch" => ~disk.batch
      /\ mutex \in {Nobody, "http", "sched"} /\ Nobody \notin {"http", "sched"}
      /\ sched.pc # "idle" => sched.job \in Jobs
      /\ http.pc \in RetryPc \cup Submitting => http.job \in Jobs
      /\ \A j \in Jobs : j \in queue \/ (sched.pc # "idle" /\ sched.job = j) => Exists(disk, j)
      /\ http.todo \subseteq Batch
  BY ConnectionParameters DEF Typed, ConnectionTyped, ThreadsTyped, Addressed, Complete, Halves,
     Batching, Whole, Known, Listed, Grows, Exists, Jobs
<1>01. /\ txn = "plain" <=> http.pc \in RetryPc
       /\ txn = "none" => view = disk
       /\ http.pc \in HttpWrites => txn = "kept" /\ mutex = "http"
       /\ sched.pc \in {"insert", "commit"} => txn = "kept" /\ mutex = "sched"
       /\ sched.pc = "rollback" => mutex = "sched"
       /\ txn = "plain" => mutex = Nobody
       /\ txn = "kept" => mutex \in {"http", "sched"}
  BY DEF Owned, Stored, Inside, Typed, ConnectionTyped
<1>1. ASSUME NEW j \in Jobs, HeldCheck(j) PROVE (Freshness /\ Watched /\ Held /\ Apart)'
  <2>00. PICK s \in {"FAILED", "CREATED", "QUEUED"} :
           /\ Exec("sched", SetStatus(view, j, s), SetStatus(promised, j, s), 1)
           /\ queue' = IF s = "QUEUED" THEN queue \cup {j} ELSE queue
    BY <1>1 DEF HeldCheck
  <2>01. sched.pc = "idle" /\ view.job[j] = "CREATED" /\ UNCHANGED <<http, sched, watch>>
    BY <1>1 DEF HeldCheck
  <2>0. /\ view = disk /\ disk' = view' /\ view' = SetStatus(view, j, s)
        /\ txn = "none" /\ txn' = "none" /\ mutex' = mutex
    BY <2>00, <2>01, ExecAlone DEF Inside
  <2>1. /\ \A i \in Jobs : view'.job[i] = IF i = j THEN s ELSE view.job[i]
        /\ view'.artifacts = view.artifacts /\ view = disk /\ disk' = view' /\ view.job[j] = "CREATED"
    BY <1>0, <2>0, <2>01, StatusFacts
  <2>2. /\ queue' \subseteq queue \cup {j} /\ s \in {"FAILED", "CREATED", "QUEUED"} /\ sched.pc = "idle"
        /\ txn = "none" /\ txn' = "none" /\ http.pc \notin RetryPc /\ UNCHANGED <<http, sched, watch, mutex>>
    BY <1>01, <2>00, <2>01, <2>0
  <2>3. Freshness'
    BY <1>0, <1>01, <2>1, <2>2 DEF Freshness, Watched, Held, Apart, Fresh, Exists, Retrying,
       RetryPc, Submitting, Starting, Waiting, HttpWrites, Terminal
  <2>4. Watched'
    BY <1>0, <1>01, <2>1, <2>2 DEF Watched, Held, Apart, Exists, Retrying, RetryPc,
       Submitting, Starting, Waiting, HttpWrites, Terminal
  <2>5. Held'
    BY <1>0, <1>01, <2>1, <2>2 DEF Watched, Held, Apart, Exists, Retrying, RetryPc,
       Submitting, Starting, Waiting, HttpWrites, Terminal
  <2>6. Apart'
    BY <1>0, <1>01, <2>1, <2>2 DEF Held, Apart, Exists, Retrying, RetryPc, HttpWrites,
       Submitting, Starting
  <2>7. QED
    BY <2>3, <2>4, <2>5, <2>6
<1>2. ASSUME NEW j \in Jobs, SweepLoad(j) PROVE (Freshness /\ Watched /\ Held /\ Apart)'
  <2>1. disk' = disk /\ view' = view /\ view.job[j] = "RUNNING"
    BY <1>2 DEF SweepLoad, connection
  <2>2. sched'.pc = "sweep" /\ sched'.job = j /\ UNCHANGED <<http, watch, queue, mutex, txn>>
    BY <1>2 DEF SweepLoad, SchedIdle, connection
  <2>3. Freshness'
    BY <1>0, <1>01, <2>1, <2>2 DEF Freshness, Watched, Held, Apart, Fresh, Exists, Retrying,
       RetryPc, Submitting, Starting, Waiting, HttpWrites, Terminal
  <2>4. Watched'
    BY <1>0, <1>01, <2>1, <2>2 DEF Watched, Held, Apart, Exists, Retrying, RetryPc,
       Submitting, Starting, Waiting, HttpWrites, Terminal
  <2>5. Held'
    BY <1>0, <1>01, <2>1, <2>2 DEF Watched, Held, Apart, Exists, Retrying, RetryPc,
       Submitting, Starting, Waiting, HttpWrites, Terminal
  <2>6. Apart'
    BY <1>0, <1>01, <2>1, <2>2 DEF Held, Apart, Exists, Retrying, RetryPc, HttpWrites,
       Submitting, Starting
  <2>7. QED
    BY <2>3, <2>4, <2>5, <2>6
<1>3. CASE SweepJob
  <2>01. /\ sched.pc = "sweep" /\ sched.job \in Jobs
         /\ sched'.pc = "idle" \/ (sched'.pc = "sweep_release" /\ sched'.job = sched.job)
         /\ UNCHANGED <<http, queue>>
    BY <1>0, <1>3 DEF SweepJob, SchedGoto, SchedDone, SchedIdle, Typed, ThreadsTyped
  <2>02. \A i \in Jobs : watch'[i] # "none" <=> watch[i] # "none"
    BY <1>3, <2>01 DEF SweepJob, Typed, ThreadsTyped
  <2>03. CASE UNCHANGED <<connection, watch>>
    <3>1. UNCHANGED <<disk, view, mutex, txn>>
      BY <2>03 DEF connection
    <3>2. QED
      BY <2>01, <2>02, <3>1 DEF Freshness, Watched, Held, Apart, Fresh, Exists, Retrying, Submitting, Starting
  <2>04. CASE SweepFails(sched.job)
    <3>0. /\ view = disk /\ disk' = view' /\ view' = SetStatus(view, sched.job, "FAILED")
          /\ txn = "none" /\ txn' = "none" /\ mutex' = mutex
      BY <2>01, <2>04, ExecAlone DEF SweepFails, Inside
    <3>1. /\ \A i \in Jobs : i # sched.job => view'.job[i] = view.job[i]
          /\ view'.job[sched.job] \in {"FAILED", "purged"}
          /\ view'.artifacts = view.artifacts /\ view = disk /\ disk' = view' /\ Exists(view, sched.job)
      BY <1>0, <2>01, <3>0, StatusFacts
    <3>2. http.pc \notin RetryPc /\ http.pc \notin {"batch", "batch_jobs"}
      BY <1>01, <3>0 DEF HttpWrites
    <3>3. Freshness'
      BY <1>0, <2>01, <3>0, <3>1, <3>2 DEF Freshness, Fresh, Exists, Retrying, Waiting
    <3>4. Watched'
      BY <1>0, <2>01, <2>02, <3>0, <3>1, <3>2 DEF Watched, Retrying, Waiting
    <3>5. Held'
      BY <1>0, <2>01, <3>0, <3>1, <3>2 DEF Held, Starting, Retrying, Submitting
    <3>6. Apart'
      BY <2>01, <3>0, <3>1, <3>2 DEF Apart
    <3>7. QED
      BY <3>3, <3>4, <3>5, <3>6
  <2>05. QED
    BY <1>3, <2>03, <2>04 DEF SweepJob
<1>4. CASE SweepRelease
  <2>0. sched.pc = "sweep_release" /\ sched'.pc = "idle" /\ UNCHANGED <<http, watch, queue>>
    BY <1>4 DEF SweepRelease, SchedDone, SchedIdle
  <2>1. /\ view'.job = view.job /\ view'.artifacts = view.artifacts
        /\ view = disk /\ disk' = view'
    BY <1>0, <1>4, ExecAlone, OtherFacts DEF SweepRelease, Inside
  <2>2. sched'.pc = "idle" /\ UNCHANGED <<http, watch, queue, mutex>> /\ txn' = "none"
    BY <1>4, <2>0, ExecAlone DEF SweepRelease, Exec, Inside
  <2>3. Freshness'
    BY <1>0, <1>01, <2>1, <2>2 DEF Freshness, Watched, Held, Apart, Fresh, Exists, Retrying,
       RetryPc, Submitting, Starting, Waiting, HttpWrites, Terminal
  <2>4. Watched'
    BY <1>0, <1>01, <2>1, <2>2 DEF Watched, Held, Apart, Exists, Retrying, RetryPc,
       Submitting, Starting, Waiting, HttpWrites, Terminal
  <2>5. Held'
    BY <1>0, <1>01, <2>1, <2>2 DEF Watched, Held, Apart, Exists, Retrying, RetryPc,
       Submitting, Starting, Waiting, HttpWrites, Terminal
  <2>6. Apart'
    BY <1>0, <1>01, <2>1, <2>2 DEF Held, Apart, Exists, Retrying, RetryPc, HttpWrites,
       Submitting, Starting
  <2>7. QED
    BY <2>3, <2>4, <2>5, <2>6
<1>5. QED
  BY <1>1, <1>2, <1>3, <1>4 DEF Periodic

\* Steps of the watchers, and a crash.
LEMMA WatchClean ==
  ASSUME Typed, Owned, Stored, Complete, Known, Freshness, Watched, Held, Apart, ~guest',
         (\E j \in Jobs : WatchStep(j)) \/ CrashRestart
  PROVE  (Freshness /\ Watched /\ Held /\ Apart)'
<1>0. /\ disk \in Database /\ view \in Database
      /\ \A j \in Jobs : watch[j] # "none" => Exists(disk, j) /\ Exists(view, j)
      /\ \A j \in Batch : j \in Jobs /\ (disk.batch <=> Exists(disk, j))
      /\ http.op = "batch" => ~disk.batch
      /\ mutex \in {Nobody, "http", "sched"} /\ Nobody \notin {"http", "sched"}
      /\ sched.pc # "idle" => sched.job \in Jobs
      /\ http.pc \in RetryPc \cup Submitting => http.job \in Jobs
      /\ \A j \in Jobs : j \in queue \/ (sched.pc # "idle" /\ sched.job = j) => Exists(disk, j)
      /\ http.todo \subseteq Batch
  BY ConnectionParameters DEF Typed, ConnectionTyped, ThreadsTyped, Addressed, Complete, Halves,
     Batching, Whole, Known, Listed, Grows, Exists, Jobs
<1>01. /\ txn = "plain" <=> http.pc \in RetryPc
       /\ txn = "none" => view = disk
       /\ http.pc \in HttpWrites => txn = "kept" /\ mutex = "http"
       /\ sched.pc \in {"insert", "commit"} => txn = "kept" /\ mutex = "sched"
       /\ sched.pc = "rollback" => mutex = "sched"
       /\ txn = "plain" => mutex = Nobody
       /\ txn = "kept" => mutex \in {"http", "sched"}
  BY DEF Owned, Stored, Inside, Typed, ConnectionTyped
<1>1. ASSUME NEW j \in Jobs, WatchStatus(j) PROVE (Freshness /\ Watched /\ Held /\ Apart)'
  <2>1. /\ \A i \in Jobs : i # j => view'.job[i] = view.job[i]
        /\ view'.job[j] \in {"SUCCEEDED", "FAILED", "purged"}
        /\ view'.artifacts = view.artifacts /\ view = disk /\ disk' = view'
    BY <1>0, <1>1, ExecAlone, StatusFacts DEF WatchStatus, Terminal
  <2>2. /\ watch[j] # "none" /\ txn' = "none"
        /\ \A i \in Jobs : i # j => watch'[i] = watch[i]
        /\ UNCHANGED <<http, sched, queue, mutex>>
    BY <1>0, <1>01, <1>1, ExecAlone DEF WatchStatus, WatchGoto, Terminal, connection,
       others, Left, RetryPc, Exec, Typed, ThreadsTyped
  <2>3. Freshness'
    BY <1>0, <1>01, <2>1, <2>2 DEF Freshness, Watched, Held, Apart, Fresh, Exists, Retrying,
       RetryPc, Submitting, Starting, Waiting, HttpWrites, Terminal
  <2>4. Watched'
    BY <1>0, <1>01, <2>1, <2>2 DEF Watched, Held, Apart, Exists, Retrying, RetryPc,
       Submitting, Starting, Waiting, HttpWrites, Terminal
  <2>5. Held'
    BY <1>0, <1>01, <2>1, <2>2 DEF Watched, Held, Apart, Exists, Retrying, RetryPc,
       Submitting, Starting, Waiting, HttpWrites, Terminal
  <2>6. Apart'
    BY <1>0, <1>01, <2>1, <2>2 DEF Held, Apart, Exists, Retrying, RetryPc, HttpWrites,
       Submitting, Starting
  <2>7. QED
    BY <2>3, <2>4, <2>5, <2>6
<1>2. ASSUME NEW j \in Jobs, WatchArtifacts(j) PROVE (Freshness /\ Watched /\ Held /\ Apart)'
  <2>1. /\ view'.job = view.job /\ view'.artifacts = view.artifacts \cup {j}
        /\ view = disk /\ disk' = view'
    BY <1>0, <1>2, ExecAlone, ArtifactFacts DEF WatchArtifacts
  <2>2. /\ watch[j] # "none" /\ txn' = "none"
        /\ \A i \in Jobs : i # j => watch'[i] = watch[i]
        /\ UNCHANGED <<http, sched, queue, mutex>>
    BY <1>0, <1>01, <1>2, ExecAlone DEF WatchArtifacts, WatchGoto, connection, others, Left,
       RetryPc, Exec, Typed, ThreadsTyped
  <2>3. Freshness'
    BY <1>0, <1>01, <2>1, <2>2 DEF Freshness, Watched, Held, Apart, Fresh, Exists, Retrying,
       RetryPc, Submitting, Starting, Waiting, HttpWrites, Terminal
  <2>4. Watched'
    BY <1>0, <1>01, <2>1, <2>2 DEF Watched, Held, Apart, Exists, Retrying, RetryPc,
       Submitting, Starting, Waiting, HttpWrites, Terminal
  <2>5. Held'
    BY <1>0, <1>01, <2>1, <2>2 DEF Watched, Held, Apart, Exists, Retrying, RetryPc,
       Submitting, Starting, Waiting, HttpWrites, Terminal
  <2>6. Apart'
    BY <1>0, <1>01, <2>1, <2>2 DEF Held, Apart, Exists, Retrying, RetryPc, HttpWrites,
       Submitting, Starting
  <2>7. QED
    BY <2>3, <2>4, <2>5, <2>6
<1>3. ASSUME NEW j \in Jobs, WatchRelease(j) PROVE (Freshness /\ Watched /\ Held /\ Apart)'
  <2>1. /\ view'.job = view.job /\ view'.artifacts = view.artifacts
        /\ view = disk /\ disk' = view'
    BY <1>0, <1>3, ExecAlone, OtherFacts DEF WatchRelease
  <2>2. /\ watch[j] # "none" /\ txn' = "none"
        /\ \A i \in Jobs : i # j => watch'[i] = watch[i]
        /\ UNCHANGED <<http, sched, queue, mutex>>
    BY <1>0, <1>01, <1>3, ExecAlone DEF WatchRelease, WatchGoto, connection, others, Left,
       RetryPc, Exec, Typed, ThreadsTyped
  <2>3. Freshness'
    BY <1>0, <1>01, <2>1, <2>2 DEF Freshness, Watched, Held, Apart, Fresh, Exists, Retrying,
       RetryPc, Submitting, Starting, Waiting, HttpWrites, Terminal
  <2>4. Watched'
    BY <1>0, <1>01, <2>1, <2>2 DEF Watched, Held, Apart, Exists, Retrying, RetryPc,
       Submitting, Starting, Waiting, HttpWrites, Terminal
  <2>5. Held'
    BY <1>0, <1>01, <2>1, <2>2 DEF Watched, Held, Apart, Exists, Retrying, RetryPc,
       Submitting, Starting, Waiting, HttpWrites, Terminal
  <2>6. Apart'
    BY <1>0, <1>01, <2>1, <2>2 DEF Held, Apart, Exists, Retrying, RetryPc, HttpWrites,
       Submitting, Starting
  <2>7. QED
    BY <2>3, <2>4, <2>5, <2>6
<1>4. CASE CrashRestart
  <2>1. /\ \A i \in Jobs : disk'.job[i] = IF disk.job[i] = "RUNNING" THEN "FAILED" ELSE disk.job[i]
        /\ disk'.artifacts = disk.artifacts /\ view' = disk'
    BY <1>0, <1>01, <1>4, SweepFacts DEF CrashRestart, connection
  <2>2. /\ http'.pc = "idle" /\ sched'.pc = "idle" /\ txn' = "none" /\ mutex' = Nobody
        /\ \A i \in Jobs : watch'[i] = "none"
    BY <1>0, <1>01, <1>4 DEF CrashRestart, HttpIdle, SchedIdle, connection, others, Left,
       RetryPc, Typed, ThreadsTyped
  <2>3. Freshness'
    BY <1>0, <1>01, <2>1, <2>2 DEF Freshness, Watched, Held, Apart, Fresh, Exists, Retrying,
       RetryPc, Submitting, Starting, Waiting, HttpWrites, Terminal
  <2>4. Watched'
    BY <1>0, <1>01, <2>1, <2>2 DEF Watched, Held, Apart, Exists, Retrying, RetryPc,
       Submitting, Starting, Waiting, HttpWrites, Terminal
  <2>5. Held'
    BY <1>0, <1>01, <2>1, <2>2 DEF Watched, Held, Apart, Exists, Retrying, RetryPc,
       Submitting, Starting, Waiting, HttpWrites, Terminal
  <2>6. Apart'
    BY <1>0, <1>01, <2>1, <2>2 DEF Held, Apart, Exists, Retrying, RetryPc, HttpWrites,
       Submitting, Starting
  <2>7. QED
    BY <2>3, <2>4, <2>5, <2>6
<1>5. QED
  BY <1>1, <1>2, <1>3, <1>4 DEF WatchStep

\* A statement inside the transaction of another is not forgotten.
LEMMA GuestStays == [Next]_vars /\ guest => guest'
<1> SUFFICES ASSUME [Next]_vars, guest PROVE guest'
  OBVIOUS
<1>1. ASSUME NEW t, db_begin(t) \/ db_begin_fails(t) \/ db_commit(t) \/ db_commit_fails(t)
                      \/ Rollback(t) \/ RollbackLeave(t)
      PROVE  guest'
  BY <1>1 DEF db_begin, db_begin_fails, db_commit, db_commit_fails, Rollback, RollbackLeave, history
<1>2. ASSUME NEW t, NEW new, NEW ack, NEW n, Exec(t, new, ack, n) \/ ExecInside(t, new, n)
      PROVE  guest'
  BY <1>2 DEF Exec, ExecInside
<1>3. CASE NotActive \/ UNCHANGED history \/ CrashRestart \/ UNCHANGED vars
  BY <1>3 DEF NotActive, history, CrashRestart, vars
<1>4. ASSUME NEW j \in Jobs, SubmitInsert(j) \/ RetryBegin(j) \/ Pop(j) \/ WatchStep(j) PROVE guest'
  BY <1>2, <1>3, <1>4 DEF SubmitInsert, RetryBegin, Pop, WatchStep, WatchStatus, WatchArtifacts,
     WatchRelease, history
<1>5. CASE BatchBegin \/ PurgeBegin \/ BatchCommit \/ PurgeCommit \/ RollbackExec \/ RollbackDone
  BY <1>1, <1>3, <1>5 DEF BatchBegin, PurgeBegin, BatchCommit, PurgeCommit, RollbackExec,
     RollbackDone
<1>6. CASE SubmitKey \/ SubmitHold \/ BatchInsert \/ (\E j \in Batch : BatchJob(j)) \/ PurgeKeys \/ PurgeJobs
           \/ RetryRow \/ RetryArtifacts
  BY <1>2, <1>6 DEF SubmitKey, SubmitHold, BatchInsert, BatchJob, PurgeKeys, PurgeJobs, RetryRow,
     RetryArtifacts
<1>7. CASE BatchStatementFails \/ RollbackTest \/ AnswerFailure \/ PurgeStatementFails
           \/ RetryChanges \/ RetryStatementFails \/ RetryCommit \/ RetryRollback
  BY <1>1, <1>7 DEF BatchStatementFails, RollbackTest, AnswerFailure, PurgeStatementFails,
     RetryChanges, RetryStatementFails, RetryCommit, RetryRollback, history
<1>8. CASE SchedStep
  BY <1>1, <1>2, <1>3, <1>8 DEF SchedStep, PersistBegin, PersistInsert, PersistInsertFails,
     PersistRollback, PersistLeave, PersistGivesUp, PersistCommit, StartJob, history
<1>9. CASE Periodic
  BY <1>2, <1>3, <1>9 DEF Periodic, HeldCheck, SweepLoad, SweepJob, SweepFails, SweepRelease, history
<1>10. QED
  BY <1>3, <1>4, <1>5, <1>6, <1>7, <1>8, <1>9 DEF Next, HttpStep

\* Every step keeps the invariant.
LEMMA StepClean ==
  Typed /\ Owned /\ Stored /\ Complete /\ Known /\ Clean /\ [Next]_vars => Clean'
<1> SUFFICES ASSUME Typed, Owned, Stored, Complete, Known, Clean, [Next]_vars, ~guest'
             PROVE  (Freshness /\ Watched /\ Held /\ Apart)'
  BY DEF Clean
<1>1. Freshness /\ Watched /\ Held /\ Apart
  BY GuestStays DEF Clean
<1>2. CASE Next
  BY <1>1, <1>2, HttpClean, SchedClean, PeriodicClean, WatchClean DEF Next
<1>3. CASE UNCHANGED vars
  BY <1>1, <1>3 DEF vars, Freshness, Watched, Held, Apart, Fresh, Exists, Retrying
<1>4. QED
  BY <1>2, <1>3

\* There is nothing in the tables and nobody at work.
LEMMA InitClean == Init => Clean
BY DEF Init, Clean, Freshness, Watched, Held, Apart, Fresh, Exists, Retrying, Empty, HttpIdle,
   SchedIdle, RetryPc, Submitting, Starting

(***************************************************************************)
(* A job that waits in the file has no artifacts of an earlier execution:  *)
(* the watcher registers them while the row says that the job ran          *)
(* (executor.c:979), a retry is refused until the execution is gone        *)
(* (routes.c:2294) and deletes them together with the change of the row    *)
(* (db.c:398), unless somebody wrote inside the transaction of another.    *)
(***************************************************************************)
THEOREM RetriesStartClean == Spec => []QueuedWithoutArtifacts
<1>1. Clean => QueuedWithoutArtifacts
  BY DEF Clean, Freshness, Fresh, Waiting, QueuedWithoutArtifacts
<1>2. QED
  BY <1>1, InitTyped, StepTyped, InitOwned, StepOwned, InitStored, StepStored, InitComplete,
     StepComplete, InitClean, StepClean, PTL DEF Spec

=============================================================================
