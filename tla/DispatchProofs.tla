---------------------------- MODULE DispatchProofs ----------------------------
(***************************************************************************)
(* Proofs about Dispatch, for any jobs, machines, quotas and pins.         *)
(***************************************************************************)
EXTENDS Dispatch, SumsProofs, SequenceTheorems, TLAPS

\* A non-empty set of naturals has a smallest element, so that queue_pop and
\* the choice of the first machine that fits are defined.
LEMMA MinIsMember ==
  ASSUME NEW S \in SUBSET Nat, S # {}
  PROVE  Min(S) \in S /\ \A x \in S : Min(S) <= x
<1> DEFINE R == OpToRel(<, Nat)
<1>1. IsWellFoundedOn(R, Nat)
  BY NatLessThanWellFounded
<1> HIDE DEF R
<1>2. \E x \in S : \A y \in S : ~(<<y, x>> \in R)
  <2>1. S \subseteq Nat
    OBVIOUS
  <2>2. QED
    BY <1>1, <2>1, WFMin, Zenon
<1>3. \E x \in S : \A y \in S : x <= y
  <2>1. \A x, y \in Nat : y < x => <<y, x>> \in R
    BY DEF R, OpToRel
  <2>2. PICK x \in S : \A y \in S : ~(<<y, x>> \in R)
    BY <1>2
  <2>3. \A y \in S : ~(y < x)
    BY <2>1, <2>2, Zenon
  <2>4. \A y \in S : x <= y
    BY <2>3
  <2>5. QED
    BY <2>4
<1>4. QED
  BY <1>3 DEF Min

\* resolve_quota looks up at least one scope, and only scopes.
LEMMA ScopesType ==
  ASSUME NEW j \in Jobs
  PROVE  Scopes(j) \in Seq(Scope) /\ Scopes(j) # <<>>
<1> DEFINE u == UserOf[j]
           a == AppOf[j]
<1>1. u \in Users /\ a \in Apps /\ Any \in Users /\ Any \in Apps
  BY DEF Users, Apps
<1>2. <<u, a>> \in Scope /\ <<u, Any>> \in Scope /\ <<Any, a>> \in Scope /\ <<Any, Any>> \in Scope
  BY <1>1 DEF Scope
<1> DEFINE p == IF u # Any /\ a # Any THEN << <<u, a>> >> ELSE <<>>
           q == IF u # Any THEN << <<u, Any>> >> ELSE <<>>
           r == IF a # Any THEN << <<Any, a>> >> ELSE <<>>
           s == << <<Any, Any>> >>
<1>3. p \in Seq(Scope) /\ q \in Seq(Scope) /\ r \in Seq(Scope) /\ s \in Seq(Scope) /\ Len(s) = 1
  BY <1>2
<1>4. Scopes(j) = p \o q \o r \o s
  BY DEF Scopes
<1> HIDE DEF p, q, r, s
<1>5. (p \o q \o r) \in Seq(Scope)
  BY <1>3
<1>6. (p \o q \o r \o s) \in Seq(Scope) /\ Len(p \o q \o r \o s) >= 1
  BY <1>3, <1>5
<1>7. QED
  BY <1>4, <1>6

-----------------------------------------------------------------------------
(* The inductive invariant. *)

StoreTyped ==
  /\ row \in [Jobs -> Statuses]
  /\ place \in [Jobs -> Machines \cup {None}]
  /\ queue \in [Jobs -> Nat]
  /\ alloc \in [Jobs -> Machines \cup {None}]
  /\ quota \in [Scope -> Limits \cup {Unlimited, None}]
  /\ probed \in [Machines -> {"ONLINE", "PROBING", "OFFLINE"}]
  /\ budget \in Nat

SchedPcs == {"sleep", "scan", "recheck", "quota", "usage", "pin", "fit", "reserve", "probe",
             "dispatch"}

\* The scheduler has a job from the pop to the end of its turn, a scope to
\* look up while it resolves the quota, and a machine once it has reserved.
SchedTyped ==
  /\ sched \in [pc : SchedPcs, job : Jobs \cup {None}, left : Nat, scopes : Seq(Scope),
                limit : Limit, at : Machines \cup {None}]
  /\ sched.pc \notin {"sleep", "scan"} => sched.job \in Jobs
  /\ sched.pc = "quota" => sched.scopes # <<>>
  /\ sched.pc \in {"probe", "dispatch"} => sched.at \in Machines

Typed == StoreTyped /\ SchedTyped

\* A limit is only there once it was resolved.
LimitResolved == sched.pc \in {"sleep", "scan", "recheck", "quota"} => sched.limit = Unlimited

\* The turn of a job that passed the quota check.
AdmittedPcs == {"pin", "fit", "reserve", "probe", "dispatch"}

\* From the quota check to the start, the job fits into the limit together
\* with what runs now.
Admitted ==
  sched.pc \in AdmittedPcs
    => Within(sched.limit, Counted(sched.job) \cup {sched.job})

\* A pinned job passes by the free choice of a machine only when the job it
\* names is gone, and otherwise holds the machine of that job.
PinKept ==
  sched.pc \in {"fit", "reserve", "probe", "dispatch"} =>
    \A r \in Jobs : SameMachineAs[sched.job] = r =>
      row[r] = "PURGED" \/ (sched.pc = "dispatch" /\ place[r] \in {None, sched.at})

IInv == Typed /\ LimitResolved /\ Admitted /\ PinKept

-----------------------------------------------------------------------------
(* Type correctness. *)

\* The parts make up the type invariant.
LEMMA TypeOKOfTyped == Typed => TypeOK
BY DEF Typed, StoreTyped, SchedTyped, TypeOK

\* The thread as it begins and ends a turn.
LEMMA AsleepTyped ==
  /\ Unlimited \in Limit
  /\ Asleep \in [pc : SchedPcs, job : Jobs \cup {None}, left : Nat, scopes : Seq(Scope),
                 limit : Limit, at : Machines \cup {None}]
<1>1. Unlimited \in Limit
  BY DEF Unlimited, Limit
<1>2. <<>> \in Seq(Scope)
  OBVIOUS
<1>3. QED
  BY <1>1, <1>2 DEF Asleep, SchedPcs

\* No jobs in the queue, nothing reserved, every machine online.
LEMMA InitTyped == Init => Typed
<1> SUFFICES ASSUME Init PROVE Typed
  OBVIOUS
<1>1. StoreTyped
  BY DispatchParameters DEF Init, StoreTyped, Statuses
<1>2. SchedTyped
  BY AsleepTyped DEF Init, SchedTyped, Asleep
<1>3. QED
  BY <1>1, <1>2 DEF Typed

\* The scan goes on.
LEMMA NextEntryTyped ==
  ASSUME Typed, NextEntry
  PROVE  SchedTyped'
<1>1. sched.left \in Nat
  BY DEF Typed, SchedTyped
<1>2. sched' = [pc |-> "scan", job |-> None, left |-> sched.left, scopes |-> <<>>,
                limit |-> Unlimited, at |-> None]
  BY DEF NextEntry, Asleep
<1>3. <<>> \in Seq(Scope)
  OBVIOUS
<1>4. QED
  BY <1>1, <1>2, <1>3, AsleepTyped DEF SchedTyped, SchedPcs

\* A blocked job goes back into the queue.
LEMMA PushBackTyped ==
  ASSUME Typed, sched.job \in Jobs, PushBack, alloc' \in [Jobs -> Machines \cup {None}]
  PROVE  StoreTyped'
<1>1. queue' = [queue EXCEPT ![sched.job] = @ + 1] /\ UNCHANGED <<row, place, quota, probed, budget>>
  BY DEF PushBack, Pushed
<1>2. QED
  BY <1>1 DEF Typed, StoreTyped

\* Rows, queue, reservations, quotas and probes.
LEMMA StoreStep ==
  ASSUME Typed, [Next]_vars
  PROVE  StoreTyped'
<1>1. ASSUME TickBegins PROVE StoreTyped'
  BY <1>1, DispatchParameters DEF TickBegins, Typed, StoreTyped, SchedTyped, Statuses,
     Terminal
<1>2. ASSUME ScanEnds PROVE StoreTyped'
  BY <1>2, DispatchParameters DEF ScanEnds, Typed, StoreTyped, SchedTyped, Statuses,
     Terminal
<1>3. ASSUME Pop PROVE StoreTyped'
  <2>1. Min(Queued) \in Queued
    BY <1>3, MinIsMember, DispatchParameters DEF Pop, Queued
  <2>2. QED
    BY <1>3, <2>1 DEF Pop, Queued, Typed, StoreTyped
<1>4. ASSUME Recheck PROVE StoreTyped'
  BY <1>4, DispatchParameters DEF Recheck, Typed, StoreTyped, SchedTyped, Statuses, Terminal
<1>5. ASSUME ResolveQuota PROVE StoreTyped'
  BY <1>5, DispatchParameters DEF ResolveQuota, Typed, StoreTyped, SchedTyped, Statuses,
     Terminal
<1>6. ASSUME QuotaCheck PROVE StoreTyped'
  <2>1. CASE UNCHANGED <<row, place, queue, alloc, quota, probed, budget>>
    BY <2>1 DEF Typed, StoreTyped
  <2>2. CASE PushBack /\ UNCHANGED alloc
    BY <1>6, <2>2, PushBackTyped DEF QuotaCheck, Typed, StoreTyped, SchedTyped
  <2>3. QED
    BY <1>6, <2>1, <2>2 DEF QuotaCheck
<1>7. ASSUME Unpinned PROVE StoreTyped'
  BY <1>7, DispatchParameters DEF Unpinned, Typed, StoreTyped, SchedTyped, Statuses,
     Terminal
<1>8. ASSUME NEW r \in Jobs, PinReserve(r)
      PROVE  StoreTyped'
  <2>1. place[r] \in Machines
    BY <1>8 DEF PinReserve, Fitting
  <2>2. QED
    BY <1>8, <2>1 DEF PinReserve, Typed, StoreTyped, SchedTyped
<1>9. ASSUME NEW r \in Jobs, PinWait(r)
      PROVE  StoreTyped'
  <2>1. sched.job \in Jobs /\ PushBack /\ alloc' \in [Jobs -> Machines \cup {None}]
    BY <1>9 DEF PinWait, PinnedTo, Typed, StoreTyped, SchedTyped
  <2>2. QED
    BY <2>1, PushBackTyped
<1>10. ASSUME CanFit PROVE StoreTyped'
  BY <1>10, DispatchParameters DEF CanFit, Typed, StoreTyped, SchedTyped, Statuses, Terminal
<1>11. ASSUME NoFit PROVE StoreTyped'
  <2>1. sched.job \in Jobs /\ PushBack /\ alloc' \in [Jobs -> Machines \cup {None}]
    BY <1>11 DEF NoFit, Typed, StoreTyped, SchedTyped
  <2>2. QED
    BY <2>1, PushBackTyped
<1>12. ASSUME Reserve PROVE StoreTyped'
  <2>1. Min(Fitting(sched.job)) \in Machines
    BY <1>12, MinIsMember, DispatchParameters DEF Reserve, Fitting
  <2>2. QED
    BY <1>12, <2>1 DEF Reserve, Typed, StoreTyped, SchedTyped
<1>13. ASSUME ReserveFails PROVE StoreTyped'
  <2>1. sched.job \in Jobs /\ PushBack /\ alloc' \in [Jobs -> Machines \cup {None}]
    BY <1>13 DEF ReserveFails, Typed, StoreTyped, SchedTyped
  <2>2. QED
    BY <2>1, PushBackTyped
<1>14. ASSUME MachineOnline PROVE StoreTyped'
  BY <1>14, DispatchParameters DEF MachineOnline, Typed, StoreTyped, SchedTyped, Statuses,
     Terminal
<1>15. ASSUME MachineOffline PROVE StoreTyped'
  <2>1. sched.job \in Jobs /\ PushBack /\ alloc' \in [Jobs -> Machines \cup {None}]
    BY <1>15 DEF MachineOffline, Typed, StoreTyped, SchedTyped
  <2>2. QED
    BY <2>1, PushBackTyped
<1>16. ASSUME Start PROVE StoreTyped'
  BY <1>16, DispatchParameters DEF Start, Typed, StoreTyped, SchedTyped, Statuses, Terminal
<1>17. ASSUME DispatchStale PROVE StoreTyped'
  BY <1>17, DispatchParameters DEF DispatchStale, Typed, StoreTyped, SchedTyped, Statuses,
     Terminal
<1>18. ASSUME NEW j \in Jobs, Enqueue(j)
      PROVE  StoreTyped'
  BY <1>18, DispatchParameters DEF Enqueue, Pushed, Typed, StoreTyped, SchedTyped, Statuses,
     Terminal
<1>19. ASSUME NEW j \in Jobs, Finish(j)
      PROVE  StoreTyped'
  BY <1>19, DispatchParameters DEF Finish, Typed, StoreTyped, SchedTyped, Statuses, Terminal
<1>20. ASSUME NEW j \in Jobs, Release(j)
      PROVE  StoreTyped'
  BY <1>20, DispatchParameters DEF Release, Typed, StoreTyped, SchedTyped, Statuses,
     Terminal
<1>21. ASSUME NEW j \in Jobs, Cancel(j)
      PROVE  StoreTyped'
  BY <1>21, DispatchParameters DEF Cancel, Typed, StoreTyped, SchedTyped, Statuses, Terminal
<1>22. ASSUME NEW j \in Jobs, Retry(j)
      PROVE  StoreTyped'
  BY <1>22, DispatchParameters DEF Retry, Typed, StoreTyped, SchedTyped, Statuses, Terminal
<1>23. ASSUME Purge PROVE StoreTyped'
  BY <1>23, DispatchParameters DEF Purge, Typed, StoreTyped, SchedTyped, Statuses, Terminal
<1>24. ASSUME NEW s \in Scope, delete_quota(s)
      PROVE  StoreTyped'
  BY <1>24, DispatchParameters DEF delete_quota, Typed, StoreTyped, SchedTyped, Statuses,
     Terminal
<1>25. ASSUME NEW s \in Scope, NEW l \in Limits, upsert_quota(s, l)
      PROVE  StoreTyped'
  BY <1>25, DispatchParameters DEF upsert_quota, Typed, StoreTyped, SchedTyped, Statuses,
     Terminal
<1>26. ASSUME NEW m \in Remote, ProbeMark(m)
      PROVE  StoreTyped'
  BY <1>26, DispatchParameters DEF ProbeMark, Typed, StoreTyped, SchedTyped, Statuses,
     Terminal
<1>27. ASSUME NEW m \in Remote, ProbeAnswer(m)
      PROVE  StoreTyped'
  BY <1>27, DispatchParameters DEF ProbeAnswer, Typed, StoreTyped, SchedTyped, Statuses,
     Terminal
<1>28. CASE UNCHANGED vars
  BY <1>28 DEF vars, Typed, StoreTyped, SchedTyped, Statuses, Terminal
<1>29. QED
  BY <1>1, <1>2, <1>3, <1>4, <1>5, <1>6, <1>7, <1>8, <1>9, <1>10, <1>11, <1>12, <1>13,
     <1>14, <1>15, <1>16, <1>17, <1>18, <1>19, <1>20, <1>21, <1>22, <1>23, <1>24, <1>25,
     <1>26, <1>27, <1>28 DEF Next, Scheduler

\* The turn of the scheduler, from the pop to the dispatch.
LEMMA SchedStep ==
  ASSUME Typed, [Next]_vars
  PROVE  SchedTyped'
<1>1. ASSUME TickBegins PROVE SchedTyped'
  <2>1. QueueSize \in Nat
    BY TotalType, DispatchParameters DEF QueueSize, Typed, StoreTyped
  <2>2. QED
    BY <1>1, <2>1 DEF TickBegins, Typed, SchedTyped, SchedPcs
<1>2. ASSUME ScanEnds PROVE SchedTyped'
  BY <1>2, AsleepTyped DEF ScanEnds, SchedTyped, Asleep
<1>3. ASSUME Pop PROVE SchedTyped'
  <2>1. Min(Queued) \in Jobs
    BY <1>3, MinIsMember, DispatchParameters DEF Pop, Queued
  <2>2. sched.left - 1 \in Nat
    BY <1>3 DEF Pop, Typed, SchedTyped
  <2>3. sched' = [sched EXCEPT !.pc = "recheck", !.job = Min(Queued), !.left = sched.left - 1]
    BY <1>3 DEF Pop
  <2>4. QED
    BY <2>1, <2>2, <2>3 DEF Typed, SchedTyped, SchedPcs
<1>4. ASSUME Recheck PROVE SchedTyped'
  <2>1. CASE NextEntry
    BY <2>1, NextEntryTyped
  <2>2. CASE sched' = [sched EXCEPT !.pc = "quota", !.scopes = Scopes(sched.job)]
    <3>1. sched.job \in Jobs
      BY <1>4 DEF Recheck, Typed, SchedTyped
    <3>2. Scopes(sched.job) \in Seq(Scope) /\ Scopes(sched.job) # <<>>
      BY <3>1, ScopesType
    <3>3. QED
      BY <2>2, <3>1, <3>2 DEF Typed, SchedTyped, SchedPcs
  <2>3. QED
    BY <1>4, <2>1, <2>2 DEF Recheck
<1>5. ASSUME ResolveQuota PROVE SchedTyped'
  <2> DEFINE found == quota[Head(sched.scopes)]
  <2>1. sched.scopes \in Seq(Scope) /\ sched.scopes # <<>> /\ sched.job \in Jobs
    BY <1>5 DEF ResolveQuota, Typed, SchedTyped
  <2>2. found \in Limits \cup {Unlimited, None}
    BY <2>1 DEF Typed, StoreTyped
  <2>3. CASE found # None /\ sched' = [sched EXCEPT !.pc = "usage", !.limit = found, !.scopes = <<>>]
    <3>1. found \in Limit /\ <<>> \in Seq(Scope)
      BY <2>2, <2>3, AsleepTyped, DispatchParameters
    <3> HIDE DEF found
    <3>2. QED
      BY <2>1, <2>3, <3>1 DEF Typed, SchedTyped, SchedPcs
  <2>4. CASE Len(sched.scopes) > 1 /\ sched' = [sched EXCEPT !.scopes = Tail(sched.scopes)]
    <3>1. Tail(sched.scopes) \in Seq(Scope) /\ Len(Tail(sched.scopes)) = Len(sched.scopes) - 1
      BY <2>1, HeadTailProperties
    <3>2. Len(Tail(sched.scopes)) > 0 /\ Len(<<>>) = 0
      BY <2>1, <2>4, <3>1
    <3>3. sched' = [sched EXCEPT !.scopes = Tail(sched.scopes)]
      BY <2>4
    <3> DEFINE rest == Tail(sched.scopes)
    <3>4. Len(rest) > 0 /\ Len(<<>>) = 0 /\ rest \in Seq(Scope)
      BY <3>1, <3>2
    <3>5. sched' = [sched EXCEPT !.scopes = rest]
      BY <3>3
    <3> HIDE DEF rest
    <3>6. rest # <<>>
      BY <3>4
    <3>7. QED
      BY <2>1, <3>4, <3>5, <3>6 DEF Typed, SchedTyped
  <2>5. CASE sched' = [sched EXCEPT !.pc = "pin", !.scopes = <<>>]
    <3>1. <<>> \in Seq(Scope)
      OBVIOUS
    <3>2. QED
      BY <2>1, <2>5, <3>1 DEF Typed, SchedTyped, SchedPcs
  <2>6. QED
    BY <1>5, <2>3, <2>4, <2>5 DEF ResolveQuota
<1>6. ASSUME QuotaCheck PROVE SchedTyped'
  <2>1. CASE NextEntry
    BY <2>1, NextEntryTyped
  <2>2. CASE sched' = [sched EXCEPT !.pc = "pin"]
    BY <1>6, <2>2 DEF QuotaCheck, Typed, SchedTyped, SchedPcs
  <2>3. QED
    BY <1>6, <2>1, <2>2 DEF QuotaCheck, PushBack
<1>7. ASSUME Unpinned PROVE SchedTyped'
  BY <1>7 DEF Unpinned, Typed, SchedTyped, SchedPcs
<1>8. ASSUME NEW r \in Jobs, PinReserve(r)
      PROVE  SchedTyped'
  <2>1. place[r] \in Machines
    BY <1>8 DEF PinReserve, Fitting
  <2>2. QED
    BY <1>8, <2>1 DEF PinReserve, PinnedTo, Typed, SchedTyped, SchedPcs
<1>9. ASSUME NEW r \in Jobs, PinWait(r)
      PROVE  SchedTyped'
  BY <1>9, NextEntryTyped DEF PinWait, PushBack
<1>10. ASSUME CanFit PROVE SchedTyped'
  BY <1>10 DEF CanFit, Typed, SchedTyped, SchedPcs
<1>11. ASSUME NoFit PROVE SchedTyped'
  BY <1>11, NextEntryTyped DEF NoFit, PushBack
<1>12. ASSUME Reserve PROVE SchedTyped'
  <2>1. Min(Fitting(sched.job)) \in Machines
    BY <1>12, MinIsMember, DispatchParameters DEF Reserve, Fitting
  <2>2. QED
    BY <1>12, <2>1 DEF Reserve, Typed, SchedTyped, SchedPcs
<1>13. ASSUME ReserveFails PROVE SchedTyped'
  BY <1>13, NextEntryTyped DEF ReserveFails, PushBack
<1>14. ASSUME MachineOnline PROVE SchedTyped'
  BY <1>14 DEF MachineOnline, Typed, SchedTyped, SchedPcs
<1>15. ASSUME MachineOffline PROVE SchedTyped'
  BY <1>15, NextEntryTyped DEF MachineOffline, PushBack
<1>16. ASSUME Start PROVE SchedTyped'
  BY <1>16, NextEntryTyped DEF Start
<1>17. ASSUME DispatchStale PROVE SchedTyped'
  BY <1>17, NextEntryTyped DEF DispatchStale
<1>18. ASSUME NEW j \in Jobs, Enqueue(j)
      PROVE  SchedTyped'
  BY <1>18 DEF Enqueue, Pushed, Typed, SchedTyped, SchedPcs
<1>19. ASSUME NEW j \in Jobs, Finish(j)
      PROVE  SchedTyped'
  BY <1>19 DEF Finish, Typed, SchedTyped, SchedPcs
<1>20. ASSUME NEW j \in Jobs, Release(j)
      PROVE  SchedTyped'
  BY <1>20 DEF Release, Typed, SchedTyped, SchedPcs
<1>21. ASSUME NEW j \in Jobs, Cancel(j)
      PROVE  SchedTyped'
  BY <1>21 DEF Cancel, Typed, SchedTyped, SchedPcs
<1>22. ASSUME NEW j \in Jobs, Retry(j)
      PROVE  SchedTyped'
  BY <1>22 DEF Retry, Typed, SchedTyped, SchedPcs
<1>23. ASSUME Purge PROVE SchedTyped'
  BY <1>23 DEF Purge, Typed, SchedTyped, SchedPcs
<1>24. ASSUME NEW s \in Scope, delete_quota(s)
      PROVE  SchedTyped'
  BY <1>24 DEF delete_quota, Typed, SchedTyped, SchedPcs
<1>25. ASSUME NEW s \in Scope, NEW l \in Limits, upsert_quota(s, l)
      PROVE  SchedTyped'
  BY <1>25 DEF upsert_quota, Typed, SchedTyped, SchedPcs
<1>26. ASSUME NEW m \in Remote, ProbeMark(m)
      PROVE  SchedTyped'
  BY <1>26 DEF ProbeMark, Typed, SchedTyped, SchedPcs
<1>27. ASSUME NEW m \in Remote, ProbeAnswer(m)
      PROVE  SchedTyped'
  BY <1>27 DEF ProbeAnswer, Typed, SchedTyped, SchedPcs
<1>28. CASE UNCHANGED vars
  BY <1>28 DEF vars, Typed, SchedTyped, SchedPcs
<1>29. QED
  BY <1>1, <1>2, <1>3, <1>4, <1>5, <1>6, <1>7, <1>8, <1>9, <1>10, <1>11, <1>12, <1>13,
     <1>14, <1>15, <1>16, <1>17, <1>18, <1>19, <1>20, <1>21, <1>22, <1>23, <1>24, <1>25,
     <1>26, <1>27, <1>28 DEF Next, Scheduler

\* Every step keeps the types.
LEMMA TypedStep ==
  ASSUME Typed, [Next]_vars
  PROVE  Typed'
BY StoreStep, SchedStep DEF Typed

-----------------------------------------------------------------------------
(* Quotas. *)

\* Fewer jobs stay within a limit; no limit admits every set.
LEMMA WithinMonotone ==
  ASSUME NEW limit \in Limit, NEW T \in SUBSET Jobs, NEW S \in SUBSET T, Within(limit, T)
  PROVE  Within(limit, S)
<1>1. IsFiniteSet(T)
  BY FS_Subset, DispatchParameters
<1>2. IsFiniteSet(S) /\ Cardinality(S) <= Cardinality(T)
  BY <1>1, FS_Subset
<1>3. Cardinality(S) \in Nat /\ Cardinality(T) \in Nat
  BY <1>1, <1>2, FS_CardinalityType
<1>4. \A x \in T : Cores[x] \in Nat
  BY DispatchParameters
<1>5. Total(Cores, S) <= Total(Cores, T)
  BY <1>1, <1>4, TotalMonotone
<1>6. Total(Cores, S) \in Nat /\ Total(Cores, T) \in Nat
  BY <1>1, <1>2, <1>4, TotalType
<1>7. QED
  BY <1>2, <1>3, <1>5, <1>6 DEF Within, CoresOf, Limit

LEMMA UnlimitedAdmits ==
  ASSUME NEW S
  PROVE  Within(Unlimited, S)
BY DEF Within, Unlimited

\* The limit is reset with the turn.
LEMMA LimitStep ==
  ASSUME Typed, LimitResolved, [Next]_vars
  PROVE  LimitResolved'
<1>1. ASSUME TickBegins PROVE LimitResolved'
  BY <1>1 DEF TickBegins, Typed, SchedTyped, LimitResolved
<1>2. ASSUME ScanEnds PROVE LimitResolved'
  BY <1>2 DEF ScanEnds, Asleep, Typed, SchedTyped, LimitResolved
<1>3. ASSUME Pop PROVE LimitResolved'
  BY <1>3 DEF Pop, Typed, SchedTyped, LimitResolved
<1>4. ASSUME Recheck PROVE LimitResolved'
  BY <1>4 DEF Recheck, NextEntry, Asleep, Typed, SchedTyped, LimitResolved
<1>5. ASSUME ResolveQuota PROVE LimitResolved'
  BY <1>5 DEF ResolveQuota, Typed, SchedTyped, LimitResolved
<1>6. ASSUME QuotaCheck PROVE LimitResolved'
  BY <1>6 DEF QuotaCheck, PushBack, NextEntry, Asleep, Typed, SchedTyped, LimitResolved
<1>7. ASSUME Unpinned PROVE LimitResolved'
  BY <1>7 DEF Unpinned, Typed, SchedTyped, LimitResolved
<1>8. ASSUME NEW r \in Jobs, PinReserve(r)
      PROVE  LimitResolved'
  BY <1>8 DEF PinReserve, PinnedTo, Typed, SchedTyped, LimitResolved
<1>9. ASSUME NEW r \in Jobs, PinWait(r)
      PROVE  LimitResolved'
  BY <1>9 DEF PinWait, PushBack, NextEntry, Asleep, LimitResolved
<1>10. ASSUME CanFit PROVE LimitResolved'
  BY <1>10 DEF CanFit, Typed, SchedTyped, LimitResolved
<1>11. ASSUME NoFit PROVE LimitResolved'
  BY <1>11 DEF NoFit, PushBack, NextEntry, Asleep, LimitResolved
<1>12. ASSUME Reserve PROVE LimitResolved'
  BY <1>12 DEF Reserve, Typed, SchedTyped, LimitResolved
<1>13. ASSUME ReserveFails PROVE LimitResolved'
  BY <1>13 DEF ReserveFails, PushBack, NextEntry, Asleep, LimitResolved
<1>14. ASSUME MachineOnline PROVE LimitResolved'
  BY <1>14 DEF MachineOnline, Typed, SchedTyped, LimitResolved
<1>15. ASSUME MachineOffline PROVE LimitResolved'
  BY <1>15 DEF MachineOffline, PushBack, NextEntry, Asleep, LimitResolved
<1>16. ASSUME Start PROVE LimitResolved'
  BY <1>16 DEF Start, NextEntry, Asleep, Typed, SchedTyped, LimitResolved
<1>17. ASSUME DispatchStale PROVE LimitResolved'
  BY <1>17 DEF DispatchStale, NextEntry, Asleep, Typed, SchedTyped, LimitResolved
<1>18. ASSUME NEW j \in Jobs, Enqueue(j)
      PROVE  LimitResolved'
  BY <1>18 DEF Enqueue, Typed, SchedTyped, LimitResolved
<1>19. ASSUME NEW j \in Jobs, Finish(j)
      PROVE  LimitResolved'
  BY <1>19 DEF Finish, Typed, SchedTyped, LimitResolved
<1>20. ASSUME NEW j \in Jobs, Release(j)
      PROVE  LimitResolved'
  BY <1>20 DEF Release, Typed, SchedTyped, LimitResolved
<1>21. ASSUME NEW j \in Jobs, Cancel(j)
      PROVE  LimitResolved'
  BY <1>21 DEF Cancel, Typed, SchedTyped, LimitResolved
<1>22. ASSUME NEW j \in Jobs, Retry(j)
      PROVE  LimitResolved'
  BY <1>22 DEF Retry, Typed, SchedTyped, LimitResolved
<1>23. ASSUME Purge PROVE LimitResolved'
  BY <1>23 DEF Purge, Typed, SchedTyped, LimitResolved
<1>24. ASSUME NEW s \in Scope, delete_quota(s)
      PROVE  LimitResolved'
  BY <1>24 DEF delete_quota, Typed, SchedTyped, LimitResolved
<1>25. ASSUME NEW s \in Scope, NEW l \in Limits, upsert_quota(s, l)
      PROVE  LimitResolved'
  BY <1>25 DEF upsert_quota, Typed, SchedTyped, LimitResolved
<1>26. ASSUME NEW m \in Remote, ProbeMark(m)
      PROVE  LimitResolved'
  BY <1>26 DEF ProbeMark, Typed, SchedTyped, LimitResolved
<1>27. ASSUME NEW m \in Remote, ProbeAnswer(m)
      PROVE  LimitResolved'
  BY <1>27 DEF ProbeAnswer, Typed, SchedTyped, LimitResolved
<1>28. CASE UNCHANGED vars
  BY <1>28 DEF vars, Typed, SchedTyped, LimitResolved
<1>29. QED
  BY <1>1, <1>2, <1>3, <1>4, <1>5, <1>6, <1>7, <1>8, <1>9, <1>10, <1>11, <1>12, <1>13,
     <1>14, <1>15, <1>16, <1>17, <1>18, <1>19, <1>20, <1>21, <1>22, <1>23, <1>24, <1>25,
     <1>26, <1>27, <1>28 DEF Next, Scheduler

\* A step after which a job is past its check: it has no limit, it passes the
\* check now, or it passed it before and its turn goes on.
Admission ==
  \/ sched'.limit = Unlimited
  \/ /\ sched'.limit = sched.limit /\ sched'.job = sched.job
     /\ \/ sched.pc \in AdmittedPcs
        \/ Within(sched.limit, Counted(sched.job) \cup {sched.job})

\* There is no other way past the check.
LEMMA AdmissionStep ==
  ASSUME Typed, LimitResolved, sched'.pc \in AdmittedPcs, [Next]_vars
  PROVE  Admission
<1>1. ASSUME TickBegins PROVE Admission
  BY <1>1 DEF TickBegins, Typed, SchedTyped, LimitResolved, AdmittedPcs, Admission
<1>2. ASSUME ScanEnds PROVE Admission
  BY <1>2 DEF ScanEnds, Asleep, Typed, SchedTyped, LimitResolved, AdmittedPcs, Admission
<1>3. ASSUME Pop PROVE Admission
  BY <1>3 DEF Pop, Typed, SchedTyped, LimitResolved, AdmittedPcs, Admission
<1>4. ASSUME Recheck PROVE Admission
  BY <1>4 DEF Recheck, NextEntry, Asleep, Typed, SchedTyped, LimitResolved, AdmittedPcs,
     Admission
<1>5. ASSUME ResolveQuota PROVE Admission
  BY <1>5 DEF ResolveQuota, Typed, SchedTyped, LimitResolved, AdmittedPcs, Admission
<1>6. ASSUME QuotaCheck PROVE Admission
  BY <1>6 DEF QuotaCheck, PushBack, NextEntry, Asleep, Typed, SchedTyped, LimitResolved,
     AdmittedPcs, Admission
<1>7. ASSUME Unpinned PROVE Admission
  BY <1>7 DEF Unpinned, Typed, SchedTyped, LimitResolved, AdmittedPcs, Admission
<1>8. ASSUME NEW r \in Jobs, PinReserve(r)
      PROVE  Admission
  BY <1>8 DEF PinReserve, PinnedTo, Typed, SchedTyped, LimitResolved, AdmittedPcs, Admission
<1>9. ASSUME NEW r \in Jobs, PinWait(r)
      PROVE  Admission
  BY <1>9 DEF PinWait, PinnedTo, PushBack, NextEntry, Asleep, Typed, SchedTyped,
     LimitResolved, AdmittedPcs, Admission
<1>10. ASSUME CanFit PROVE Admission
  BY <1>10 DEF CanFit, Typed, SchedTyped, LimitResolved, AdmittedPcs, Admission
<1>11. ASSUME NoFit PROVE Admission
  BY <1>11 DEF NoFit, PushBack, NextEntry, Asleep, Typed, SchedTyped, LimitResolved,
     AdmittedPcs, Admission
<1>12. ASSUME Reserve PROVE Admission
  BY <1>12 DEF Reserve, Typed, SchedTyped, LimitResolved, AdmittedPcs, Admission
<1>13. ASSUME ReserveFails PROVE Admission
  BY <1>13 DEF ReserveFails, PushBack, NextEntry, Asleep, Typed, SchedTyped, LimitResolved,
     AdmittedPcs, Admission
<1>14. ASSUME MachineOnline PROVE Admission
  BY <1>14 DEF MachineOnline, Typed, SchedTyped, LimitResolved, AdmittedPcs, Admission
<1>15. ASSUME MachineOffline PROVE Admission
  BY <1>15 DEF MachineOffline, PushBack, NextEntry, Asleep, Typed, SchedTyped,
     LimitResolved, AdmittedPcs, Admission
<1>16. ASSUME Start PROVE Admission
  BY <1>16 DEF Start, NextEntry, Asleep, Typed, SchedTyped, LimitResolved, AdmittedPcs,
     Admission
<1>17. ASSUME DispatchStale PROVE Admission
  BY <1>17 DEF DispatchStale, NextEntry, Asleep, Typed, SchedTyped, LimitResolved,
     AdmittedPcs, Admission
<1>18. ASSUME NEW j \in Jobs, Enqueue(j)
      PROVE  Admission
  BY <1>18 DEF Enqueue, Typed, SchedTyped, LimitResolved, AdmittedPcs, Admission
<1>19. ASSUME NEW j \in Jobs, Finish(j)
      PROVE  Admission
  BY <1>19 DEF Finish, Typed, SchedTyped, LimitResolved, AdmittedPcs, Admission
<1>20. ASSUME NEW j \in Jobs, Release(j)
      PROVE  Admission
  BY <1>20 DEF Release, Typed, SchedTyped, LimitResolved, AdmittedPcs, Admission
<1>21. ASSUME NEW j \in Jobs, Cancel(j)
      PROVE  Admission
  BY <1>21 DEF Cancel, Typed, SchedTyped, LimitResolved, AdmittedPcs, Admission
<1>22. ASSUME NEW j \in Jobs, Retry(j)
      PROVE  Admission
  BY <1>22 DEF Retry, Typed, SchedTyped, LimitResolved, AdmittedPcs, Admission
<1>23. ASSUME Purge PROVE Admission
  BY <1>23 DEF Purge, Typed, SchedTyped, LimitResolved, AdmittedPcs, Admission
<1>24. ASSUME NEW s \in Scope, delete_quota(s)
      PROVE  Admission
  BY <1>24 DEF delete_quota, Typed, SchedTyped, LimitResolved, AdmittedPcs, Admission
<1>25. ASSUME NEW s \in Scope, NEW l \in Limits, upsert_quota(s, l)
      PROVE  Admission
  BY <1>25 DEF upsert_quota, Typed, SchedTyped, LimitResolved, AdmittedPcs, Admission
<1>26. ASSUME NEW m \in Remote, ProbeMark(m)
      PROVE  Admission
  BY <1>26 DEF ProbeMark, Typed, SchedTyped, LimitResolved, AdmittedPcs, Admission
<1>27. ASSUME NEW m \in Remote, ProbeAnswer(m)
      PROVE  Admission
  BY <1>27 DEF ProbeAnswer, Typed, SchedTyped, LimitResolved, AdmittedPcs, Admission
<1>28. CASE UNCHANGED vars
  BY <1>28 DEF vars, Typed, SchedTyped, LimitResolved, AdmittedPcs, Admission
<1>29. QED
  BY <1>1, <1>2, <1>3, <1>4, <1>5, <1>6, <1>7, <1>8, <1>9, <1>10, <1>11, <1>12, <1>13,
     <1>14, <1>15, <1>16, <1>17, <1>18, <1>19, <1>20, <1>21, <1>22, <1>23, <1>24, <1>25,
     <1>26, <1>27, <1>28 DEF Next, Scheduler

\* A step that starts no job.
NothingStarts == \A k \in Jobs : row'[k] = "RUNNING" => row[k] = "RUNNING"

\* Only the scheduler starts a job, and that ends the turn of the job.
LEMMA RunningStep ==
  ASSUME Typed, sched'.pc # "scan", [Next]_vars
  PROVE  NothingStarts
<1>1. ASSUME TickBegins PROVE NothingStarts
  BY <1>1 DEF TickBegins, Typed, StoreTyped, SchedTyped, NothingStarts
<1>2. ASSUME ScanEnds PROVE NothingStarts
  BY <1>2 DEF ScanEnds, Asleep, Typed, StoreTyped, SchedTyped, NothingStarts
<1>3. ASSUME Pop PROVE NothingStarts
  BY <1>3 DEF Pop, Typed, StoreTyped, SchedTyped, NothingStarts
<1>4. ASSUME Recheck PROVE NothingStarts
  BY <1>4 DEF Recheck, NextEntry, Asleep, Typed, StoreTyped, SchedTyped, NothingStarts
<1>5. ASSUME ResolveQuota PROVE NothingStarts
  BY <1>5 DEF ResolveQuota, Typed, StoreTyped, SchedTyped, NothingStarts
<1>6. ASSUME QuotaCheck PROVE NothingStarts
  BY <1>6 DEF QuotaCheck, PushBack, NextEntry, Asleep, Typed, StoreTyped, SchedTyped,
     NothingStarts
<1>7. ASSUME Unpinned PROVE NothingStarts
  BY <1>7 DEF Unpinned, Typed, StoreTyped, SchedTyped, NothingStarts
<1>8. ASSUME NEW r \in Jobs, PinReserve(r)
      PROVE  NothingStarts
  BY <1>8 DEF PinReserve, PinnedTo, Typed, StoreTyped, SchedTyped, NothingStarts
<1>9. ASSUME NEW r \in Jobs, PinWait(r)
      PROVE  NothingStarts
  BY <1>9 DEF PinWait, PinnedTo, PushBack, NextEntry, Asleep, Typed, StoreTyped, SchedTyped,
     NothingStarts
<1>10. ASSUME CanFit PROVE NothingStarts
  BY <1>10 DEF CanFit, Typed, StoreTyped, SchedTyped, NothingStarts
<1>11. ASSUME NoFit PROVE NothingStarts
  BY <1>11 DEF NoFit, PushBack, NextEntry, Asleep, Typed, StoreTyped, SchedTyped,
     NothingStarts
<1>12. ASSUME Reserve PROVE NothingStarts
  BY <1>12 DEF Reserve, Typed, StoreTyped, SchedTyped, NothingStarts
<1>13. ASSUME ReserveFails PROVE NothingStarts
  BY <1>13 DEF ReserveFails, PushBack, NextEntry, Asleep, Typed, StoreTyped, SchedTyped,
     NothingStarts
<1>14. ASSUME MachineOnline PROVE NothingStarts
  BY <1>14 DEF MachineOnline, Typed, StoreTyped, SchedTyped, NothingStarts
<1>15. ASSUME MachineOffline PROVE NothingStarts
  BY <1>15 DEF MachineOffline, PushBack, NextEntry, Asleep, Typed, StoreTyped, SchedTyped,
     NothingStarts
<1>16. ASSUME Start PROVE NothingStarts
  BY <1>16 DEF Start, NextEntry, Asleep, Typed, StoreTyped, SchedTyped, NothingStarts
<1>17. ASSUME DispatchStale PROVE NothingStarts
  BY <1>17 DEF DispatchStale, NextEntry, Asleep, Typed, StoreTyped, SchedTyped,
     NothingStarts
<1>18. ASSUME NEW j \in Jobs, Enqueue(j)
      PROVE  NothingStarts
  BY <1>18 DEF Enqueue, Typed, StoreTyped, SchedTyped, NothingStarts
<1>19. ASSUME NEW j \in Jobs, Finish(j)
      PROVE  NothingStarts
  BY <1>19 DEF Finish, Typed, StoreTyped, SchedTyped, NothingStarts
<1>20. ASSUME NEW j \in Jobs, Release(j)
      PROVE  NothingStarts
  BY <1>20 DEF Release, Typed, StoreTyped, SchedTyped, NothingStarts
<1>21. ASSUME NEW j \in Jobs, Cancel(j)
      PROVE  NothingStarts
  BY <1>21 DEF Cancel, Typed, StoreTyped, SchedTyped, NothingStarts
<1>22. ASSUME NEW j \in Jobs, Retry(j)
      PROVE  NothingStarts
  BY <1>22 DEF Retry, Typed, StoreTyped, SchedTyped, NothingStarts
<1>23. ASSUME Purge PROVE NothingStarts
  BY <1>23 DEF Purge, Typed, StoreTyped, SchedTyped, NothingStarts
<1>24. ASSUME NEW s \in Scope, delete_quota(s)
      PROVE  NothingStarts
  BY <1>24 DEF delete_quota, Typed, StoreTyped, SchedTyped, NothingStarts
<1>25. ASSUME NEW s \in Scope, NEW l \in Limits, upsert_quota(s, l)
      PROVE  NothingStarts
  BY <1>25 DEF upsert_quota, Typed, StoreTyped, SchedTyped, NothingStarts
<1>26. ASSUME NEW m \in Remote, ProbeMark(m)
      PROVE  NothingStarts
  BY <1>26 DEF ProbeMark, Typed, StoreTyped, SchedTyped, NothingStarts
<1>27. ASSUME NEW m \in Remote, ProbeAnswer(m)
      PROVE  NothingStarts
  BY <1>27 DEF ProbeAnswer, Typed, StoreTyped, SchedTyped, NothingStarts
<1>28. CASE UNCHANGED vars
  BY <1>28 DEF vars, Typed, StoreTyped, SchedTyped, NothingStarts
<1>29. QED
  BY <1>1, <1>2, <1>3, <1>4, <1>5, <1>6, <1>7, <1>8, <1>9, <1>10, <1>11, <1>12, <1>13,
     <1>14, <1>15, <1>16, <1>17, <1>18, <1>19, <1>20, <1>21, <1>22, <1>23, <1>24, <1>25,
     <1>26, <1>27, <1>28 DEF Next, Scheduler

\* What was admitted stays admitted: meanwhile jobs may only stop running.
LEMMA AdmittedStep ==
  ASSUME Typed, LimitResolved, Admitted, [Next]_vars
  PROVE  Admitted'
<1> SUFFICES ASSUME sched'.pc \in AdmittedPcs
             PROVE  Within(sched'.limit, Counted(sched.job)' \cup {sched'.job})
  BY DEF Admitted
<1>1. CASE sched'.limit = Unlimited
  BY <1>1, UnlimitedAdmits
<1>2. CASE /\ sched'.limit = sched.limit /\ sched'.job = sched.job
           /\ Within(sched.limit, Counted(sched.job) \cup {sched.job})
  <2>1. sched.limit \in Limit
    BY DEF Typed, SchedTyped
  <2>2. sched'.job \in Jobs
    BY TypedStep DEF Typed, SchedTyped, AdmittedPcs
  <2>3. NothingStarts
    BY RunningStep DEF AdmittedPcs
  <2>4. Counted(sched.job)' \subseteq Counted(sched.job) /\ Counted(sched.job) \subseteq Jobs
    BY <1>2, <2>3 DEF Counted, NothingStarts
  <2>5. Counted(sched.job) \cup {sched.job} \in SUBSET Jobs
    BY <1>2, <2>2, <2>4
  <2>6. Counted(sched.job)' \cup {sched.job} \in SUBSET (Counted(sched.job) \cup {sched.job})
    BY <2>4
  <2>7. Within(sched.limit, Counted(sched.job)' \cup {sched.job})
    BY <1>2, <2>1, <2>5, <2>6, WithinMonotone
  <2>8. QED
    BY <1>2, <2>7
<1>3. QED
  BY <1>1, <1>2, AdmissionStep DEF Admission, Admitted

-----------------------------------------------------------------------------
(* Pins. *)

\* A job leaves the choice open only when the job it names is gone, and the
\* machine of that job can only be taken back by its retry.
LEMMA PinStep ==
  ASSUME Typed, PinKept, [Next]_vars
  PROVE  PinKept'
<1>1. ASSUME TickBegins PROVE PinKept'
  <2>1. sched'.pc \in {"scan"}
    BY <1>1 DEF TickBegins, Typed, SchedTyped
  <2>2. QED
    BY <2>1 DEF PinKept
<1>2. ASSUME ScanEnds PROVE PinKept'
  <2>1. sched'.pc \in {"sleep"}
    BY <1>2 DEF ScanEnds, Asleep, Typed, SchedTyped
  <2>2. QED
    BY <2>1 DEF PinKept
<1>3. ASSUME Pop PROVE PinKept'
  <2>1. sched'.pc \in {"recheck"}
    BY <1>3 DEF Pop, Typed, SchedTyped
  <2>2. QED
    BY <2>1 DEF PinKept
<1>4. ASSUME Recheck PROVE PinKept'
  <2>1. sched'.pc \in {"quota", "scan"}
    BY <1>4 DEF Recheck, NextEntry, Asleep, Typed, SchedTyped
  <2>2. QED
    BY <2>1 DEF PinKept
<1>5. ASSUME ResolveQuota PROVE PinKept'
  <2>1. sched'.pc \in {"usage", "quota", "pin"}
    BY <1>5 DEF ResolveQuota, Typed, SchedTyped
  <2>2. QED
    BY <2>1 DEF PinKept
<1>6. ASSUME QuotaCheck PROVE PinKept'
  <2>1. sched'.pc \in {"pin", "scan"}
    BY <1>6 DEF QuotaCheck, PushBack, NextEntry, Asleep, Typed, SchedTyped
  <2>2. QED
    BY <2>1 DEF PinKept
<1>7. ASSUME Unpinned PROVE PinKept'
  BY <1>7, DispatchParameters DEF Unpinned, Typed, StoreTyped, SchedTyped, PinKept,
     Statuses, Terminal
<1>8. ASSUME NEW r \in Jobs, PinReserve(r)
      PROVE  PinKept'
  BY <1>8, DispatchParameters DEF PinReserve, PinnedTo, Typed, StoreTyped, SchedTyped,
     PinKept, Statuses, Terminal
<1>9. ASSUME NEW r \in Jobs, PinWait(r)
      PROVE  PinKept'
  BY <1>9, DispatchParameters DEF PinWait, PinnedTo, PushBack, NextEntry, Asleep, Typed,
     StoreTyped, SchedTyped, PinKept, Statuses, Terminal
<1>10. ASSUME CanFit PROVE PinKept'
  BY <1>10, DispatchParameters DEF CanFit, Typed, StoreTyped, SchedTyped, PinKept, Statuses,
     Terminal
<1>11. ASSUME NoFit PROVE PinKept'
  BY <1>11, DispatchParameters DEF NoFit, PushBack, NextEntry, Asleep, Typed, StoreTyped,
     SchedTyped, PinKept, Statuses, Terminal
<1>12. ASSUME Reserve PROVE PinKept'
  BY <1>12, DispatchParameters DEF Reserve, Typed, StoreTyped, SchedTyped, PinKept,
     Statuses, Terminal
<1>13. ASSUME ReserveFails PROVE PinKept'
  BY <1>13, DispatchParameters DEF ReserveFails, PushBack, NextEntry, Asleep, Typed,
     StoreTyped, SchedTyped, PinKept, Statuses, Terminal
<1>14. ASSUME MachineOnline PROVE PinKept'
  BY <1>14, DispatchParameters DEF MachineOnline, Typed, StoreTyped, SchedTyped, PinKept,
     Statuses, Terminal
<1>15. ASSUME MachineOffline PROVE PinKept'
  BY <1>15, DispatchParameters DEF MachineOffline, PushBack, NextEntry, Asleep, Typed,
     StoreTyped, SchedTyped, PinKept, Statuses, Terminal
<1>16. ASSUME Start PROVE PinKept'
  BY <1>16, DispatchParameters DEF Start, NextEntry, Asleep, Typed, StoreTyped, SchedTyped,
     PinKept, Statuses, Terminal
<1>17. ASSUME DispatchStale PROVE PinKept'
  BY <1>17, DispatchParameters DEF DispatchStale, NextEntry, Asleep, Typed, StoreTyped,
     SchedTyped, PinKept, Statuses, Terminal
<1>18. ASSUME NEW j \in Jobs, Enqueue(j)
      PROVE  PinKept'
  BY <1>18, DispatchParameters DEF Enqueue, Typed, StoreTyped, SchedTyped, PinKept,
     Statuses, Terminal
<1>19. ASSUME NEW j \in Jobs, Finish(j)
      PROVE  PinKept'
  BY <1>19, DispatchParameters DEF Finish, Typed, StoreTyped, SchedTyped, PinKept, Statuses,
     Terminal
<1>20. ASSUME NEW j \in Jobs, Release(j)
      PROVE  PinKept'
  BY <1>20, DispatchParameters DEF Release, Typed, StoreTyped, SchedTyped, PinKept,
     Statuses, Terminal
<1>21. ASSUME NEW j \in Jobs, Cancel(j)
      PROVE  PinKept'
  BY <1>21, DispatchParameters DEF Cancel, Typed, StoreTyped, SchedTyped, PinKept, Statuses,
     Terminal
<1>22. ASSUME NEW j \in Jobs, Retry(j)
      PROVE  PinKept'
  BY <1>22, DispatchParameters DEF Retry, Typed, StoreTyped, SchedTyped, PinKept, Statuses,
     Terminal
<1>23. ASSUME Purge PROVE PinKept'
  BY <1>23, DispatchParameters DEF Purge, Typed, StoreTyped, SchedTyped, PinKept, Statuses,
     Terminal
<1>24. ASSUME NEW s \in Scope, delete_quota(s)
      PROVE  PinKept'
  BY <1>24, DispatchParameters DEF delete_quota, Typed, StoreTyped, SchedTyped, PinKept,
     Statuses, Terminal
<1>25. ASSUME NEW s \in Scope, NEW l \in Limits, upsert_quota(s, l)
      PROVE  PinKept'
  BY <1>25, DispatchParameters DEF upsert_quota, Typed, StoreTyped, SchedTyped, PinKept,
     Statuses, Terminal
<1>26. ASSUME NEW m \in Remote, ProbeMark(m)
      PROVE  PinKept'
  BY <1>26, DispatchParameters DEF ProbeMark, Typed, StoreTyped, SchedTyped, PinKept,
     Statuses, Terminal
<1>27. ASSUME NEW m \in Remote, ProbeAnswer(m)
      PROVE  PinKept'
  BY <1>27, DispatchParameters DEF ProbeAnswer, Typed, StoreTyped, SchedTyped, PinKept,
     Statuses, Terminal
<1>28. CASE UNCHANGED vars
  BY <1>28 DEF vars, Typed, StoreTyped, SchedTyped, PinKept, Statuses, Terminal
<1>29. QED
  BY <1>1, <1>2, <1>3, <1>4, <1>5, <1>6, <1>7, <1>8, <1>9, <1>10, <1>11, <1>12, <1>13,
     <1>14, <1>15, <1>16, <1>17, <1>18, <1>19, <1>20, <1>21, <1>22, <1>23, <1>24, <1>25,
     <1>26, <1>27, <1>28 DEF Next, Scheduler

-----------------------------------------------------------------------------
(* Theorems. *)

\* The scheduler sleeps: it holds no job, no limit and no machine.
LEMMA InitIInv == Init => IInv
<1> SUFFICES ASSUME Init PROVE IInv
  OBVIOUS
<1>1. sched.pc = "sleep" /\ sched.limit = Unlimited
  BY DEF Init, Asleep
<1>2. QED
  BY <1>1, InitTyped DEF IInv, LimitResolved, Admitted, AdmittedPcs, PinKept

\* IInv is an invariant: typed state, limits reset between turns, a job past
\* its check still within its limit, a pinned job past its pin still pinned.
THEOREM Invariance == Spec => []IInv
<1>1. ASSUME IInv, [Next]_vars PROVE IInv'
  BY <1>1, TypedStep, LimitStep, AdmittedStep, PinStep DEF IInv
<1>2. QED
  BY <1>1, InitIInv, PTL DEF Spec

\* Statuses, queue counts, reservations and the turn of the scheduler keep
\* their types; no queue entry is counted out twice (queue_pop racing
\* queue_remove of a cancel) and no scan counter falls below zero.
THEOREM TypeCorrect == Spec => []TypeOK
<1>1. IInv => TypeOK
  BY TypeOKOfTyped DEF IInv
<1>2. QED
  BY <1>1, Invariance, PTL

\* A start is the step of the scheduler for the job of its turn.
LEMMA StartStep ==
  ASSUME Typed, NEW k \in Jobs, row[k] = "QUEUED", row'[k] = "RUNNING", [Next]_vars
  PROVE  Start /\ k = sched.job
<1>1. ASSUME TickBegins PROVE Start /\ k = sched.job
  BY <1>1 DEF TickBegins, Typed, StoreTyped, SchedTyped
<1>2. ASSUME ScanEnds PROVE Start /\ k = sched.job
  BY <1>2 DEF ScanEnds, Asleep, Typed, StoreTyped, SchedTyped
<1>3. ASSUME Pop PROVE Start /\ k = sched.job
  BY <1>3 DEF Pop, Typed, StoreTyped, SchedTyped
<1>4. ASSUME Recheck PROVE Start /\ k = sched.job
  BY <1>4 DEF Recheck, NextEntry, Asleep, Typed, StoreTyped, SchedTyped
<1>5. ASSUME ResolveQuota PROVE Start /\ k = sched.job
  BY <1>5 DEF ResolveQuota, Typed, StoreTyped, SchedTyped
<1>6. ASSUME QuotaCheck PROVE Start /\ k = sched.job
  BY <1>6 DEF QuotaCheck, PushBack, NextEntry, Asleep, Typed, StoreTyped, SchedTyped
<1>7. ASSUME Unpinned PROVE Start /\ k = sched.job
  BY <1>7 DEF Unpinned, Typed, StoreTyped, SchedTyped
<1>8. ASSUME NEW r \in Jobs, PinReserve(r)
      PROVE  Start /\ k = sched.job
  BY <1>8 DEF PinReserve, PinnedTo, Typed, StoreTyped, SchedTyped
<1>9. ASSUME NEW r \in Jobs, PinWait(r)
      PROVE  Start /\ k = sched.job
  BY <1>9 DEF PinWait, PinnedTo, PushBack, NextEntry, Asleep, Typed, StoreTyped, SchedTyped
<1>10. ASSUME CanFit PROVE Start /\ k = sched.job
  BY <1>10 DEF CanFit, Typed, StoreTyped, SchedTyped
<1>11. ASSUME NoFit PROVE Start /\ k = sched.job
  BY <1>11 DEF NoFit, PushBack, NextEntry, Asleep, Typed, StoreTyped, SchedTyped
<1>12. ASSUME Reserve PROVE Start /\ k = sched.job
  BY <1>12 DEF Reserve, Typed, StoreTyped, SchedTyped
<1>13. ASSUME ReserveFails PROVE Start /\ k = sched.job
  BY <1>13 DEF ReserveFails, PushBack, NextEntry, Asleep, Typed, StoreTyped, SchedTyped
<1>14. ASSUME MachineOnline PROVE Start /\ k = sched.job
  BY <1>14 DEF MachineOnline, Typed, StoreTyped, SchedTyped
<1>15. ASSUME MachineOffline PROVE Start /\ k = sched.job
  BY <1>15 DEF MachineOffline, PushBack, NextEntry, Asleep, Typed, StoreTyped, SchedTyped
<1>16. ASSUME Start PROVE Start /\ k = sched.job
  BY <1>16 DEF Start, NextEntry, Asleep, Typed, StoreTyped, SchedTyped
<1>17. ASSUME DispatchStale PROVE Start /\ k = sched.job
  BY <1>17 DEF DispatchStale, NextEntry, Asleep, Typed, StoreTyped, SchedTyped
<1>18. ASSUME NEW j \in Jobs, Enqueue(j)
      PROVE  Start /\ k = sched.job
  BY <1>18 DEF Enqueue, Typed, StoreTyped, SchedTyped
<1>19. ASSUME NEW j \in Jobs, Finish(j)
      PROVE  Start /\ k = sched.job
  BY <1>19 DEF Finish, Typed, StoreTyped, SchedTyped
<1>20. ASSUME NEW j \in Jobs, Release(j)
      PROVE  Start /\ k = sched.job
  BY <1>20 DEF Release, Typed, StoreTyped, SchedTyped
<1>21. ASSUME NEW j \in Jobs, Cancel(j)
      PROVE  Start /\ k = sched.job
  BY <1>21 DEF Cancel, Typed, StoreTyped, SchedTyped
<1>22. ASSUME NEW j \in Jobs, Retry(j)
      PROVE  Start /\ k = sched.job
  BY <1>22 DEF Retry, Typed, StoreTyped, SchedTyped
<1>23. ASSUME Purge PROVE Start /\ k = sched.job
  BY <1>23 DEF Purge, Typed, StoreTyped, SchedTyped
<1>24. ASSUME NEW s \in Scope, delete_quota(s)
      PROVE  Start /\ k = sched.job
  BY <1>24 DEF delete_quota, Typed, StoreTyped, SchedTyped
<1>25. ASSUME NEW s \in Scope, NEW l \in Limits, upsert_quota(s, l)
      PROVE  Start /\ k = sched.job
  BY <1>25 DEF upsert_quota, Typed, StoreTyped, SchedTyped
<1>26. ASSUME NEW m \in Remote, ProbeMark(m)
      PROVE  Start /\ k = sched.job
  BY <1>26 DEF ProbeMark, Typed, StoreTyped, SchedTyped
<1>27. ASSUME NEW m \in Remote, ProbeAnswer(m)
      PROVE  Start /\ k = sched.job
  BY <1>27 DEF ProbeAnswer, Typed, StoreTyped, SchedTyped
<1>28. CASE UNCHANGED vars
  BY <1>28 DEF vars, Typed, StoreTyped, SchedTyped
<1>29. QED
  BY <1>1, <1>2, <1>3, <1>4, <1>5, <1>6, <1>7, <1>8, <1>9, <1>10, <1>11, <1>12, <1>13,
     <1>14, <1>15, <1>16, <1>17, <1>18, <1>19, <1>20, <1>21, <1>22, <1>23, <1>24, <1>25,
     <1>26, <1>27, <1>28 DEF Next, Scheduler

\* A job only starts if what runs for its user and app, itself included, is
\* within the limit resolved for it: nothing that happens between the check of
\* scheduler.c and the write of RUNNING by executor.c adds to the usage.
THEOREM StartsWithinQuota == Spec => StartWithinQuota
<1> DEFINE P == \A j \in Jobs : row[j] = "QUEUED" /\ row'[j] = "RUNNING"
                  => Within(sched.limit, Counted(j)')
<1>1. ASSUME IInv, [Next]_vars PROVE P
  <2> SUFFICES ASSUME NEW j \in Jobs, row[j] = "QUEUED", row'[j] = "RUNNING"
               PROVE  Within(sched.limit, Counted(j)')
    OBVIOUS
  <2>1. Start /\ j = sched.job
    BY <1>1, StartStep DEF IInv
  <2>2. Within(sched.limit, Counted(j) \cup {j})
    BY <1>1, <2>1 DEF IInv, Admitted, AdmittedPcs, Start
  <2>3. \A k \in Jobs : row'[k] = "RUNNING" => row[k] = "RUNNING" \/ k = j
    BY <1>1, <2>1 DEF Start, IInv, Typed, StoreTyped
  <2>4. Counted(j)' \in SUBSET (Counted(j) \cup {j}) /\ Counted(j) \cup {j} \in SUBSET Jobs
    BY <2>3 DEF Counted
  <2>5. sched.limit \in Limit
    BY <1>1 DEF IInv, Typed, SchedTyped
  <2>6. QED
    BY <2>2, <2>4, <2>5, WithinMonotone
<1>2. IInv /\ [Next]_vars => [P]_vars
  BY <1>1
<1>3. QED
  BY <1>2, Invariance, PTL DEF Spec, StartWithinQuota

\* A job pinned to another job's machine starts there or, when that job's row
\* is gone or names no machine any more, wherever it was sent: it never starts
\* beside the job it must be with.
THEOREM PinnedShareMachine == Spec => PinnedJobsShareMachine
<1> DEFINE P == \A j \in Jobs : LET r == SameMachineAs[j] IN
                  row[j] = "QUEUED" /\ row'[j] = "RUNNING" /\ r # None
                    => row[r] = "PURGED" \/ place[r] \in {None, place'[j]}
<1>1. ASSUME IInv, [Next]_vars PROVE P
  <2> SUFFICES ASSUME NEW j \in Jobs, row[j] = "QUEUED", row'[j] = "RUNNING",
                      SameMachineAs[j] # None
               PROVE  \/ row[SameMachineAs[j]] = "PURGED"
                      \/ place[SameMachineAs[j]] \in {None, place'[j]}
    OBVIOUS
  <2>1. Start /\ j = sched.job
    BY <1>1, StartStep DEF IInv
  <2>2. SameMachineAs[j] \in Jobs
    BY DispatchParameters
  <2>3. place'[j] = sched.at
    BY <1>1, <2>1 DEF Start, IInv, Typed, StoreTyped
  <2>4. QED
    BY <1>1, <2>1, <2>2, <2>3 DEF IInv, PinKept, Start
<1>2. IInv /\ [Next]_vars => [P]_vars
  BY <1>1
<1>3. QED
  BY <1>2, Invariance, PTL DEF Spec, PinnedJobsShareMachine

=============================================================================
