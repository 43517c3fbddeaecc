-------------------------- MODULE ResourcesProofs ---------------------------
(***************************************************************************)
(* No machine is overcommitted and the rows of table allocations follow    *)
(* the records, for every set of machines, jobs and resource kinds,        *)
(* checked by TLAPS.                                                       *)
(***************************************************************************)
EXTENDS Resources, SumsProofs, TLAPS

\* The allocation in progress names a job that is not being released, whose
\* open rows, if any, are left over from a release that failed, and a
\* machine; it has its record once registry_reserve has succeeded.  A release
\* in progress has taken its record.  A cloud request names an instance.
InProgress ==
  /\ sched.pc # "idle" =>
       /\ sched.job \in Jobs \ releasing /\ sched.on \in Machines
       /\ sched.job \in row => sched.job \in unsaved
  /\ sched.pc = "persist" => record[sched.job] # NoSlot
  /\ \A j \in releasing : record[j] = NoSlot
  /\ cloud.pc # "idle" => cloud.at \in Machines

\* The inductive invariant.
IInv == TypeOK /\ InProgress /\ NoOvercommit /\ RowsFollowRecords

\* Sums, clamped differences and zero are resource vectors.
LEMMA VectorOps ==
  /\ Zero \in Vector
  /\ \A u, v \in Vector : Plus(u, v) \in Vector /\ Minus(u, v) \in Vector
  BY DEF Zero, Plus, Minus, Vector

\* A reservation that fits keeps the machine within its size.
LEMMA FitsWithin ==
  ASSUME NEW x \in MachineType, NEW v \in Vector, machine_can_fit(x, v)
  PROVE  Covers(x.total, Plus(Plus(x.reserved, v), x.min))
  BY DEF MachineType, Vector, machine_can_fit, Covers, Plus

\* Giving back, clamped or not, keeps the machine within its size.
LEMMA ReleaseWithin ==
  ASSUME NEW x \in MachineType, NEW v \in Vector, Covers(x.total, Plus(x.reserved, x.min))
  PROVE  Covers(x.total, Plus(Minus(x.reserved, v), x.min))
  BY DEF MachineType, Vector, Covers, Plus, Minus

\* What registry_load reads is well typed and within its size.
LEMMA LoadedFacts ==
  ASSUME NEW pool, NEW f \in Loaded(pool)
  PROVE  /\ f \in [Machines -> MachineType]
         /\ \A m \in pool \cap Machines : Covers(f[m].total, Plus(f[m].reserved, f[m].min))
  <1>1. Blank \in MachineType
    BY VectorOps DEF Blank, MachineType
  <1>2. Loadable \subseteq MachineType
    BY VectorOps, Vectors DEF Loadable, MachineType, Vector
  <1>3. \A d \in Loadable : Covers(d.total, Plus(d.reserved, d.min))
    <2> SUFFICES ASSUME NEW d \in Loadable PROVE Covers(d.total, Plus(d.reserved, d.min))
      OBVIOUS
    <2>1. d \in MachineType /\ d.reserved = Zero /\ Covers(d.total, d.min)
      BY <1>2 DEF Loadable, ValidSize
    <2> QED BY <2>1 DEF MachineType, Vector, Covers, Plus, Zero
  <1>4. PICK g \in [pool -> Loadable] : f = [m \in Machines |-> IF m \in pool THEN g[m] ELSE Blank]
    BY DEF Loaded
  <1>5. \A m \in pool \cap Machines : f[m] \in Loadable
    BY <1>4
  <1> QED BY <1>1, <1>2, <1>3, <1>4, <1>5

\* registry_upsert keeps the registry well typed and within size.
LEMMA UpsertFacts ==
  ASSUME TypeOK, NoOvercommit, NEW m \in Machines, NEW def \in MachineType,
         def.reserved = Zero, registry_upsert(m, def)
  PROVE  /\ present' \subseteq Machines /\ machine' \in [Machines -> MachineType]
         /\ NoOvercommit'
  <1> USE DEF TypeOK, registry_upsert
  <1>1. CASE m \in present
    <2> DEFINE x == [def EXCEPT !.reserved = machine[m].reserved, !.status = machine[m].status]
    <2>1. x \in MachineType /\ x.total = def.total /\ x.min = def.min
          /\ x.reserved = machine[m].reserved
      BY DEF MachineType
    <2>2. machine' = [machine EXCEPT ![m] = x] /\ present' = present
          /\ Covers(def.total, Plus(machine[m].reserved, def.min))
      BY <1>1
    <2> HIDE DEF x
    <2>3. NoOvercommit'
      BY <2>1, <2>2 DEF NoOvercommit
    <2> QED BY <2>1, <2>2, <2>3
  <1>2. CASE m \notin present
    <2>1. Covers(def.total, Plus(def.reserved, def.min))
      BY DEF ValidSize, MachineType, Vector, Covers, Plus, Zero
    <2>2. machine' = [machine EXCEPT ![m] = def] /\ present' = present \cup {m}
      BY <1>2
    <2>3. NoOvercommit'
      BY <2>1, <2>2 DEF NoOvercommit
    <2> QED BY <2>2, <2>3
  <1> QED BY <1>1, <1>2

\* registry_release keeps the registry well typed and within size.
LEMMA ReleaseFacts ==
  ASSUME TypeOK, NoOvercommit, NEW slot \in SlotType, registry_release(slot), present' = present
  PROVE  machine' \in [Machines -> MachineType] /\ NoOvercommit'
  <1> USE DEF TypeOK
  <1>1. CASE slot.on \in present
    <2> DEFINE x == [machine[slot.on] EXCEPT !.reserved = Minus(@, slot.amount)]
    <2>1. slot.on \in Machines /\ slot.amount \in Vector /\ machine[slot.on] \in MachineType
      BY <1>1 DEF SlotType
    <2>2. x \in MachineType /\ x.total = machine[slot.on].total /\ x.min = machine[slot.on].min
          /\ x.reserved = Minus(machine[slot.on].reserved, slot.amount)
      BY <2>1, VectorOps DEF MachineType
    <2>3. Covers(x.total, Plus(x.reserved, x.min))
      BY <1>1, <2>1, <2>2, ReleaseWithin DEF NoOvercommit
    <2>4. machine' = [machine EXCEPT ![slot.on] = x]
      BY <1>1, <2>1 DEF registry_release
    <2> HIDE DEF x
    <2> QED BY <2>1, <2>2, <2>3, <2>4 DEF NoOvercommit
  <1>2. CASE slot.on \notin present
    BY <1>2 DEF registry_release, NoOvercommit
  <1> QED BY <1>1, <1>2

\* registry_update_probe changes a status and nothing else.
LEMMA StatusFacts ==
  ASSUME TypeOK, NoOvercommit, NEW m \in Machines,
         NEW status \in {"ONLINE", "OFFLINE", "PROBING"}, SetStatus(m, status),
         present' = present
  PROVE  machine' \in [Machines -> MachineType] /\ NoOvercommit'
  <1> DEFINE x == [machine[m] EXCEPT !.status = status]
  <1>1. x \in MachineType /\ x.total = machine[m].total /\ x.min = machine[m].min
        /\ x.reserved = machine[m].reserved
    BY DEF TypeOK, MachineType
  <1>2. machine' = [machine EXCEPT ![m] = x] \/ machine' = machine
    BY DEF SetStatus, TypeOK
  <1> HIDE DEF x
  <1> QED BY <1>1, <1>2 DEF TypeOK, NoOvercommit

\* The slot of a reservation is well typed and names a machine.
LEMMA SlotFacts ==
  ASSUME NEW on \in Machines, NEW v \in Vector
  PROVE  [on |-> on, amount |-> v] \in SlotType /\ [on |-> on, amount |-> v] # NoSlot
  BY Names DEF SlotType, NoSlot

\* The invariant holds initially and every step keeps it.
LEMMA Invariance == Spec => []IInv
  <1>0. NoSlot \in SlotType /\ Zero \in Vector
    BY VectorOps DEF NoSlot, SlotType
  <1>1. Init => IInv
    <2> SUFFICES ASSUME Init PROVE IInv
      OBVIOUS
    <2>1. machine \in [Machines -> MachineType] /\ NoOvercommit
      BY LoadedFacts, Names DEF Init, NoOvercommit
    <2>2. TypeOK
      BY <1>0, <2>1, Bound, Names DEF Init, TypeOK, Idle, NoRequest
    <2> QED BY <2>1, <2>2 DEF Init, IInv, InProgress, RowsFollowRecords, Idle, NoRequest
  <1>2. IInv /\ [Next]_vars => IInv'
    <2> SUFFICES ASSUME IInv, [Next]_vars PROVE IInv'
      OBVIOUS
    <2> USE DEF IInv
    <2>1. ASSUME NEW m \in Machines, NEW total \in Sizes, NEW enabled \in BOOLEAN,
                 AddMachine(m, total, enabled)
          PROVE  IInv'
      <3> DEFINE def == [total |-> total, min |-> Zero, reserved |-> Zero,
                         enabled |-> enabled, status |-> "PROBING", type |-> "STATIC"]
      <3>1. def \in MachineType /\ def.reserved = Zero
        BY <1>0, Vectors DEF MachineType, Vector
      <3>2. registry_upsert(m, def)
        BY <2>1 DEF AddMachine
      <3> HIDE DEF def
      <3>3. present' \subseteq Machines /\ machine' \in [Machines -> MachineType] /\ NoOvercommit'
        BY <3>1, <3>2, UpsertFacts
      <3> QED BY <2>1, <3>3 DEF AddMachine, TypeOK, InProgress, RowsFollowRecords
    <2>2. CASE Cloud
      <3>1. ASSUME NEW total \in Sizes, NEW min \in Sizes, CloudRegister(total, min)
            PROVE  IInv'
        <4> DEFINE def == [total |-> total, min |-> min, reserved |-> Zero,
                           enabled |-> TRUE, status |-> "PROBING", type |-> "CLOUD"]
        <4>1. def \in MachineType /\ def.reserved = Zero
          BY <1>0, Vectors DEF MachineType, Vector
        <4>2. /\ registry_upsert(cloud.at, def) \/ UNCHANGED <<present, machine>>
              /\ instances' \subseteq CloudIds /\ cloud.at \in Machines /\ cloud' = NoRequest
              /\ UNCHANGED <<record, row, sched, releasing, unsaved, probe, restarts>>
          BY <3>1 DEF CloudRegister, TypeOK, InProgress
        <4> HIDE DEF def
        <4>3. present' \subseteq Machines /\ machine' \in [Machines -> MachineType] /\ NoOvercommit'
          BY <4>1, <4>2, UpsertFacts DEF TypeOK, NoOvercommit
        <4> QED BY <4>2, <4>3 DEF NoRequest, TypeOK, InProgress, RowsFollowRecords
      <3>2. ASSUME NEW m \in Machines, CloudCreate(m) \/ DeprovisionCheck(m)
            PROVE  IInv'
        BY <3>2 DEF CloudCreate, DeprovisionCheck, TypeOK, InProgress, NoOvercommit, RowsFollowRecords
      <3>3. CASE DeprovisionTerminate
        BY <3>3 DEF DeprovisionTerminate, NoRequest, TypeOK, InProgress, NoOvercommit, RowsFollowRecords
      <3>4. CASE DeprovisionRemove
        <4>1. Blank \in MachineType
          BY <1>0 DEF Blank, MachineType
        <4>2. TypeOK' /\ NoOvercommit'
          BY <3>4, <4>1 DEF DeprovisionRemove, NoRequest, TypeOK, NoOvercommit
        <4> QED BY <3>4, <4>2 DEF DeprovisionRemove, NoRequest, InProgress, RowsFollowRecords
      <3> QED BY <2>2, <3>1, <3>2, <3>3, <3>4 DEF Cloud
    <2>3. ASSUME NEW m \in Machines, RemoveMachine(m)
          PROVE  IInv'
      <3>1. Blank \in MachineType
        BY <1>0 DEF Blank, MachineType
      <3>2. TypeOK' /\ NoOvercommit'
        BY <2>3, <3>1 DEF RemoveMachine, TypeOK, NoOvercommit
      <3> QED BY <2>3, <3>2 DEF RemoveMachine, InProgress, RowsFollowRecords
    <2>4. ASSUME NEW j \in Jobs, NEW req \in Requests, NEW m \in Machines,
                 ReserveChoose(j, req, m)
          PROVE  IInv'
      <3>1. TypeOK' /\ NoOvercommit'
        BY <2>4, Vectors DEF ReserveChoose, TypeOK, Vector, NoOvercommit
      <3>2. /\ sched.pc = "idle" /\ record[j] = NoSlot /\ j \notin releasing
            /\ sched'.pc = "apply" /\ sched'.job = j /\ sched'.on = m
            /\ UNCHANGED <<record, row, releasing, unsaved, cloud>>
        BY <2>4 DEF ReserveChoose, Idle
      <3>3. InProgress' /\ RowsFollowRecords'
        BY <3>2 DEF InProgress, RowsFollowRecords
      <3> QED BY <3>1, <3>3
    <2>5. CASE ReserveApply
      <3>1. CASE sched.on \in present /\ machine_can_fit(machine[sched.on], sched.amount)
        <4> DEFINE m == sched.on
                   x == [machine[m] EXCEPT !.reserved = Plus(@, sched.amount)]
                   slot == [on |-> sched.on, amount |-> sched.amount]
        <4>1. /\ m \in Machines /\ sched.job \in Jobs /\ sched.amount \in Vector
              /\ machine[m] \in MachineType
          BY <2>5 DEF ReserveApply, TypeOK, InProgress
        <4>2. x \in MachineType /\ x.total = machine[m].total /\ x.min = machine[m].min
              /\ x.reserved = Plus(machine[m].reserved, sched.amount)
          BY <4>1, VectorOps DEF MachineType
        <4>3. Covers(x.total, Plus(x.reserved, x.min))
          BY <3>1, <4>1, <4>2, FitsWithin
        <4>4. machine' = [machine EXCEPT ![m] = x]
          BY <2>5, <3>1, <4>1 DEF ReserveApply, TypeOK
        <4>5. slot \in SlotType /\ slot # NoSlot
          BY <4>1, SlotFacts
        <4>6. record' = [record EXCEPT ![sched.job] = slot]
              /\ sched' = [sched EXCEPT !.pc = "persist"]
              /\ UNCHANGED <<present, row, releasing, unsaved, probe, instances, cloud, restarts>>
          BY <2>5, <3>1 DEF ReserveApply
        <4> HIDE DEF m, x, slot
        <4>7. TypeOK' /\ NoOvercommit'
          BY <4>1, <4>2, <4>3, <4>4, <4>5, <4>6 DEF TypeOK, NoOvercommit
        <4>8. InProgress' /\ RowsFollowRecords'
          BY <2>5, <4>1, <4>5, <4>6 DEF ReserveApply, TypeOK, InProgress, RowsFollowRecords
        <4> QED BY <4>7, <4>8
      <3>2. CASE ~(sched.on \in present /\ machine_can_fit(machine[sched.on], sched.amount))
        BY <1>0, <2>5, <3>2 DEF ReserveApply, Idle, TypeOK, InProgress, NoOvercommit, RowsFollowRecords
      <3> QED BY <3>1, <3>2
    <2>6. CASE ReservePersist
      <3>1. sched.job \in Jobs /\ record[sched.job] \in SlotType /\ record[sched.job] # NoSlot
        BY <2>6 DEF ReservePersist, TypeOK, InProgress
      <3>2. machine' \in [Machines -> MachineType] /\ NoOvercommit'
        BY <2>6, <3>1, ReleaseFacts DEF ReservePersist, TypeOK, NoOvercommit
      <3>3. TypeOK'
        BY <1>0, <2>6, <3>1, <3>2 DEF ReservePersist, TypeOK, Idle
      <3>4. InProgress' /\ RowsFollowRecords'
        BY <2>6, <3>1 DEF ReservePersist, TypeOK, Idle, InProgress, RowsFollowRecords
      <3> QED BY <3>2, <3>3, <3>4
    <2>7. ASSUME NEW j \in Jobs, ReleaseRecord(j)
          PROVE  IInv'
      <3>1. machine' \in [Machines -> MachineType] /\ NoOvercommit'
        BY <2>7, ReleaseFacts DEF ReleaseRecord, TypeOK
      <3>2. TypeOK'
        BY <1>0, <2>7, <3>1 DEF ReleaseRecord, TypeOK
      <3>3. InProgress' /\ RowsFollowRecords'
        BY <2>7 DEF ReleaseRecord, TypeOK, Idle, InProgress, RowsFollowRecords
      <3> QED BY <3>1, <3>2, <3>3
    <2>8. ASSUME NEW j \in Jobs, ReleaseRow(j)
          PROVE  IInv'
      BY <2>8 DEF ReleaseRow, TypeOK, InProgress, NoOvercommit, RowsFollowRecords
    <2>9. CASE Probe
      <3>1. machine' \in [Machines -> MachineType] /\ NoOvercommit'
        <4>1. CASE ProbeSnapshot
          BY <4>1 DEF ProbeSnapshot, TypeOK, NoOvercommit
        <4>2. ASSUME NEW m \in Machines, ProbeMark(m)
              PROVE  machine' \in [Machines -> MachineType] /\ NoOvercommit'
          BY <4>2, StatusFacts DEF ProbeMark
        <4>3. ASSUME NEW ok \in BOOLEAN, ProbeAnswer(ok)
              PROVE  machine' \in [Machines -> MachineType] /\ NoOvercommit'
          BY <4>3, StatusFacts DEF ProbeAnswer, TypeOK
        <4> QED BY <2>9, <4>1, <4>2, <4>3 DEF Probe
      <3>2. probe' \in [todo : SUBSET Machines, at : Machines \cup {NoMachine}]
        BY <2>9 DEF Probe, ProbeSnapshot, ProbeMark, ProbeAnswer, TypeOK
      <3>3. UNCHANGED <<present, record, row, sched, releasing, unsaved, instances, cloud, restarts>>
        BY <2>9 DEF Probe, ProbeSnapshot, ProbeMark, ProbeAnswer
      <3> QED BY <3>1, <3>2, <3>3 DEF TypeOK, InProgress, RowsFollowRecords
    <2>10. CASE Restart
      <3>1. machine' \in [Machines -> MachineType] /\ NoOvercommit'
        BY <2>10, LoadedFacts, Names DEF Restart, NoOvercommit
      <3>2. TypeOK'
        BY <1>0, <2>10, <3>1, Names DEF Restart, TypeOK, Idle, NoRequest
      <3> QED BY <2>10, <3>1, <3>2 DEF Restart, InProgress, RowsFollowRecords, Idle, NoRequest
    <2>11. CASE UNCHANGED vars
      BY <2>11 DEF vars, TypeOK, InProgress, NoOvercommit, RowsFollowRecords
    <2> QED BY <2>1, <2>2, <2>3, <2>4, <2>5, <2>6, <2>7, <2>8, <2>9, <2>10, <2>11 DEF Next
  <1> QED BY <1>1, <1>2, PTL DEF Spec

\* Every variable keeps its type.
THEOREM TypeCorrect == Spec => []TypeOK
  <1>1. IInv => TypeOK
    BY DEF IInv
  <1> QED BY <1>1, Invariance, PTL

\* No machine is ever overcommitted.
THEOREM NeverOvercommitted == Spec => []NoOvercommit
  <1>1. IInv => NoOvercommit
    BY DEF IInv
  <1> QED BY <1>1, Invariance, PTL

(* The rows follow the records for any number of jobs and machines: an     *)
(* open row without a record is left only by a release that failed and has *)
(* not been repeated, and no record is without its row                     *)
(* (allocator.c:302, allocator.c:398-413, db.c:504).                       *)
THEOREM RowsFollow == Spec => []RowsFollowRecords
  <1>1. IInv => RowsFollowRecords
    BY DEF IInv
  <1> QED BY <1>1, Invariance, PTL

-----------------------------------------------------------------------------
(* The accounts: what the registry has reserved is what the records hold.  *)

\* Records name registered machines and hold at least one core; the
\* allocation in progress has no record before registry_reserve.
RecordsPlaced ==
  /\ \A j \in Jobs : record[j] # NoSlot =>
       record[j].on \in present /\ record[j].amount["cores"] > 0
  /\ sched.pc # "idle" => sched.amount["cores"] > 0
  /\ sched.pc = "apply" => record[sched.job] = NoSlot

\* A machine of type CLOUD is never probed, so it is never ONLINE and never
\* used; and the machine of a cloud request is no other machine meanwhile.
CloudApart ==
  /\ \A m \in present : machine[m].type = "CLOUD" =>
       /\ machine[m].status = "PROBING"
       /\ m \notin probe.todo \cup {probe.at}
       /\ \A j \in Jobs : record[j].on # m
  /\ cloud.pc = "register" => cloud.at \notin present \cup probe.todo \cup {probe.at}
  /\ cloud.pc = "terminate" /\ cloud.at \in present => machine[cloud.at].type = "CLOUD"

Accounts == ReservedIsHeld /\ RecordsPlaced /\ CloudApart

\* What the records r hold of a kind on a machine.
HeldIn(r, m, k) == Total([j \in Jobs |-> r[j].amount[k]], {j \in Jobs : r[j].on = m})

\* Amounts are naturals, and machines hold a natural number of units.
LEMMA HeldInType ==
  ASSUME NEW r \in [Jobs -> SlotType], NEW m, NEW k \in Kinds
  PROVE  HeldIn(r, m, k) \in Nat
<1> DEFINE f == [j \in Jobs |-> r[j].amount[k]]
           S == {j \in Jobs : r[j].on = m}
<1>1. \A j \in S : f[j] \in Nat
  BY DEF SlotType, Vector
<1>2. IsFiniteSet(S)
  BY FiniteJobs, FS_Subset
<1> HIDE DEF f, S
<1>3. Total(f, S) \in Nat
  BY <1>1, <1>2, TotalType
<1>4. QED
  BY <1>3 DEF HeldIn, f, S

\* Two states of the records that differ in at most one of them.
SameBut(r, q, j) == \A i \in Jobs \ {j} : r[i] = q[i]

\* A record adds its amount on its machine, and nothing elsewhere.
LEMMA HeldInAdd ==
  ASSUME NEW r \in [Jobs -> SlotType], NEW q \in [Jobs -> SlotType], NEW j \in Jobs,
         SameBut(r, q, j), r[j] = NoSlot, NEW m \in Machines, NEW k \in Kinds
  PROVE  HeldIn(q, m, k) = HeldIn(r, m, k) + (IF q[j].on = m THEN q[j].amount[k] ELSE 0)
<1> DEFINE f == [i \in Jobs |-> r[i].amount[k]]
           g == [i \in Jobs |-> q[i].amount[k]]
           S == {i \in Jobs : r[i].on = m}
           T == {i \in Jobs : q[i].on = m}
<1>1. j \notin S
  BY Names DEF NoSlot
<1>2. T = IF q[j].on = m THEN S \cup {j} ELSE S
  BY <1>1 DEF SameBut
<1>3. \A i \in S : g[i] = f[i]
  BY <1>1 DEF SameBut
<1>4. g[j] = q[j].amount[k]
  OBVIOUS
<1>5. \A i \in S \cup {j} : g[i] \in Nat
  BY DEF SlotType, Vector
<1>6. IsFiniteSet(S)
  BY FiniteJobs, FS_Subset
<1>7. HeldIn(q, m, k) = Total(g, T) /\ HeldIn(r, m, k) = Total(f, S)
  BY DEF HeldIn
<1>8. HeldIn(r, m, k) \in Nat
  BY HeldInType
<1> HIDE DEF f, g, S, T
<1>9. Total(g, S) = Total(f, S)
  BY <1>3, TotalSame
<1>10. Total(g, S \cup {j}) = Total(g, S) + g[j]
  BY <1>1, <1>5, <1>6, TotalAdd
<1>11. QED
  BY <1>2, <1>4, <1>7, <1>8, <1>9, <1>10

\* A machine that no record names holds nothing.
LEMMA HeldInNone ==
  ASSUME NEW r, NEW m, NEW k, \A j \in Jobs : r[j].on # m
  PROVE  HeldIn(r, m, k) = 0
<1>1. {j \in Jobs : r[j].on = m} = {}
  OBVIOUS
<1>2. QED
  BY <1>1, TotalEmpty DEF HeldIn

\* Sums as the property writes them.
LEMMA HeldByIs ==
  /\ \A m, k : HeldBy(m, k) = HeldIn(record, m, k)
  /\ \A m, k : HeldBy(m, k)' = HeldIn(record', m, k)
BY DEF HeldBy, HeldIn

\* A machine in use has something reserved, so registry_remove refuses it.
LEMMA UsedIsReserved ==
  ASSUME IInv, Accounts, NEW j \in Jobs, record[j].on \in present
  PROVE  machine[record[j].on].reserved # Zero
<1> DEFINE m == record[j].on
<1>1. record \in [Jobs -> SlotType] /\ m \in Machines /\ m # NoMachine
  BY Names DEF IInv, TypeOK
<1>2. record[j].amount["cores"] \in Nat /\ record[j].amount["cores"] > 0
  BY <1>1, KindsHaveCores DEF Accounts, RecordsPlaced, NoSlot, SlotType, Vector
<1>3. PICK n \in Nat : HeldIn(record, m, "cores") = n + record[j].amount["cores"]
  <2> DEFINE q == [record EXCEPT ![j] = NoSlot]
  <2>1. q \in [Jobs -> SlotType]
    BY <1>1, VectorOps DEF NoSlot, SlotType
  <2>2. HeldIn(q, m, "cores") \in Nat
    BY <2>1, KindsHaveCores, HeldInType
  <2>3. SameBut(q, record, j) /\ q[j] = NoSlot
    BY <1>1 DEF SameBut
  <2> HIDE DEF q
  <2>4. HeldIn(record, m, "cores") = HeldIn(q, m, "cores") + record[j].amount["cores"]
    BY <1>1, <2>1, <2>3, KindsHaveCores, HeldInAdd
  <2>5. QED
    BY <2>2, <2>4
<1>4. machine[m].reserved["cores"] = HeldIn(record, m, "cores")
  BY KindsHaveCores, HeldByIs DEF Accounts, ReservedIsHeld
<1> HIDE DEF m
<1>5. machine[m].reserved["cores"] # 0
  BY <1>2, <1>3, <1>4
<1>6. QED
  BY <1>5, KindsHaveCores DEF Zero, m

\* Steps that leave the records alone: a machine stays with what is reserved
\* on it, or comes with nothing.
LEMMA ReservedKept ==
  ASSUME ReservedIsHeld, record' = record,
         \A m \in present' :
           \/ m \in present /\ machine'[m].reserved = machine[m].reserved
           \/ machine'[m].reserved = Zero /\ \A j \in Jobs : record[j].on # m
  PROVE  ReservedIsHeld'
<1> SUFFICES ASSUME NEW m \in present', NEW k \in Kinds
             PROVE  machine'[m].reserved[k] = HeldBy(m, k)'
  BY DEF ReservedIsHeld
<1>1. HeldBy(m, k)' = HeldBy(m, k)
  BY HeldByIs
<1>2. CASE m \in present /\ machine'[m].reserved = machine[m].reserved
  BY <1>1, <1>2 DEF ReservedIsHeld
<1>3. CASE machine'[m].reserved = Zero /\ \A j \in Jobs : record[j].on # m
  BY <1>1, <1>3, HeldByIs, HeldInNone DEF Zero
<1>4. QED
  BY <1>2, <1>3

\* registry_release of an active record subtracts exactly what the record
\* holds: the clamp of registry.c:393 never acts.
LEMMA ReleaseExact ==
  ASSUME IInv, Accounts, NEW j \in Jobs, record[j] # NoSlot, registry_release(record[j]),
         record' \in [Jobs -> SlotType], SameBut(record', record, j), record'[j] = NoSlot,
         present' = present
  PROVE  /\ ReservedIsHeld'
         /\ \A m \in present : /\ machine'[m].type = machine[m].type
                               /\ machine'[m].status = machine[m].status
<1> DEFINE on == record[j].on
           amount == record[j].amount
<1>1. record \in [Jobs -> SlotType] /\ on \in present /\ present \subseteq Machines
        /\ machine \in [Machines -> MachineType] /\ amount \in Vector
  BY DEF IInv, TypeOK, Accounts, RecordsPlaced, SlotType
<1>2. machine' = [machine EXCEPT ![on].reserved = Minus(@, amount)]
  BY <1>1 DEF registry_release
<1>3. ASSUME NEW m \in present, NEW k \in Kinds
      PROVE  machine'[m].reserved[k] = HeldIn(record', m, k)
  <2>1. /\ machine[m].reserved[k] = HeldIn(record, m, k)
        /\ HeldIn(record', m, k) \in Nat
        /\ HeldIn(record, m, k) = HeldIn(record', m, k) + (IF on = m THEN amount[k] ELSE 0)
    <3>1. m \in Machines
      BY <1>1
    <3>2. machine[m].reserved[k] = HeldIn(record, m, k)
      BY HeldByIs DEF Accounts, ReservedIsHeld
    <3>3. HeldIn(record', m, k) \in Nat
      BY <3>1, HeldInType
    <3>4. HeldIn(record, m, k) = HeldIn(record', m, k) + (IF on = m THEN amount[k] ELSE 0)
      BY <1>1, <3>1, HeldInAdd
    <3>5. QED
      BY <3>2, <3>3, <3>4
  <2>2. amount[k] \in Nat
    BY <1>1 DEF Vector
  <2>3. CASE m = on
    <3>1. machine'[m].reserved[k] = Minus(machine[m].reserved, amount)[k]
      BY <1>1, <1>2, <2>3 DEF MachineType
    <3>2. QED
      BY <2>1, <2>2, <2>3, <3>1 DEF Minus
  <2>4. CASE m # on
    BY <1>1, <1>2, <2>1, <2>4
  <2>5. QED
    BY <2>3, <2>4
<1>4. ReservedIsHeld'
  BY <1>3, HeldByIs DEF ReservedIsHeld
<1>5. QED
  BY <1>1, <1>2, <1>4 DEF MachineType

\* What registry_upsert does to the machine and leaves alone elsewhere.
LEMMA UpsertEffect ==
  ASSUME TypeOK, NEW m \in Machines, NEW def \in MachineType, registry_upsert(m, def)
  PROVE  /\ present' = present \cup {m}
         /\ \A n \in Machines \ {m} : machine'[n] = machine[n]
         /\ machine'[m].type = def.type
         /\ m \in present => /\ machine'[m].reserved = machine[m].reserved
                             /\ machine'[m].status = machine[m].status
         /\ m \notin present => machine'[m] = def
<1>1. CASE m \in present
  <2> DEFINE x == [def EXCEPT !.reserved = machine[m].reserved, !.status = machine[m].status]
  <2>1. x.type = def.type /\ x.reserved = machine[m].reserved /\ x.status = machine[m].status
    BY DEF MachineType
  <2>2. machine' = [machine EXCEPT ![m] = x] /\ present' = present
    BY <1>1 DEF registry_upsert
  <2> HIDE DEF x
  <2>3. QED
    BY <1>1, <2>1, <2>2 DEF TypeOK
<1>2. CASE m \notin present
  BY <1>2 DEF TypeOK, registry_upsert
<1>3. QED
  BY <1>1, <1>2

\* The accounts balance when the daemon starts.
LEMMA InitAccounts == Init => Accounts
<1> SUFFICES ASSUME Init PROVE Accounts
  OBVIOUS
<1>1. \A j \in Jobs : record[j] = NoSlot
  BY DEF Init
<1>2. \A m \in present : m \in Machines /\ machine[m] \in Loadable
  BY Names DEF Init, Loaded
<1>3. ReservedIsHeld
  <2>1. \A m \in present, k \in Kinds : HeldBy(m, k) = 0
    BY <1>1, <1>2, HeldByIs, HeldInNone, Names DEF NoSlot
  <2>2. \A m \in present, k \in Kinds : machine[m].reserved[k] = 0
    BY <1>2 DEF Loadable, Zero
  <2>3. QED
    BY <2>1, <2>2 DEF ReservedIsHeld
<1>4. RecordsPlaced
  BY <1>1 DEF Init, RecordsPlaced, Idle
<1>5. CloudApart
  BY <1>1, <1>2, Names DEF Init, CloudApart, Loadable, NoSlot, NoRequest
<1>6. QED
  BY <1>3, <1>4, <1>5 DEF Accounts

\* They balance after every step: registry_reserve and the record are one
\* step under the allocator's mutex, a machine in use is never removed, and a
\* machine comes back with nothing reserved.
LEMMA StepAccounts ==
  ASSUME IInv, IInv', Accounts, [Next]_vars
  PROVE  Accounts'
<1> USE DEF IInv
<1>0. /\ present \subseteq Machines /\ machine \in [Machines -> MachineType]
      /\ record \in [Jobs -> SlotType] /\ record' \in [Jobs -> SlotType]
  BY DEF TypeOK
<1>1. ASSUME NEW m \in Machines, NEW total \in Sizes, NEW enabled \in BOOLEAN,
             AddMachine(m, total, enabled)
      PROVE  Accounts'
  <2> DEFINE def == [total |-> total, min |-> Zero, reserved |-> Zero,
                     enabled |-> enabled, status |-> "PROBING", type |-> "STATIC"]
  <2>1. def \in MachineType /\ def.reserved = Zero /\ def.type = "STATIC"
    BY VectorOps, Vectors DEF MachineType, Vector
  <2>2. registry_upsert(m, def) /\ cloud = NoRequest
        /\ UNCHANGED <<record, row, sched, releasing, unsaved, probe, instances, cloud, restarts>>
    BY <1>1 DEF AddMachine
  <2> HIDE DEF def
  <2>3. /\ present' = present \cup {m}
        /\ \A n \in Machines \ {m} : machine'[n] = machine[n]
        /\ machine'[m].type = "STATIC"
        /\ m \in present => machine'[m].reserved = machine[m].reserved
        /\ m \notin present => machine'[m].reserved = Zero
    BY <2>1, <2>2, UpsertEffect
  <2>4. m \notin present => \A j \in Jobs : record[j].on # m
    BY Names DEF Accounts, RecordsPlaced, NoSlot
  <2>5. ReservedIsHeld'
    <3>1. \A n \in present' : \/ n \in present /\ machine'[n].reserved = machine[n].reserved
                              \/ machine'[n].reserved = Zero /\ \A j \in Jobs : record[j].on # n
      BY <1>0, <2>3, <2>4
    <3>2. QED
      BY <2>2, <3>1, ReservedKept DEF Accounts
  <2>6. RecordsPlaced' /\ CloudApart'
    BY <1>0, <2>2, <2>3 DEF Accounts, RecordsPlaced, CloudApart, NoRequest
  <2>7. QED
    BY <2>5, <2>6 DEF Accounts
<1>2. ASSUME NEW m \in Machines, CloudCreate(m) \/ DeprovisionCheck(m)
      PROVE  Accounts'
  <2>1. UNCHANGED <<present, machine, record, sched, probe>>
    BY <1>2 DEF CloudCreate, DeprovisionCheck
  <2>2. ReservedIsHeld' /\ RecordsPlaced'
    BY <2>1, ReservedKept DEF Accounts, RecordsPlaced
  <2>3. CloudApart'
    BY <1>2, <2>1 DEF CloudCreate, DeprovisionCheck, Accounts, CloudApart
  <2>4. QED
    BY <2>2, <2>3 DEF Accounts
<1>3. ASSUME NEW total \in Sizes, NEW min \in Sizes, CloudRegister(total, min)
      PROVE  Accounts'
  <2> DEFINE def == [total |-> total, min |-> min, reserved |-> Zero,
                     enabled |-> TRUE, status |-> "PROBING", type |-> "CLOUD"]
             m == cloud.at
  <2>1. def \in MachineType /\ def.reserved = Zero /\ def.status = "PROBING"
    BY VectorOps, Vectors DEF MachineType, Vector
  <2>2. /\ registry_upsert(m, def) \/ UNCHANGED <<present, machine>>
        /\ m \in Machines \ (present \cup probe.todo \cup {probe.at})
        /\ cloud' = NoRequest
        /\ UNCHANGED <<record, sched, probe>>
    BY <1>3 DEF CloudRegister, InProgress, Accounts, CloudApart
  <2>3. \A j \in Jobs : record[j].on # m
    BY <2>2, Names DEF Accounts, RecordsPlaced, NoSlot
  <2> HIDE DEF def, m
  <2>4. CASE registry_upsert(m, def)
    <3>1. /\ present' = present \cup {m}
          /\ \A n \in Machines \ {m} : machine'[n] = machine[n]
          /\ machine'[m] = def
      BY <2>1, <2>2, <2>4, UpsertEffect
    <3>2. \A n \in present' : \/ n \in present /\ machine'[n].reserved = machine[n].reserved
                              \/ machine'[n].reserved = Zero /\ \A j \in Jobs : record[j].on # n
      BY <1>0, <2>1, <2>2, <2>3, <3>1
    <3>3. ReservedIsHeld'
      BY <2>2, <3>2, ReservedKept DEF Accounts
    <3>4. RecordsPlaced' /\ CloudApart'
      BY <1>0, <2>1, <2>2, <2>3, <3>1 DEF Accounts, RecordsPlaced, CloudApart, NoRequest
    <3>5. QED
      BY <3>3, <3>4 DEF Accounts
  <2>5. CASE UNCHANGED <<present, machine>>
    <3>1. ReservedIsHeld'
      BY <2>2, <2>5, ReservedKept DEF Accounts
    <3>2. RecordsPlaced' /\ CloudApart'
      BY <2>2, <2>5 DEF Accounts, RecordsPlaced, CloudApart, NoRequest
    <3>3. QED
      BY <3>1, <3>2 DEF Accounts
  <2>6. QED
    BY <2>2, <2>4, <2>5
<1>4. CASE DeprovisionTerminate
  <2>1. UNCHANGED <<present, machine, record, sched, probe>> /\ cloud'.pc \in {"remove", "idle"}
    BY <1>4 DEF DeprovisionTerminate, NoRequest, TypeOK
  <2>2. ReservedIsHeld' /\ RecordsPlaced' /\ CloudApart'
    BY <2>1, ReservedKept DEF Accounts, RecordsPlaced, CloudApart
  <2>3. QED
    BY <2>2 DEF Accounts
<1>5. ASSUME NEW m \in Machines, RemoveMachine(m) \/ (DeprovisionRemove /\ m = cloud.at)
      PROVE  Accounts'
  <2>1. /\ UNCHANGED <<record, sched, probe>>
        /\ cloud' = NoRequest
        /\ \/ /\ m \in present /\ machine[m].reserved = Zero
              /\ present' = present \ {m}
              /\ machine' = [machine EXCEPT ![m] = Blank]
           \/ UNCHANGED <<present, machine>>
    BY <1>5 DEF RemoveMachine, DeprovisionRemove
  <2>2. \A n \in present' : n \in present /\ machine'[n] = machine[n]
    BY <1>0, <2>1
  <2>3. ReservedIsHeld'
    BY <2>1, <2>2, ReservedKept DEF Accounts
  <2>4. \A j \in Jobs : record[j].on \in present => record[j].on \in present'
    BY <2>1, UsedIsReserved
  <2>5. RecordsPlaced' /\ CloudApart'
    BY <2>1, <2>2, <2>4 DEF Accounts, RecordsPlaced, CloudApart, NoRequest
  <2>6. QED
    BY <2>3, <2>5 DEF Accounts
<1>6. ASSUME NEW j \in Jobs, NEW req \in Requests, NEW m \in Machines, ReserveChoose(j, req, m)
      PROVE  Accounts'
  <2>1. UNCHANGED <<present, machine, record, probe, cloud>>
    BY <1>6 DEF ReserveChoose
  <2>2. ReservedIsHeld' /\ CloudApart'
    BY <2>1, ReservedKept DEF Accounts, CloudApart
  <2>3. RecordsPlaced'
    BY <1>6, <2>1 DEF ReserveChoose, Accounts, RecordsPlaced
  <2>4. QED
    BY <2>2, <2>3 DEF Accounts
<1>7. CASE ReserveApply
  <2>1. CASE sched' = Idle /\ UNCHANGED <<machine, record>>
    <3>1. UNCHANGED <<present, machine, record, probe, cloud>> /\ sched'.pc = "idle"
      BY <1>7, <2>1 DEF ReserveApply, Idle
    <3>2. ReservedIsHeld' /\ RecordsPlaced' /\ CloudApart'
      BY <3>1, ReservedKept DEF Accounts, RecordsPlaced, CloudApart
    <3>3. QED
      BY <3>2 DEF Accounts
  <2>2. CASE sched.on \in present /\ machine_can_fit(machine[sched.on], sched.amount)
    <3> DEFINE on == sched.on
               amount == sched.amount
               j == sched.job
    <3>1. /\ on \in present /\ on \in Machines /\ j \in Jobs /\ amount \in Vector
          /\ amount["cores"] > 0 /\ record[j] = NoSlot
      BY <1>7, <2>2 DEF ReserveApply, TypeOK, InProgress, Accounts, RecordsPlaced
    <3>2. /\ machine' = [machine EXCEPT ![on].reserved = Plus(@, amount)]
          /\ record' = [record EXCEPT ![j] = [on |-> on, amount |-> amount]]
          /\ sched' = [sched EXCEPT !.pc = "persist"]
          /\ UNCHANGED <<present, probe, cloud>>
      BY <1>7, <2>2 DEF ReserveApply
    <3>3. machine[on].status = "ONLINE"
      BY <2>2 DEF machine_can_fit
    <3>4. SameBut(record, record', j) /\ record'[j] = [on |-> on, amount |-> amount]
      BY <1>0, <3>1, <3>2 DEF SameBut
    <3>5. \A m \in present : machine'[m].type = machine[m].type /\ machine'[m].status = machine[m].status
      BY <1>0, <3>2 DEF MachineType
    <3>6. ASSUME NEW m \in present, NEW k \in Kinds
          PROVE  machine'[m].reserved[k] = machine[m].reserved[k] + (IF on = m THEN amount[k] ELSE 0)
      <4>1. machine[m].reserved \in Vector
        BY <1>0 DEF MachineType
      <4>2. CASE m = on
        <5>1. machine'[m].reserved = Plus(machine[m].reserved, amount)
          BY <1>0, <3>2, <4>2 DEF MachineType
        <5>2. QED
          BY <4>2, <5>1 DEF Plus
      <4>3. CASE m # on
        BY <1>0, <3>2, <4>1, <4>3 DEF Vector
      <4>4. QED
        BY <4>2, <4>3
    <3>7. sched.pc = "apply" /\ sched'.pc = "persist" /\ sched'.amount = amount
      BY <1>7, <3>2 DEF ReserveApply, TypeOK
    <3>8. \A i \in Jobs : i # j => record'[i] = record[i]
      BY <3>4 DEF SameBut
    <3>9. RecordsPlaced'
      BY <3>1, <3>2, <3>4, <3>7, <3>8 DEF Accounts, RecordsPlaced
    <3>10. CloudApart'
      BY <3>1, <3>2, <3>3, <3>4, <3>5, <3>8 DEF Accounts, CloudApart
    <3> HIDE DEF on, amount, j
    <3>11. ASSUME NEW m \in present', NEW k \in Kinds
           PROVE  machine'[m].reserved[k] = HeldIn(record', m, k)
      <4>1. m \in present /\ m \in Machines
        BY <1>0, <3>2
      <4>2. machine[m].reserved[k] = HeldIn(record, m, k)
        BY <4>1, HeldByIs DEF Accounts, ReservedIsHeld
      <4>3. HeldIn(record', m, k) = HeldIn(record, m, k)
              + (IF record'[j].on = m THEN record'[j].amount[k] ELSE 0)
        BY <1>0, <3>1, <3>4, <4>1, HeldInAdd
      <4>4. QED
        BY <3>4, <3>6, <4>1, <4>2, <4>3
    <3>12. ReservedIsHeld'
      BY <3>11, HeldByIs DEF ReservedIsHeld
    <3>13. QED
      BY <3>9, <3>10, <3>12 DEF Accounts
  <2>3. QED
    BY <1>7, <2>1, <2>2 DEF ReserveApply
<1>8. ASSUME NEW j \in Jobs, record[j] # NoSlot, registry_release(record[j]),
             record' = [record EXCEPT ![j] = NoSlot],
             sched'.pc = "idle", UNCHANGED <<present, probe, cloud>>
      PROVE  Accounts'
  <2>1. SameBut(record', record, j) /\ record'[j] = NoSlot
    BY <1>0, <1>8 DEF SameBut
  <2>2. /\ ReservedIsHeld'
        /\ \A m \in present : machine'[m].type = machine[m].type /\ machine'[m].status = machine[m].status
    BY <1>0, <1>8, <2>1, ReleaseExact
  <2>3. \A i \in Jobs : record'[i] # NoSlot => record'[i] = record[i]
    BY <2>1 DEF SameBut
  <2>4. RecordsPlaced'
    BY <1>8, <2>3 DEF Accounts, RecordsPlaced
  <2>5. \A m \in present, i \in Jobs : record'[i].on = m => record[i].on = m
    BY <1>0, <2>3, Names DEF NoSlot
  <2>6. CloudApart'
    BY <1>8, <2>2, <2>5 DEF Accounts, CloudApart
  <2>7. QED
    BY <2>2, <2>4, <2>6 DEF Accounts
<1>9. CASE ReservePersist
  <2>1. CASE UNCHANGED <<machine, record>>
    <3>1. UNCHANGED <<present, machine, record, probe, cloud>> /\ sched'.pc = "idle"
      BY <1>9, <2>1 DEF ReservePersist, Idle
    <3>2. ReservedIsHeld' /\ RecordsPlaced' /\ CloudApart'
      BY <3>1, ReservedKept DEF Accounts, RecordsPlaced, CloudApart
    <3>3. QED
      BY <3>2 DEF Accounts
  <2>2. CASE registry_release(record[sched.job]) /\ record' = [record EXCEPT ![sched.job] = NoSlot]
    <3>1. sched.job \in Jobs /\ record[sched.job] # NoSlot /\ sched'.pc = "idle"
          /\ UNCHANGED <<present, probe, cloud>>
      BY <1>9 DEF ReservePersist, InProgress, Idle
    <3>2. QED
      BY <1>8, <2>2, <3>1
  <2>3. QED
    BY <1>9, <2>1, <2>2 DEF ReservePersist
<1>10. ASSUME NEW j \in Jobs, ReleaseRecord(j) PROVE Accounts'
  <2>1. CASE record[j] # NoSlot
    BY <1>8, <1>10, <2>1 DEF ReleaseRecord, Idle
  <2>2. CASE record[j] = NoSlot
    <3>1. record[j].on \notin present
      BY <1>0, <2>2, Names DEF NoSlot
    <3>2. UNCHANGED <<present, machine, record, sched, probe, cloud>>
      BY <1>0, <1>10, <2>2, <3>1 DEF ReleaseRecord, registry_release
    <3>3. ReservedIsHeld' /\ RecordsPlaced' /\ CloudApart'
      BY <3>2, ReservedKept DEF Accounts, RecordsPlaced, CloudApart
    <3>4. QED
      BY <3>3 DEF Accounts
  <2>3. QED
    BY <2>1, <2>2
<1>11. ASSUME NEW j \in Jobs, ReleaseRow(j) PROVE Accounts'
  <2>1. UNCHANGED <<present, machine, record, sched, probe, cloud>>
    BY <1>11 DEF ReleaseRow
  <2>2. ReservedIsHeld' /\ RecordsPlaced' /\ CloudApart'
    BY <2>1, ReservedKept DEF Accounts, RecordsPlaced, CloudApart
  <2>3. QED
    BY <2>2 DEF Accounts
<1>12. CASE Probe
  <2>1. UNCHANGED <<present, record, sched, cloud>>
    BY <1>12 DEF Probe, ProbeSnapshot, ProbeMark, ProbeAnswer
  <2> DEFINE Kept(n) == machine'[n].type = machine[n].type /\ machine'[n].reserved = machine[n].reserved
  <2>2. \A n \in present :
          Kept(n) /\ (n \notin probe.todo \cup {probe.at} => machine'[n].status = machine[n].status)
    <3>1. ASSUME NEW m \in Machines, NEW status, SetStatus(m, status)
          PROVE  \A n \in present : Kept(n) /\ (n # m => machine'[n].status = machine[n].status)
      BY <1>0, <3>1 DEF SetStatus, MachineType
    <3>2. CASE machine' = machine
      BY <3>2
    <3>3. CASE \E m \in probe.todo \cup {probe.at} : m \in Machines /\ \E status : SetStatus(m, status)
      BY <3>1, <3>3
    <3>4. QED
      BY <1>12, <3>2, <3>3 DEF Probe, ProbeSnapshot, ProbeMark, ProbeAnswer, TypeOK
  <2>3. probe'.todo \cup {probe'.at} \subseteq probe.todo \cup {probe.at, NoMachine}
            \cup {m \in present : machine[m].type = "STATIC"}
    BY <1>12 DEF Probe, ProbeSnapshot, ProbeMark, ProbeAnswer, TypeOK
  <2>4. ReservedIsHeld' /\ RecordsPlaced'
    BY <2>1, <2>2, ReservedKept DEF Accounts, RecordsPlaced
  <2>5. CloudApart'
    BY <1>0, <2>1, <2>2, <2>3, Names DEF Accounts, CloudApart, InProgress
  <2>6. QED
    BY <2>4, <2>5 DEF Accounts
<1>13. CASE Restart
  <2>1. \A j \in Jobs : record'[j] = NoSlot
    BY <1>13 DEF Restart
  <2>2. \A m \in present' : m \in Machines /\ machine'[m] \in Loadable
    BY <1>13, Names DEF Restart, Loaded
  <2>3. ReservedIsHeld'
    <3>1. \A m \in present', k \in Kinds : HeldBy(m, k)' = 0
      BY <2>1, <2>2, HeldByIs, HeldInNone, Names DEF NoSlot
    <3>2. \A m \in present', k \in Kinds : machine'[m].reserved[k] = 0
      BY <2>2 DEF Loadable, Zero
    <3>3. QED
      BY <3>1, <3>2 DEF ReservedIsHeld
  <2>4. RecordsPlaced'
    BY <1>13, <2>1 DEF Restart, RecordsPlaced, Idle
  <2>5. CloudApart'
    BY <1>13, <2>1, <2>2, Names DEF Restart, CloudApart, Loadable, NoSlot, NoRequest
  <2>6. QED
    BY <2>3, <2>4, <2>5 DEF Accounts
<1>14. CASE UNCHANGED vars
  <2>1. UNCHANGED <<present, machine, record, sched, probe, cloud>>
    BY <1>14 DEF vars
  <2>2. ReservedIsHeld' /\ RecordsPlaced' /\ CloudApart'
    BY <2>1, ReservedKept DEF Accounts, RecordsPlaced, CloudApart
  <2>3. QED
    BY <2>2 DEF Accounts
<1>15. DeprovisionRemove => cloud.at \in Machines
  BY DEF DeprovisionRemove, InProgress
<1>16. QED
  BY <1>1, <1>2, <1>3, <1>4, <1>5, <1>6, <1>7, <1>9, <1>10, <1>11, <1>12, <1>13, <1>14, <1>15
     DEF Next, Cloud

\* Both invariants hold in every state.
LEMMA AccountsInvariance == Spec => [](IInv /\ Accounts)
<1>1. IInv /\ IInv' /\ Accounts /\ [Next]_vars => Accounts'
  BY StepAccounts
<1>2. QED
  BY <1>1, Invariance, InitAccounts, PTL DEF Spec

(* The registry's counters are exact for any number of machines, jobs and  *)
(* resource kinds: reserved is the sum of what the active records hold, so *)
(* the clamp of registry_release never hides a difference                  *)
(* (allocator.c:105, registry.c:393).                                      *)
THEOREM ReservationsAreExact == Spec => []ReservedIsHeld
BY AccountsInvariance, PTL DEF Accounts

(* A machine on which a job has a record is never removed, by an           *)
(* administrator or a deprovision request (registry.c:342).                *)
THEOREM UsedMachinesStay == Spec => []HeldMachineStays
<1>1. Accounts => HeldMachineStays
  BY DEF Accounts, RecordsPlaced, HeldMachineStays
<1>2. QED
  BY <1>1, AccountsInvariance, PTL

(* No cloud instance is terminated under a job (routes.c:3950,             *)
(* cloud.c:160): what is terminated is a machine that is not registered,   *)
(* or of type CLOUD, and those never come ONLINE.                          *)
THEOREM InstancesOutliveJobs == Spec => InstanceOutlivesJobs
<1>1. ASSUME IInv, Accounts, [Next]_vars
      PROVE  \A m \in instances \ instances' : \A j \in Jobs : record[j].on # m
  <2>1. \A m \in instances \ instances' : m = cloud.at /\ cloud.pc \in {"register", "terminate"}
    BY <1>1 DEF Next, vars, AddMachine, RemoveMachine, ReserveChoose, ReserveApply, ReservePersist,
         ReleaseRecord, ReleaseRow, Cloud, CloudCreate, CloudRegister, DeprovisionCheck,
         DeprovisionTerminate, DeprovisionRemove, Probe, ProbeSnapshot, ProbeMark, ProbeAnswer,
         Restart
  <2>2. cloud.pc \in {"register", "terminate"} =>
          cloud.at \in Machines /\ \A j \in Jobs : record[j].on # cloud.at
    BY <1>1, Names DEF IInv, InProgress, Accounts, RecordsPlaced, CloudApart, NoSlot
  <2>3. QED
    BY <2>1, <2>2
<1>2. QED
  BY <1>1, AccountsInvariance, PTL DEF Spec, InstanceOutlivesJobs

=============================================================================
