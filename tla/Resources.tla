----------------------------- MODULE Resources ------------------------------
(***************************************************************************)
(* Capacity: the machine registry (registry.c), the allocator that turns   *)
(* requests into reservations (allocator.c) and the thread that probes the *)
(* machines (probe.c), with the administrator who adds, changes and        *)
(* removes machines, and creates and terminates cloud instances (cloud.c), *)
(* while jobs are being placed (routes.c).                                 *)
(*                                                                         *)
(* The registry has one mutex, taken for each call; the allocator has      *)
(* another, held from its registry snapshot to the SQLite commit.  So the  *)
(* snapshot it chooses a machine from is stale when registry_reserve runs. *)
(* Which of the fitting machines is first in the array is left open.  The  *)
(* table has room for MAX_MACHINES entries; others than those modelled may *)
(* fill it, so a new entry is accepted or refused.                         *)
(***************************************************************************)
EXTENDS Integers, FiniteSets, Sums

CONSTANTS
  Machines,     \* machine identifiers
  Pools,        \* sets of machines provisioning.json may name
  CloudIds,     \* registry ids that instances of the cloud provider get
  Local,        \* machines on a loopback address, never really probed
  Jobs,         \* job identifiers
  Kinds,        \* resource kinds: "cores", "gpu", "ram", "disk"
  Sizes,        \* resource vectors an administrator may give a machine
  Requests,     \* resource vectors a job may ask for
  MaxRestarts,  \* bound on the restarts of a behaviour
  NoMachine, NoJob

ASSUME KindsHaveCores == "cores" \in Kinds

ASSUME Vectors == Sizes \subseteq [Kinds -> Nat] /\ Requests \subseteq [Kinds -> Nat]

ASSUME Bound == MaxRestarts \in Nat

ASSUME FiniteJobs == IsFiniteSet(Jobs)

ASSUME Names == NoMachine \notin Machines /\ NoJob \notin Jobs /\ Local \subseteq Machines
                   /\ CloudIds \subseteq Machines
                   /\ Pools \subseteq SUBSET Machines

VARIABLES
  present,   \* machines in s_machines
  machine,   \* what s_machines says of each of them
  record,    \* s_allocs: per job the active record's slot
  row,       \* jobs with a row of table allocations, in the file, not released
  sched,     \* the allocation in progress; not idle = the allocator's mutex is held
  releasing, \* jobs whose alloc_release has not reached SQLite yet
  unsaved,   \* history: jobs whose last release is not in the file
  probe,     \* probe_refresh_all: machines of the snapshot to visit, the one visited
  instances, \* instances that exist at the provider, by their registry ids
  cloud,     \* the cloud request of the HTTP thread; not idle = that thread is busy
  restarts   \* restarts left, the bound of the model

vars == <<present, machine, record, row, sched, releasing, unsaved, probe, instances, cloud, restarts>>

-----------------------------------------------------------------------------
(* Resource vectors. *)

Zero == [k \in Kinds |-> 0]

Plus(u, v) == [k \in Kinds |-> u[k] + v[k]]

\* Fault: the operands of the subtraction are swapped.
Minus_Swapped(u, v) == [k \in Kinds |-> IF u[k] >= v[k] THEN v[k] - u[k] ELSE 0]

\* registry_release subtracts and clamps at zero.
Minus(u, v) == [k \in Kinds |-> IF u[k] >= v[k] THEN u[k] - v[k] ELSE 0]

Covers(u, v) == \A k \in Kinds : u[k] >= v[k]

NoSlot == [on |-> NoMachine, amount |-> Zero]

Idle == [pc |-> "idle", job |-> NoJob, on |-> NoMachine, amount |-> Zero]

NoRequest == [pc |-> "idle", at |-> NoMachine]

\* machine_can_fit, and the same test in registry_reserve
machine_can_fit(x, req) ==
  /\ x.enabled /\ x.status = "ONLINE"
  /\ Covers(x.total, Plus(Plus(x.reserved, x.min), req))

-----------------------------------------------------------------------------
(* The registry under its own mutex. *)

\* An entry of s_machines that has no machine.
Blank == [total |-> Zero, min |-> Zero, reserved |-> Zero, enabled |-> FALSE,
          status |-> "PROBING", type |-> "STATIC"]

ValidSize(total, min) == total["cores"] >= 1 /\ Covers(total, min)

\* registry_load skips an invalid entry; every machine starts as PROBING.
Loadable == {d \in [total : Sizes, min : Sizes, reserved : {Zero}, enabled : BOOLEAN,
                    status : {"PROBING"}, type : {"STATIC", "CLOUD"}] :
               ValidSize(d.total, d.min)}

Loaded(pool) ==
  {[m \in Machines |-> IF m \in pool THEN f[m] ELSE Blank] : f \in [pool -> Loadable]}

Init ==
  /\ present \in Pools
  /\ machine \in Loaded(present)
  /\ record = [j \in Jobs |-> NoSlot]
  /\ row = {}
  /\ sched = Idle
  /\ releasing = {} /\ unsaved = {}
  /\ probe = [todo |-> {}, at |-> NoMachine]
  /\ instances = {}
  /\ cloud = NoRequest
  /\ restarts = MaxRestarts

\* registry_upsert: a machine in use may not shrink below what is reserved
\* and kept back; what is reserved and the probe's verdict survive.
registry_upsert(m, def) ==
  /\ ValidSize(def.total, def.min)
  /\ \/ /\ m \in present
        /\ Covers(def.total, Plus(machine[m].reserved, def.min))
        /\ machine' = [machine EXCEPT ![m] =
                         [def EXCEPT !.reserved = machine[m].reserved,
                                     !.status = machine[m].status]]
        /\ UNCHANGED present
     \/ /\ m \notin present
        /\ machine' = [machine EXCEPT ![m] = def]
        /\ present' = present \cup {m}

\* add_machine keeps nothing back and makes the machine static.
AddMachine(m, total, enabled) ==
  /\ cloud = NoRequest
  /\ registry_upsert(m, [total |-> total, min |-> Zero, reserved |-> Zero,
                         enabled |-> enabled, status |-> "PROBING", type |-> "STATIC"])
  /\ UNCHANGED <<record, row, sched, releasing, unsaved, probe, instances, cloud, restarts>>

\* Fault: what is reserved is not looked at.
RemoveMachine_Busy(m) ==
  /\ cloud = NoRequest
  /\ m \in present
  /\ present' = present \ {m}
  /\ machine' = [machine EXCEPT ![m] = Blank]
  /\ UNCHANGED <<record, row, sched, releasing, unsaved, probe, instances, cloud, restarts>>

\* registry_remove refuses a machine with anything reserved.
RemoveMachine(m) ==
  /\ cloud = NoRequest
  /\ m \in present
  /\ machine[m].reserved = Zero
  /\ present' = present \ {m}
  /\ machine' = [machine EXCEPT ![m] = Blank]
  /\ UNCHANGED <<record, row, sched, releasing, unsaved, probe, instances, cloud, restarts>>

\* registry_release; a machine that is gone is not an error.
registry_release(slot) ==
  machine' = IF slot.on \in present
             THEN [machine EXCEPT ![slot.on].reserved = Minus(@, slot.amount)]
             ELSE machine

-----------------------------------------------------------------------------
(* Cloud instances, on the HTTP thread, which waits for the provider's     *)
(* command line.  Only the administrator's two requests are modelled: the  *)
(* switches cloud_auto_provision and cloud_auto_deprovision are off.       *)

\* The provider creates an instance under a name of its own.
CloudCreate(m) ==
  /\ cloud = NoRequest
  /\ m \in CloudIds \ (present \cup instances \cup probe.todo \cup {probe.at})
  /\ instances' = instances \cup {m}
  /\ cloud' = [pc |-> "register", at |-> m]
  /\ UNCHANGED <<present, machine, record, row, sched, releasing, unsaved, probe, restarts>>

\* Registration; when the table is full the instance is terminated, and the
\* result of that command is not looked at.
CloudRegister(total, min) ==
  /\ cloud.pc = "register" /\ ValidSize(total, min)
  /\ \/ /\ registry_upsert(cloud.at, [total |-> total, min |-> min, reserved |-> Zero,
                                     enabled |-> TRUE, status |-> "PROBING", type |-> "CLOUD"])
        /\ UNCHANGED instances
     \/ /\ instances' \in {instances, instances \ {cloud.at}}
        /\ UNCHANGED <<present, machine>>
  /\ cloud' = NoRequest
  /\ UNCHANGED <<record, row, sched, releasing, unsaved, probe, restarts>>

\* Fault: what the machine is and whether it is in use are not looked at.
DeprovisionCheck_IgnoresUse(m) ==
  /\ cloud = NoRequest
  /\ m \in CloudIds
  /\ cloud' = [pc |-> "terminate", at |-> m]
  /\ UNCHANGED <<present, machine, record, row, sched, releasing, unsaved, probe, instances, restarts>>

\* admin_cloud_deprovision: a registered machine must name the provider,
\* which a machine the administrator has redefined does not, and be free.
DeprovisionCheck(m) ==
  /\ cloud = NoRequest
  /\ m \in CloudIds
  /\ m \in present => machine[m].type = "CLOUD" /\ machine[m].reserved = Zero
  /\ cloud' = [pc |-> "terminate", at |-> m]
  /\ UNCHANGED <<present, machine, record, row, sched, releasing, unsaved, probe, instances, restarts>>

\* The provider's command, which fails for an unknown instance or anyhow ...
DeprovisionTerminate ==
  /\ cloud.pc = "terminate"
  /\ \/ /\ cloud.at \in instances
        /\ instances' = instances \ {cloud.at}
        /\ cloud' = [cloud EXCEPT !.pc = "remove"]
     \/ cloud' = NoRequest /\ UNCHANGED instances
  /\ UNCHANGED <<present, machine, record, row, sched, releasing, unsaved, probe, restarts>>

\* ... and registry_remove, whose refusal is not looked at.
DeprovisionRemove ==
  /\ cloud.pc = "remove"
  /\ \/ /\ cloud.at \in present /\ machine[cloud.at].reserved = Zero
        /\ present' = present \ {cloud.at}
        /\ machine' = [machine EXCEPT ![cloud.at] = Blank]
     \/ /\ ~(cloud.at \in present /\ machine[cloud.at].reserved = Zero)
        /\ UNCHANGED <<present, machine>>
  /\ cloud' = NoRequest
  /\ UNCHANGED <<record, row, sched, releasing, unsaved, probe, instances, restarts>>

Cloud ==
  \/ \E m \in Machines : CloudCreate(m) \/ DeprovisionCheck(m)
  \/ \E total, min \in Sizes : CloudRegister(total, min)
  \/ DeprovisionTerminate \/ DeprovisionRemove

-----------------------------------------------------------------------------
(* alloc_reserve and alloc_reserve_on, called by the scheduler.  The       *)
(* allocator's mutex is held until the step that makes sched.pc "idle".    *)

\* A machine that fits in the snapshot, and a free record for the job.  No
\* release of the job is under way: retry_job refuses a job whose execution
\* is registered, and alloc_release comes before active_unregister.
ReserveChoose(j, req, m) ==
  /\ sched = Idle
  /\ req["cores"] > 0
  /\ record[j] = NoSlot /\ j \notin releasing
  /\ m \in present /\ machine_can_fit(machine[m], req)
  /\ sched' = [pc |-> "apply", job |-> j, on |-> m, amount |-> req]
  /\ UNCHANGED <<present, machine, record, row, releasing, unsaved, probe, instances, cloud, restarts>>

\* Fault: the snapshot's verdict is trusted for a machine that is still there.
ReserveApply_Trusting ==
  /\ sched.pc = "apply"
  /\ IF sched.on \in present
     THEN /\ machine' = [machine EXCEPT ![sched.on].reserved = Plus(@, sched.amount)]
          /\ record' = [record EXCEPT ![sched.job] = [on |-> sched.on, amount |-> sched.amount]]
          /\ sched' = [sched EXCEPT !.pc = "persist"]
     ELSE sched' = Idle /\ UNCHANGED <<machine, record>>
  /\ UNCHANGED <<present, row, releasing, unsaved, probe, instances, cloud, restarts>>

\* registry_reserve tests the machine again, as it is now.
ReserveApply ==
  /\ sched.pc = "apply"
  /\ \/ /\ sched.on \in present /\ machine_can_fit(machine[sched.on], sched.amount)
        /\ machine' = [machine EXCEPT ![sched.on].reserved = Plus(@, sched.amount)]
        /\ record' = [record EXCEPT ![sched.job] =
                        [on |-> sched.on, amount |-> sched.amount]]
        /\ sched' = [sched EXCEPT !.pc = "persist"]
     \/ /\ ~(sched.on \in present /\ machine_can_fit(machine[sched.on], sched.amount))
        /\ sched' = Idle
        /\ UNCHANGED <<machine, record>>
  /\ UNCHANGED <<present, row, releasing, unsaved, probe, instances, cloud, restarts>>

\* Fault: a failed commit forgets the record but not the reservation.
ReservePersist_Leaks ==
  /\ sched.pc = "persist"
  /\ \/ row' = row \cup {sched.job} /\ UNCHANGED record
     \/ record' = [record EXCEPT ![sched.job] = NoSlot] /\ UNCHANGED row
  /\ sched' = Idle
  /\ UNCHANGED <<present, machine, releasing, unsaved, probe, instances, cloud, restarts>>

\* persist_record; when SQLite fails the reservation is given back.
ReservePersist ==
  /\ sched.pc = "persist"
  /\ \/ row' = row \cup {sched.job} /\ UNCHANGED <<machine, record>>
     \/ /\ registry_release(record[sched.job])
        /\ record' = [record EXCEPT ![sched.job] = NoSlot]
        /\ UNCHANGED row
  /\ sched' = Idle
  /\ UNCHANGED <<present, releasing, unsaved, probe, instances, cloud, restarts>>

\* alloc_release: the record goes under the mutex, if there is one ...  (A
\* call that would find neither record nor row changes nothing.)
ReleaseRecord(j) ==
  /\ sched = Idle
  /\ j \notin releasing /\ (record[j] # NoSlot \/ j \in row)
  /\ registry_release(record[j])
  /\ record' = [record EXCEPT ![j] = NoSlot]
  /\ releasing' = releasing \cup {j}
  /\ UNCHANGED <<present, row, sched, unsaved, probe, instances, cloud, restarts>>

\* ... and then every row the job has.  The statement may fail, or be undone
\* by the rollback of a retry whose transaction it fell into; the former is
\* a warning and nobody sees the latter.
ReleaseRow(j) ==
  /\ j \in releasing
  /\ releasing' = releasing \ {j}
  /\ \/ row' = row \ {j} /\ unsaved' = unsaved \ {j}
     \/ j \in row /\ unsaved' = unsaved \cup {j} /\ UNCHANGED row
  /\ UNCHANGED <<present, machine, record, sched, probe, instances, cloud, restarts>>

-----------------------------------------------------------------------------
(* The probe thread. *)

\* registry_update_probe
SetStatus(m, status) ==
  machine' = IF m \in present THEN [machine EXCEPT ![m].status = status] ELSE machine

ProbeSnapshot ==
  /\ probe.todo = {} /\ probe.at = NoMachine
  /\ probe' = [probe EXCEPT !.todo =
                 {m \in present : machine[m].type = "STATIC" /\ machine[m].enabled}]
  /\ UNCHANGED <<present, machine, record, row, sched, releasing, unsaved, instances, cloud, restarts>>

\* The loopback is ONLINE at once, any other machine PROBING meanwhile.
ProbeMark(m) ==
  /\ probe.at = NoMachine /\ m \in probe.todo
  /\ SetStatus(m, IF m \in Local THEN "ONLINE" ELSE "PROBING")
  /\ probe' = [todo |-> probe.todo \ {m},
               at   |-> IF m \in Local THEN NoMachine ELSE m]
  /\ UNCHANGED <<present, record, row, sched, releasing, unsaved, instances, cloud, restarts>>

\* Fault: a machine that does not answer stays PROBING.
ProbeAnswer_Silent(ok) ==
  /\ probe.at # NoMachine
  /\ IF ok THEN SetStatus(probe.at, "ONLINE") ELSE UNCHANGED machine
  /\ probe' = [probe EXCEPT !.at = NoMachine]
  /\ UNCHANGED <<present, record, row, sched, releasing, unsaved, instances, cloud, restarts>>

ProbeAnswer(ok) ==
  /\ probe.at # NoMachine
  /\ SetStatus(probe.at, IF ok THEN "ONLINE" ELSE "OFFLINE")
  /\ probe' = [probe EXCEPT !.at = NoMachine]
  /\ UNCHANGED <<present, record, row, sched, releasing, unsaved, instances, cloud, restarts>>

-----------------------------------------------------------------------------

\* Fault: the allocations of the previous run stay unreleased.
Restart_KeepsRows ==
  /\ restarts > 0 /\ restarts' = restarts - 1
  /\ present' \in Pools
  /\ machine' \in Loaded(present')
  /\ record' = [j \in Jobs |-> NoSlot]
  /\ sched' = Idle /\ releasing' = {} /\ unsaved' = {} /\ probe' = [todo |-> {}, at |-> NoMachine]
  /\ cloud' = NoRequest
  /\ UNCHANGED <<row, instances>>

\* The daemon dies at any point and comes back: registry_load reads the
\* machines anew and db_recover_after_restart releases every row.
Restart ==
  /\ restarts > 0 /\ restarts' = restarts - 1
  /\ present' \in Pools
  /\ machine' \in Loaded(present')
  /\ record' = [j \in Jobs |-> NoSlot]
  /\ row' = {}
  /\ sched' = Idle /\ releasing' = {} /\ unsaved' = {} /\ probe' = [todo |-> {}, at |-> NoMachine]
  /\ cloud' = NoRequest
  /\ UNCHANGED instances

Probe == ProbeSnapshot \/ (\E m \in Machines : ProbeMark(m)) \/ (\E ok \in BOOLEAN : ProbeAnswer(ok))

Next ==
  \/ \E m \in Machines, total \in Sizes, enabled \in BOOLEAN : AddMachine(m, total, enabled)
  \/ \E m \in Machines : RemoveMachine(m)
  \/ \E j \in Jobs, req \in Requests, m \in Machines : ReserveChoose(j, req, m)
  \/ ReserveApply \/ ReservePersist
  \/ \E j \in Jobs : ReleaseRecord(j) \/ ReleaseRow(j)
  \/ Cloud \/ Probe
  \/ Restart

Spec == Init /\ [][Next]_vars

\* The probe thread loops for as long as the daemon runs, and a probe has a
\* time limit.
FairSpec == Spec /\ WF_vars(Probe)

-----------------------------------------------------------------------------
(* Properties. *)

Vector == [Kinds -> Nat]

MachineType == [total : Vector, min : Vector, reserved : Vector, enabled : BOOLEAN,
                status : {"ONLINE", "OFFLINE", "PROBING"}, type : {"STATIC", "CLOUD"}]

SlotType == [on : Machines \cup {NoMachine}, amount : Vector]

\* Every variable stays within the values the C types allow.
TypeOK ==
  /\ present \subseteq Machines
  /\ machine \in [Machines -> MachineType]
  /\ record \in [Jobs -> SlotType]
  /\ row \subseteq Jobs
  /\ sched \in [pc : {"idle", "apply", "persist"}, job : Jobs \cup {NoJob},
                on : Machines \cup {NoMachine}, amount : Vector]
  /\ releasing \subseteq Jobs /\ unsaved \subseteq Jobs
  /\ probe \in [todo : SUBSET Machines, at : Machines \cup {NoMachine}]
  /\ instances \subseteq CloudIds
  /\ cloud \in [pc : {"idle", "register", "terminate", "remove"}, at : Machines \cup {NoMachine}]
  /\ restarts \in Nat

(* No machine is overcommitted: what is reserved and what its owner keeps  *)
(* back never exceed what it has, although the allocator chooses from a    *)
(* stale snapshot and an administrator may shrink the machine meanwhile    *)
(* (allocator.c:351, registry.c:364, registry.c:296).                      *)
NoOvercommit ==
  \A m \in present : Covers(machine[m].total, Plus(machine[m].reserved, machine[m].min))

\* What the active records hold of a kind on a machine.
HeldBy(m, k) ==
  Total([j \in Jobs |-> record[j].amount[k]], {j \in Jobs : record[j].on = m})

(* The registry's counters are the sum of the active records, on every     *)
(* path of a reservation and whatever happens to the machine, so that a    *)
(* release never has to clamp and never gives back too little              *)
(* (allocator.c:105, registry.c:393).                                      *)
ReservedIsHeld ==
  \A m \in present, k \in Kinds : machine[m].reserved[k] = HeldBy(m, k)

(* A machine with a reservation stays registered, so its executions always *)
(* find their host and their release (registry.c:342, executor.c:330).     *)
HeldMachineStays ==
  \A j \in Jobs : record[j] # NoSlot => record[j].on \in present

(* Table allocations follows the records through failures and restarts.    *)
(* A row that is not released has a record, a release on its way, or a     *)
(* release that did not reach the file, which the job's next release or    *)
(* the next start makes good.  A record has its row, so that a late        *)
(* release never closes the row of the job's next reservation, and a       *)
(* reservation SQLite refused leaves nothing (allocator.c:302,             *)
(* allocator.c:398-413, db.c:504).                                         *)
RowsFollowRecords ==
  /\ \A j \in row : record[j] # NoSlot \/ j \in releasing \cup unsaved
  /\ \A j \in Jobs : record[j] # NoSlot => j \in row \/ (sched.pc = "persist" /\ sched.job = j)

(* No instance is terminated under a job: the check that a cloud machine   *)
(* is free and the provider's command are two steps, and reservations are  *)
(* made meanwhile (routes.c:3950, cloud.c:160).                            *)
InstanceOutlivesJobs ==
  [][\A m \in instances \ instances' : \A j \in Jobs : record[j].on # m]_vars

AwaitsVerdict(m) ==
  /\ m \in present /\ machine[m].type = "STATIC" /\ machine[m].enabled
  /\ machine[m].status = "PROBING"

(* PROBING does not last: again and again, an enabled static machine has   *)
(* the verdict of its last probe (probe.c:138).                            *)
ProbingEnds == \A m \in Machines : []<>~AwaitsVerdict(m)
=============================================================================
