SPECIFICATION FairSpec
CONSTANTS
  m1 = m1
  m2 = m2
  j1 = j1
  j2 = j2
  Machines <- TwoMachines
  CloudIds <- OneInstance
  Local <- OneMachine
  Pools <- OnePool
  Jobs <- TwoJobs
  Kinds <- TwoKinds
  Sizes <- SmallSizes
  Requests <- SmallRequests
  MaxRestarts = 1
  NoMachine = NoMachine
  NoJob = NoJob
INVARIANTS TypeOK NoOvercommit ReservedIsHeld HeldMachineStays RowsFollowRecords
PROPERTIES ProbingEnds InstanceOutlivesJobs
