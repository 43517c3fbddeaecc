SPECIFICATION FairSpec
CONSTANTS
    Jobs <- ThreeJobs
    UserOf <- OneUser
    AppOf <- TwoApps
    Cores <- SmallLarge
    SameMachineAs <- ThirdPinned
    Machines <- TwoMachines
    Remote <- FirstRemote
    Capacity <- TwoAndOne
    Any = Any
    None = None
    QuotaTables <- SomeQuotas
    Limits <- AllLimits
    MaxDisturbances = 1
INVARIANT
    TypeOK
PROPERTIES
    StartWithinQuota
    PinnedJobsShareMachine
    TickEnds
    QueuedJobsProceed
