SPECIFICATION FairSpec
CONSTANTS
    Jobs <- TwoJobs
    UserOf <- SameUser
    AppOf <- BothApps
    Cores <- TooLarge
    SameMachineAs <- BothFree
    Machines <- TwoMachines
    Remote <- AllLocal
    Capacity <- TwoAndOne
    Any = Any
    None = None
    QuotaTables <- Unrestricted
    Limits <- AllLimits
    MaxDisturbances = 0
PROPERTY
    BlockedHeadCannotStarve
