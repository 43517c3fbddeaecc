SPECIFICATION Spec
CONSTANTS
    Jobs <- FourJobs
    WantDeps <- ThirdWaits
    WantFiles <- ThirdHasFiles
    KeyOf <- SameKey
    Keys <- OneKey
    NoKey = NoKey
    NoJob = NoJob
    Workflows <- NoGroups
    Batches <- NoGroups
    Children <- OneChild
    MaxCrashes = 0
INVARIANTS
    TypeOK
    QueuedRowHasEntry
    OneJobPerKey
    KeyNamesItsJob
