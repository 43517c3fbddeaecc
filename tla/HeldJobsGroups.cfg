SPECIFICATION FairSpec
CONSTANTS
    Jobs <- ThreeJobs
    WantDeps <- SecondWaits
    WantFiles <- SecondHasFiles
    KeyOf <- NoKeys
    Keys <- OneKey
    NoKey = NoKey
    NoJob = NoJob
    Workflows <- TwoSteps
    Batches <- OneBatch
    Children <- ThirdIsChild
    MaxCrashes = 1
PROPERTY
    HeldJobsSettle
INVARIANT
    QueuedRowHasEntry
