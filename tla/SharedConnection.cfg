SPECIFICATION Spec
CONSTANTS
    Solo = {s1}
    Batch = {b1}
    Machines = {m1}
    Nobody = Nobody
    MaxFaults = 2
    MaxCrashes = 1
INVARIANTS
    TypeOK
    AllOrNothing
    OnlyGuestsLose
    ConnectionIsFreed
    BatchAnswerIsTrue
    QueuedWithoutArtifacts
CHECK_DEADLOCK FALSE
