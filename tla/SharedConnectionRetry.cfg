SPECIFICATION Spec
CONSTANTS
    Solo = {s1}
    Batch = {b1}
    Machines = {m1, m2}
    Nobody = Nobody
    MaxFaults = 0
    MaxCrashes = 0
INVARIANT
    AcknowledgedIsDurable
CHECK_DEADLOCK FALSE
