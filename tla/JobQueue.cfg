SPECIFICATION Spec
CONSTANTS
    Objects <- SevenObjects
    Id <- Ids
    Priority <- Priorities
    SubmittedAt <- Submissions
    Predicates <- EvenObjects
    Poppers = {p1, p2}
    InitialCapacity = 4
    MaxDoublings = 1
INVARIANTS
    CellsWithinArray
    HeapOrder
    NoLostWakeup
PROPERTY
    ImplementsPriorityQueue
