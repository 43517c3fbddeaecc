------------------------------- MODULE JobQueue -------------------------------
(***************************************************************************)
(* The scheduler's queue (src/core/queue.c): a binary heap of Job pointers *)
(* under one mutex, with a condition variable for the blocking pop.  Every *)
(* function holds the mutex from its first to its last access, so one call *)
(* is one step; only queue_pop gives the mutex up half-way, in cond_wait.  *)
(*                                                                         *)
(* The heap is a sequence: cell i of the C array is heap[i + 1], so the    *)
(* parent of position n is n \div 2 and its children are 2n and 2n + 1.    *)
(***************************************************************************)
EXTENDS Integers, Sequences, FiniteSets

CONSTANTS
    Objects,            \* Job objects; two of them may carry the same job id
    Id, Priority, SubmittedAt,
    Predicates,         \* sets of objects accepted by queue_try_pop_matching
    Poppers,            \* threads that call the blocking queue_pop
    InitialCapacity,    \* cells allocated by queue_create
    MaxDoublings        \* bound: how often realloc may grow the array

ASSUME QueueParameters ==
    /\ Id \in [Objects -> Nat]
    /\ Priority \in [Objects -> Int]
    /\ SubmittedAt \in [Objects -> Nat]
    /\ Predicates \subseteq SUBSET Objects
    /\ IsFiniteSet(Poppers)
    /\ InitialCapacity \in Nat \ {0}
    /\ MaxDoublings \in Nat

VARIABLES
    heap,       \* the live cells of the array
    capacity,   \* cells allocated
    shutdown,
    waiting,    \* poppers asleep in cond_wait
    woken,      \* poppers that were signalled and have not got the mutex yet
    ret         \* the last call and its result; nothing follows the call when it is NULL

vars == <<heap, capacity, shutdown, waiting, woken, ret>>

Held == {heap[n] : n \in DOMAIN heap}

Init ==
    /\ heap = <<>>
    /\ capacity = InitialCapacity
    /\ shutdown = FALSE
    /\ waiting = {}
    /\ woken = {}
    /\ ret = <<"create">>

job_before(a, b) ==
    IF Priority[a] # Priority[b] THEN Priority[a] < Priority[b]
    ELSE IF SubmittedAt[a] # SubmittedAt[b] THEN SubmittedAt[a] < SubmittedAt[b]
    ELSE Id[a] < Id[b]

heap_swap(h, a, b) == [h EXCEPT ![a] = h[b], ![b] = h[a]]

\* One turn of the loop of heap_up, at the cell x[2] of the array x[1]: it
\* changes places with its parent, or the loop is over.
Rise(x) ==
    LET h == x[1]
        n == x[2]
    IN  IF n > 1 /\ job_before(h[n], h[n \div 2])
        THEN <<heap_swap(h, n \div 2, n), n \div 2>>
        ELSE x

\* The loop ends after fewer turns than there are cells.
heap_up(h, n) ==
    LET turn[k \in 0..Len(h)] == IF k = 0 THEN <<h, n>> ELSE Rise(turn[k - 1])
    IN  turn[Len(h)][1]

\* The position of the smallest of n and its children, left child preferred.
Smallest(h, n) ==
    LET l == 2 * n
        r == 2 * n + 1
        s == IF l <= Len(h) /\ job_before(h[l], h[n]) THEN l ELSE n
    IN  IF r <= Len(h) /\ job_before(h[r], h[s]) THEN r ELSE s

\* One turn of the loop of heap_down, which is over when a cell precedes its
\* children.
Sink(x) ==
    LET s == Smallest(x[1], x[2])
    IN  IF s = x[2] THEN x ELSE <<heap_swap(x[1], x[2], s), s>>

heap_down(h, n) ==
    LET turn[k \in 0..Len(h)] == IF k = 0 THEN <<h, n>> ELSE Sink(turn[k - 1])
    IN  turn[Len(h)][1]

\* The last cell fills the hole at n.
Moved(h, n) ==
    [i \in 1..(Len(h) - 1) |-> IF i = n THEN h[Len(h)] ELSE h[i]]

\* Bug: the moved cell is only ever pushed towards the leaves.
WithoutCell_DownOnly(h, n) ==
    LET moved == Moved(h, n)
    IN  IF n > Len(moved) THEN moved ELSE heap_down(moved, n)

\* What fills the hole at n moves to where it belongs.
WithoutCell(h, n) ==
    LET moved == Moved(h, n)
    IN  IF n > Len(moved) THEN moved
        ELSE IF n > 1 /\ job_before(moved[n], moved[n \div 2])
             THEN heap_up(moved, n)
             ELSE heap_down(moved, n)

\* Bug: the pusher signals only when the queue was empty before it.
Signal_OnlyFirst ==
    \/ (waiting = {} \/ heap # <<>>) /\ UNCHANGED <<waiting, woken>>
    \/ \E p \in waiting : /\ heap = <<>>
                          /\ waiting' = waiting \ {p}
                          /\ woken' = woken \cup {p}

\* cond_signal: one sleeper, if there is any, is woken.
Signal ==
    \/ waiting = {} /\ UNCHANGED <<waiting, woken>>
    \/ \E p \in waiting : /\ waiting' = waiting \ {p}
                          /\ woken' = woken \cup {p}

\* Bug: the array is grown one push too late.
Grown_Late ==
    IF Len(heap) > capacity THEN 2 * capacity ELSE capacity

\* The capacity a push needs: doubled when the array is full.
Grown ==
    IF Len(heap) = capacity THEN 2 * capacity ELSE capacity

queue_push(o) ==
    /\ o \notin Held
    /\ ~shutdown
    /\ Grown <= InitialCapacity * 2^MaxDoublings
    /\ capacity' = Grown
    /\ heap' = heap_up(Append(heap, o), Len(heap) + 1)
    /\ ret' = <<"push", "accepted">>
    /\ Signal
    /\ UNCHANGED shutdown

\* Refused: the queue is shut down, or realloc fails.
queue_push_fails(o) ==
    /\ o \notin Held
    /\ shutdown \/ Len(heap) = capacity
    /\ ret' = <<"push", "refused">>
    /\ UNCHANGED <<heap, capacity, shutdown, waiting, woken>>

\* Bug: the last cell replaces the root and stays there.
PopRoot_NoSift ==
    /\ ret' = <<"pop", heap[1]>>
    /\ heap' = Moved(heap, 1)

PopRoot ==
    /\ ret' = <<"pop", heap[1]>>
    /\ heap' = WithoutCell(heap, 1)

queue_try_pop ==
    /\ IF heap = <<>> THEN ret' = <<"pop">> /\ UNCHANGED heap ELSE PopRoot
    /\ UNCHANGED <<capacity, shutdown, waiting, woken>>

\* The first best cell in array order, as the scan keeps it.
Best(S) ==
    CHOOSE n \in DOMAIN heap :
        /\ heap[n] \in S
        /\ \A m \in DOMAIN heap : heap[m] \in S =>
              /\ ~job_before(heap[m], heap[n])
              /\ (m < n => job_before(heap[n], heap[m]))

queue_try_pop_matching(S) ==
    /\ IF Held \cap S = {}
       THEN ret' = <<"match", S>> /\ UNCHANGED heap
       ELSE /\ ret' = <<"match", S, heap[Best(S)]>>
            /\ heap' = WithoutCell(heap, Best(S))
    /\ UNCHANGED <<capacity, shutdown, waiting, woken>>

queue_remove(id) ==
    LET cells == {n \in DOMAIN heap : Id[heap[n]] = id}
        index == CHOOSE n \in cells : \A m \in cells : n <= m
    IN  /\ IF cells = {}
           THEN ret' = <<"remove", id>> /\ UNCHANGED heap
           ELSE /\ ret' = <<"remove", id, heap[index]>>
                /\ heap' = WithoutCell(heap, index)
        /\ UNCHANGED <<capacity, shutdown, waiting, woken>>

\* The blocking pop, from its entry or from its wake-up: the loop re-tests.
PopLoop(p) ==
    \/ /\ heap = <<>> /\ ~shutdown
       /\ waiting' = waiting \cup {p}
       /\ UNCHANGED <<heap, ret>>
    \/ /\ heap = <<>> /\ shutdown
       /\ ret' = <<"pop">>
       /\ UNCHANGED <<heap, waiting>>
    \/ /\ heap # <<>>
       /\ PopRoot
       /\ UNCHANGED waiting

queue_pop(p) ==
    /\ p \notin waiting \cup woken
    /\ PopLoop(p)
    /\ UNCHANGED <<capacity, shutdown, woken>>

queue_pop_resumes(p) ==
    /\ p \in woken
    /\ woken' = woken \ {p}
    /\ PopLoop(p)
    /\ UNCHANGED <<capacity, shutdown>>

\* Condition variables may wake a sleeper without a signal.
SpuriousWakeup(p) ==
    /\ p \in waiting
    /\ waiting' = waiting \ {p}
    /\ woken' = woken \cup {p}
    /\ UNCHANGED <<heap, capacity, shutdown, ret>>

\* Bug: shutdown signals one sleeper instead of broadcasting.
queue_shutdown_SignalsOne ==
    /\ shutdown' = TRUE
    /\ Signal
    /\ UNCHANGED <<heap, capacity, ret>>

queue_shutdown ==
    /\ shutdown' = TRUE
    /\ waiting' = {}
    /\ woken' = woken \cup waiting
    /\ UNCHANGED <<heap, capacity, ret>>

Next ==
    \/ \E o \in Objects : queue_push(o) \/ queue_push_fails(o)
    \/ queue_try_pop
    \/ \E S \in Predicates : queue_try_pop_matching(S)
    \/ \E o \in Objects : queue_remove(Id[o])
    \/ \E p \in Poppers : queue_pop(p) \/ queue_pop_resumes(p) \/ SpuriousWakeup(p)
    \/ queue_shutdown

Spec == Init /\ [][Next]_vars

-----------------------------------------------------------------------------
(* Properties *)

\* Every cell holds a different job object and no push ever writes beyond
\* the allocated array (queue_push grows it before the store).
CellsWithinArray ==
    /\ Cardinality(Held) = Len(heap)
    /\ Len(heap) <= capacity
    /\ waiting \cap woken = {}

\* Whatever sequence of pushes, pops and removals from the middle built the
\* array, no cell precedes its parent: heap[0] is a right answer for a pop.
HeapOrder ==
    \A n \in 2..Len(heap) : ~job_before(heap[n], heap[n \div 2])

\* A sleeper is never left behind: as long as somebody sleeps in queue_pop,
\* every queued job is owed to a thread already woken, and the queue is open:
\* queue_shutdown wakes everybody, and nobody goes back to sleep after it.
NoLostWakeup ==
    waiting # {} => ~shutdown /\ Len(heap) <= Cardinality(woken)

\* The heap implements the abstract priority queue: each call returns an
\* object the ordering allows, and loses or duplicates none.
Abstract == INSTANCE PriorityQueue WITH content <- Held, closed <- shutdown
ImplementsPriorityQueue == Abstract!Spec

=============================================================================
