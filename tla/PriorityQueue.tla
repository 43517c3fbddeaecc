---------------------------- MODULE PriorityQueue ----------------------------
(***************************************************************************)
(* What include/queue.h promises the scheduler: a set of job objects, out  *)
(* of which a pop takes an object no other eligible object precedes, a     *)
(* removal takes an object carrying the given job id, and which stops      *)
(* accepting objects once it is shut down.  How the objects are stored,    *)
(* and how blocked callers sleep, is JobQueue's business.                  *)
(***************************************************************************)
EXTENDS Integers, Sequences

CONSTANTS
    Objects,        \* job objects a caller may hand to the queue
    Id,             \* the job id, a number standing for its strcmp rank
    Priority,       \* the priority, smaller runs earlier
    SubmittedAt,    \* the submission time
    Predicates      \* the sets of objects a caller's predicate may accept

VARIABLES
    content,        \* the objects in the queue
    closed,         \* queue_shutdown has been called
    ret             \* the last call and what it returned, if anything

vars == <<content, closed, ret>>

Key(o) == <<Priority[o], SubmittedAt[o], Id[o]>>

\* The lexicographic order on (priority, submission time, id).
Earlier(a, b) ==
    \E n \in 1..3 : /\ Key(a)[n] < Key(b)[n]
                    /\ \A m \in 1..(n - 1) : Key(a)[m] = Key(b)[m]

\* The objects of S that may come out first (several only when keys are equal).
First(S) == {o \in S : \A p \in S : ~Earlier(p, o)}

Init ==
    /\ content = {}
    /\ closed = FALSE
    /\ ret = <<"create">>

Accept(o) ==
    /\ o \notin content
    /\ ~closed
    /\ content' = content \cup {o}
    /\ ret' = <<"push", "accepted">>
    /\ UNCHANGED closed

Refuse ==
    /\ ret' = <<"push", "refused">>
    /\ UNCHANGED <<content, closed>>

Take(S, call) ==
    /\ \/ \E o \in First(content \cap S) :
             /\ content' = content \ {o}
             /\ ret' = Append(call, o)
       \/ /\ content \cap S = {}
          /\ ret' = call
          /\ UNCHANGED content
    /\ UNCHANGED closed

Withdraw(id) ==
    LET carriers == {o \in content : Id[o] = id} IN
    /\ \/ \E o \in carriers : content' = content \ {o} /\ ret' = <<"remove", id, o>>
       \/ carriers = {} /\ ret' = <<"remove", id>> /\ UNCHANGED content
    /\ UNCHANGED closed

Close ==
    /\ closed' = TRUE
    /\ UNCHANGED <<content, ret>>

Next ==
    \/ \E o \in Objects : Accept(o)
    \/ Refuse
    \/ Take(Objects, <<"pop">>)
    \/ \E S \in Predicates : Take(S, <<"match", S>>)
    \/ \E o \in Objects : Withdraw(Id[o])
    \/ Close

Spec == Init /\ [][Next]_vars

=============================================================================
