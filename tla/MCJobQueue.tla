------------------------------ MODULE MCJobQueue ------------------------------
(* Instances of JobQueue: seven objects fill three levels of the heap, so   *)
(* that a cell moved by a removal may have to rise as well as to sink.      *)
EXTENDS JobQueue

SevenObjects == 1..7

\* Ties on the priority, ties on the time, and objects 6 and 7 are two
\* objects of one job (a stale entry and the one its retry pushed).
Ids         == <<4, 2, 3, 1, 5, 6, 6>>
Priorities  == <<1, 1, 2, 2, 2, 3, 3>>
Submissions == <<1, 2, 1, 1, 3, 1, 1>>

EvenObjects == {{o \in SevenObjects : o % 2 = 0}}

=============================================================================
