-------------------------------- MODULE Sums --------------------------------
(* Totals over finite sets, as the counters and SUM()s of the code compute *)
(* them.  A total is defined by counting: every x contributes as many      *)
(* pairs as its value says, so that the facts about cardinalities apply.   *)
EXTENDS Integers, FiniteSets

\* What x contributes.
Units(f, x) == {x} \X (1 .. f[x])

\* The sum of f[x] for x in S.
Total(f, S) == Cardinality(UNION {Units(f, x) : x \in S})
=============================================================================
