--------------------------- MODULE MCJobLifecycle ---------------------------
(* Small instances of JobLifecycle for TLC: one job with one execution, or *)
(* with two, so that a second one could be registered beside the first.    *)
EXTENDS JobLifecycle

CONSTANTS j1, e1, e2

OneJob == {j1}
OneExec == {e1}
TwoExecs == {e1, e2}
=============================================================================
