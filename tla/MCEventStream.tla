---------------------------- MODULE MCEventStream ----------------------------
(* One job of alice, an administrator, two connections and two writers.    *)
EXTENDS EventStream, TLC

CONSTANTS j1, alice, root, http, w1, c1, c2

MCOwner == j1 :> alice

=============================================================================
