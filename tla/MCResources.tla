---------------------------- MODULE MCResources -----------------------------
(* Small machines for TLC: two kinds of resources, a machine that can be   *)
(* shrunk below what two jobs want, in one kind only.  m1 is on the        *)
(* loopback and in provisioning.json; m2 is added later or is a cloud      *)
(* instance.                                                               *)
EXTENDS Resources

LOCAL INSTANCE FiniteSetsExt

\* Counting units is adding up.
ASSUME TotalAddsUp ==
  \A f \in [1..3 -> 0..3], S \in SUBSET (1..3) : Total(f, S) = MapThenSumSet(LAMBDA x : f[x], S)

CONSTANTS m1, m2, j1, j2

OneMachine == {m1}
TwoMachines == {m1, m2}
OneInstance == {m2}
OnePool == {OneMachine}
TwoJobs == {j1, j2}

TwoKinds == {"cores", "ram"}

SmallSizes == {[cores |-> 0, ram |-> 0], [cores |-> 2, ram |-> 1], [cores |-> 2, ram |-> 2]}
SmallRequests == {[cores |-> 1, ram |-> 1]}
=============================================================================
