------------------------------ MODULE MCDispatch ------------------------------
(* Instances of Dispatch. *)
EXTENDS Dispatch

\* Three jobs of one user in two apps; machine 1 takes two small jobs.
ThreeJobs   == 1..3
OneUser     == <<"alice", "alice", "alice">>
TwoApps     == <<"mesh", "flow", "mesh">>
SmallLarge  == <<1, 2, 1>>
ThirdPinned == <<None, None, 1>>
TwoMachines == 1..2
TwoAndOne   == <<2, 1>>
FirstRemote == {1}
AllLocal    == {}

NoQuota == [s \in Scope |-> None]
OneJob  == [jobs |-> 1, cores |-> 0]
TwoCores == [jobs |-> 0, cores |-> 2]

\* One job at a time per (user, app), and two cores for the rest of the user.
SomeQuotas ==
    {[NoQuota EXCEPT !["alice", "mesh"] = OneJob, !["alice", Any] = TwoCores]}

AllLimits == {OneJob, TwoCores}

\* Two jobs; the first in rank asks for more than any machine has.
TwoJobs     == 1..2
SameUser    == <<"alice", "alice">>
BothApps    == <<"mesh", "flow">>
TooLarge    == <<3, 1>>
BothFree    == <<None, None>>
Unrestricted == {NoQuota}

=============================================================================
