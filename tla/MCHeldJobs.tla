------------------------------ MODULE MCHeldJobs ------------------------------
(* Instances of HeldJobs. *)
EXTENDS HeldJobs

\* 1 and 2 repeat one submission; 3 waits for 1 and for files; 4 may become
\* a refinement job.
FourJobs == 1..4
OneChild == {4}
ThirdWaits == [j \in 1..4 |-> IF j = 3 THEN {1} ELSE {}]
ThirdHasFiles == [j \in 1..4 |-> j = 3]
SameKey == [j \in 1..4 |-> IF j < 3 THEN "k" ELSE NoKey]
OneKey == {"k"}

\* A workflow of two steps, the second after the first and with files, or a
\* batch of the first alone; 3 may become a refinement job.
ThreeJobs == 1..3
ThirdIsChild == {3}
TwoSteps == {{1, 2}}
OneBatch == {{1}}
SecondWaits == [j \in 1..3 |-> IF j = 2 THEN {1} ELSE {}]
SecondHasFiles == [j \in 1..3 |-> j = 2]
NoKeys == [j \in 1..3 |-> NoKey]

NoGroups == {}

=============================================================================
