----------------------------- MODULE EventChannel -----------------------------
(***************************************************************************)
(* What http/events.c promises: a first-in first-out channel of bounded    *)
(* length between the threads that post events and the HTTP thread.  A     *)
(* post never waits: it costs the oldest pending event when the channel is *)
(* full.  The HTTP thread takes everything pending in one step and works   *)
(* it off in order.                                                        *)
(***************************************************************************)
EXTENDS Naturals, Sequences

CONSTANTS Event,  \* what can be posted
          Size    \* EVENTS_BUF_SIZE

VARIABLES pending,  \* posted and not yet taken, oldest first
          batch     \* taken and not yet worked off, oldest first

vars == <<pending, batch>>

Init == pending = <<>> /\ batch = <<>>

Post(e) ==
  /\ pending' = Append(IF Len(pending) < Size THEN pending ELSE Tail(pending), e)
  /\ UNCHANGED batch

Take ==
  /\ batch = <<>>
  /\ batch' = pending
  /\ pending' = <<>>

WorkOff ==
  /\ batch # <<>>
  /\ batch' = Tail(batch)
  /\ UNCHANGED pending

Next == (\E e \in Event : Post(e)) \/ Take \/ WorkOff

Spec == Init /\ [][Next]_vars
=============================================================================
