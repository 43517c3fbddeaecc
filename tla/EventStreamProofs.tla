-------------------------- MODULE EventStreamProofs --------------------------
(***************************************************************************)
(* Proofs about EventStream, for rings, tables and sets of threads, jobs   *)
(* and connections of any size.                                            *)
(***************************************************************************)
EXTENDS EventStream, SequenceTheorems, TLAPS

\* An index of the ring stays one, whichever slot comes next.
LEMMA FollowingType ==
  ASSUME NEW i \in 0..(Size - 1)
  PROVE  Following(i) \in 0..(Size - 1)
BY StreamParameters DEF Following

\* What is pending is a sequence of events, oldest first.
LEMMA PendingType ==
  ASSUME TypeOK
  PROVE  /\ pending \in Seq(Event)
         /\ Len(pending) = count
         /\ \A k \in 1..count : pending[k] = Nth(k - 1)
<1>1. ASSUME NEW k \in 1..count PROVE Nth(k - 1) \in Event
  <2>1. count \in 0..Size /\ tail \in 0..(Size - 1) /\ Size \in Nat
    BY StreamParameters DEF TypeOK
  <2>2. (IF tail + (k - 1) < Size THEN tail + (k - 1) ELSE tail + (k - 1) - Size) \in 0..(Size - 1)
    BY <2>1
  <2> QED BY <2>2 DEF Nth, TypeOK
<1>2. count \in Nat
  BY StreamParameters DEF TypeOK
<1> QED BY <1>1, <1>2, IsASeq DEF pending

\* A push keeps the ring's counters together.
LEMMA PushType ==
  ASSUME TypeOK, NEW e \in Event, events_push_user(e)
  PROVE  /\ buf' \in [0..(Size - 1) -> Event]
         /\ head' \in 0..(Size - 1) /\ tail' \in 0..(Size - 1) /\ count' \in 0..Size
         /\ head' = IF tail' + count' < Size THEN tail' + count' ELSE tail' + count' - Size
<1>1. /\ Size \in Nat \ {0} /\ count \in 0..Size
      /\ head \in 0..(Size - 1) /\ tail \in 0..(Size - 1)
      /\ head = IF tail + count < Size THEN tail + count ELSE tail + count - Size
  BY StreamParameters DEF TypeOK
<1>2. buf' \in [0..(Size - 1) -> Event]
  BY <1>1 DEF TypeOK, events_push_user
<1>3. CASE count < Size
  BY <1>1, <1>2, <1>3 DEF events_push_user, Following
<1>4. CASE ~(count < Size)
  BY <1>1, <1>2, <1>4 DEF events_push_user, Following
<1> QED BY <1>3, <1>4

\* Removing an entry by moving the last one into its place.
LEMMA RemovalType ==
  ASSUME NEW s \in Seq(Entry), NEW n \in 1..Len(s)
  PROVE  /\ Without(s, n) \in Seq(Entry)
         /\ Len(Without(s, n)) = Len(s) - 1
         /\ \A i \in 1..(Len(s) - 1) : Without(s, n)[i] = IF i = n THEN s[Len(s)] ELSE s[i]
<1> DEFINE t == [s EXCEPT ![n] = Last(s)]
<1>1. Last(s) \in Entry /\ Len(s) \in Nat
  BY ElementOfSeq, LenProperties DEF Last
<1>2. t \in Seq(Entry) /\ Len(t) = Len(s)
  BY <1>1, ExceptSeq
<1>3. \A i \in 1..Len(s) : t[i] = IF i = n THEN s[Len(s)] ELSE s[i]
  BY DEF Last
<1> HIDE DEF t
<1>4. /\ SubSeq(t, 1, Len(t) - 1) \in Seq(Entry)
      /\ Len(SubSeq(t, 1, Len(t) - 1)) = Len(t) - 1
      /\ \A i \in 1..(Len(t) - 1) : SubSeq(t, 1, Len(t) - 1)[i] = t[i]
  BY <1>1, <1>2
<1>5. Front(t) = SubSeq(t, 1, Len(t) - 1)
  BY DEF Front
<1>6. /\ Front(t) \in Seq(Entry)
      /\ Len(Front(t)) = Len(s) - 1
      /\ \A i \in 1..(Len(s) - 1) : Front(t)[i] = IF i = n THEN s[Len(s)] ELSE s[i]
  BY <1>1, <1>2, <1>3, <1>4, <1>5
<1> QED BY <1>6 DEF t, Without

\* Notes and status events are events, and none is taken for the other.
LEMMA Messages ==
  /\ Note \in Event
  /\ \A e \in StatusEvent : e \in Event /\ e.job \in Jobs /\ e.version \in Version /\ IsStatus(e)
  /\ ~IsStatus(Note)
  /\ \A e \in Event : IsStatus(e) => e \in StatusEvent
BY StreamParameters DEF Event, Note, StatusEvent, IsStatus

\* The history variable keeps its type.
LEMMA FateType ==
  ASSUME TypeOK, NEW e
  PROVE  FateAfterPush(e) \in [Jobs -> {"coming", "silent", "overwritten", "overtaken"}]
BY DEF TypeOK, FateAfterPush

\* The ring, the table and the threads start with their types.
LEMMA InitType == Init => TypeOK
<1> SUFFICES ASSUME Init PROVE TypeOK OBVIOUS
<1>1. row \in [Jobs -> Version]
  BY StreamParameters DEF Init, Version
<1>2. writer \in [Writers -> StatusEvent \cup {Idle}]
  BY DEF Init
<1>3. buf \in [0..(Size - 1) -> Event]
  BY Messages DEF Init
<1>4. /\ head \in 0..(Size - 1) /\ tail \in 0..(Size - 1) /\ count \in 0..Size
      /\ head = IF tail + count < Size THEN tail + count ELSE tail + count - Size
  BY StreamParameters DEF Init
<1>5. pc = "poll" /\ out = <<>> /\ out \in Seq(Event) /\ at \in 1..(MaxConns + 1)
  BY StreamParameters DEF Init
<1>6. /\ conn \in [Cells -> Connection \cup {Free}]
      /\ table \in Seq(Entry) /\ Len(table) <= MaxConns
  BY StreamParameters DEF Init
<1>7. fate \in [Jobs -> {"coming", "silent", "overwritten", "overtaken"}]
  BY DEF Init
<1> QED BY <1>1, <1>2, <1>3, <1>4, <1>5, <1>6, <1>7 DEF TypeOK

\* Every step of a writer, of the HTTP thread and of a client keeps them.
LEMMA StepType == TypeOK /\ [Next]_vars => TypeOK'
<1> SUFFICES ASSUME TypeOK, [Next]_vars PROVE TypeOK'
  OBVIOUS
<1> USE StreamParameters
<1>1. ASSUME NEW t \in Writers, NEW j \in Jobs, WriteRow(t, j) PROVE TypeOK'
  <2>1. row' \in [Jobs -> Version] /\ row'[j] \in Version
    BY <1>1 DEF WriteRow, TypeOK, Version
  <2>2. [job |-> j, version |-> row'[j]] \in StatusEvent
    BY <2>1 DEF StatusEvent
  <2>3. writer' \in [Writers -> StatusEvent \cup {Idle}]
    BY <1>1, <2>2 DEF WriteRow, TypeOK
  <2> QED BY <1>1, <2>1, <2>3 DEF WriteRow, TypeOK, ring, loop
<1>2. ASSUME NEW t \in Writers, NEW j \in Jobs, WriteSilently(t, j) PROVE TypeOK'
  BY <1>2 DEF WriteSilently, TypeOK, Version, ring, loop
<1>3. ASSUME NEW t \in Writers, PostStatus(t) PROVE TypeOK'
  <2>1. writer[t] \in StatusEvent
    BY <1>3 DEF PostStatus, TypeOK
  <2>2. writer[t] \in Event
    BY <2>1, Messages
  <2>3. fate' \in [Jobs -> {"coming", "silent", "overwritten", "overtaken"}]
    BY <1>3, FateType DEF PostStatus
  <2>4. writer' \in [Writers -> StatusEvent \cup {Idle}]
    BY <1>3 DEF PostStatus, TypeOK
  <2>5. /\ buf' \in [0..(Size - 1) -> Event]
        /\ head' \in 0..(Size - 1) /\ tail' \in 0..(Size - 1) /\ count' \in 0..Size
        /\ head' = IF tail' + count' < Size THEN tail' + count' ELSE tail' + count' - Size
    BY <1>3, <2>2, PushType DEF PostStatus
  <2> QED BY <1>3, <2>3, <2>4, <2>5 DEF PostStatus, TypeOK, loop
<1>4. ASSUME NEW t \in Writers, events_push_persistent(t) PROVE TypeOK'
  <2>1. fate' \in [Jobs -> {"coming", "silent", "overwritten", "overtaken"}]
    BY <1>4, FateType DEF events_push_persistent
  <2>2. /\ buf' \in [0..(Size - 1) -> Event]
        /\ head' \in 0..(Size - 1) /\ tail' \in 0..(Size - 1) /\ count' \in 0..Size
        /\ head' = IF tail' + count' < Size THEN tail' + count' ELSE tail' + count' - Size
    BY <1>4, Messages, PushType DEF events_push_persistent
  <2> QED BY <1>4, <2>1, <2>2 DEF events_push_persistent, TypeOK, loop
<1>5. ASSUME NEW c \in Cells, NEW u \in Users, sse_subscribe(c, u) PROVE TypeOK'
  <2>1. conn' \in [Cells -> Connection \cup {Free}]
    <3>1. PICK S \in Listing :
       conn' = [conn EXCEPT ![c] =
         [user |-> u, listed |-> Len(table) < MaxConns,
          seen |-> [j \in Jobs |-> IF j \in S /\ MaySee(u, j) THEN row[j] ELSE Unknown]]]
      BY <1>5 DEF sse_subscribe
    <3>2. [j \in Jobs |-> IF j \in S /\ MaySee(u, j) THEN row[j] ELSE Unknown]
            \in [Jobs -> Version \cup {Unknown}]
      BY DEF TypeOK
    <3>3. [user |-> u, listed |-> Len(table) < MaxConns,
           seen |-> [j \in Jobs |-> IF j \in S /\ MaySee(u, j) THEN row[j] ELSE Unknown]]
            \in Connection
      BY <3>2 DEF Connection
    <3> QED BY <3>1, <3>3 DEF TypeOK
  <2>2. [cell |-> c, user |-> u] \in Entry
    BY DEF Entry
  <2>3. table' \in Seq(Entry) /\ Len(table') <= MaxConns
    BY <1>5, <2>2 DEF sse_subscribe, httpd_sse_add_user, TypeOK
  <2> QED BY <1>5, <2>1, <2>3 DEF sse_subscribe, TypeOK, ring, loop
<1>6. ASSUME NEW c \in Cells, Close(c) PROVE TypeOK'
  BY <1>6 DEF Close, TypeOK, ring, loop
<1>7. ASSUME Drain PROVE TypeOK'
  <2>1. out' \in Seq(Event)
    BY <1>7, PendingType DEF Drain, events_drain
  <2>2. /\ tail' \in 0..(Size - 1) /\ count' \in 0..Size
        /\ head' = IF tail' + count' < Size THEN tail' + count' ELSE tail' + count' - Size
    BY <1>7 DEF Drain, events_drain, TypeOK
  <2> QED BY <1>7, <2>1, <2>2 DEF Drain, events_drain, TypeOK
<1>8. ASSUME SendTo PROVE TypeOK'
  <2> DEFINE c == table[at].cell
             m == Head(out)
  <2>1. at \in 1..Len(table) /\ table[at] \in Entry /\ c \in Cells
    <3>1. table \in Seq(Entry) /\ at \in 1..Len(table)
      BY <1>8 DEF SendTo, Sweeping, TypeOK
    <3>2. table[at] \in Entry
      BY <3>1, ElementOfSeq
    <3> QED BY <3>1, <3>2 DEF Entry
  <2>2. m \in Event
    BY <1>8 DEF SendTo, Sweeping, TypeOK
  <2>3. conn' \in [Cells -> Connection \cup {Free}]
    <3>1. CASE conn[c] # Free /\ IsStatus(m) /\ MaySee(table[at].user, m.job)
      <4>1. m.job \in Jobs /\ m.version \in Version
        BY <2>2, <3>1, Messages
      <4>2. conn[c] \in Connection
        BY <2>1, <3>1 DEF TypeOK
      <4>3. [conn[c] EXCEPT !.seen[m.job] = m.version] \in Connection
        BY <4>1, <4>2 DEF Connection
      <4>4. conn' = [conn EXCEPT ![c] = [conn[c] EXCEPT !.seen[m.job] = m.version]]
        BY <1>8, <2>1, <3>1 DEF SendTo, TypeOK
      <4> QED BY <4>3, <4>4 DEF TypeOK
    <3>2. CASE ~(conn[c] # Free /\ IsStatus(m) /\ MaySee(table[at].user, m.job))
      BY <1>8, <3>2 DEF SendTo, TypeOK
    <3> QED BY <3>1, <3>2
  <2>4. at' \in 1..(MaxConns + 1)
    BY <1>8, <2>1, SMTT(30) DEF SendTo, TypeOK
  <2> QED BY <1>8, <2>3, <2>4 DEF SendTo, TypeOK, ring
<1>9. ASSUME DropEntry PROVE TypeOK'
  <2>1. at \in 1..Len(table)
    BY <1>9 DEF DropEntry, Sweeping, TypeOK
  <2>2. table' \in Seq(Entry) /\ Len(table') = Len(table) - 1
    BY <1>9, <2>1, RemovalType DEF DropEntry, TypeOK
  <2>3. Len(table') <= MaxConns
    BY <2>2 DEF TypeOK
  <2> QED BY <1>9, <2>2, <2>3 DEF DropEntry, TypeOK, ring, loop
<1>10. ASSUME NextMessage PROVE TypeOK'
  <2>1. out' \in Seq(Event)
    BY <1>10 DEF NextMessage, TypeOK
  <2>2. pc = "heartbeat" => out' = <<>>
    BY <1>10 DEF NextMessage, TypeOK
  <2> QED BY <1>10, <2>1, <2>2 DEF NextMessage, TypeOK, ring
<1>11. ASSUME sse_heartbeat PROVE TypeOK'
  <2>1. out' \in Seq(Event)
    BY <1>11, Messages DEF sse_heartbeat
  <2> QED BY <1>11, <2>1 DEF sse_heartbeat, TypeOK, ring
<1>12. ASSUME mg_mgr_poll PROVE TypeOK'
  BY <1>12 DEF mg_mgr_poll, TypeOK, ring
<1>13. ASSUME httpd_stop PROVE TypeOK'
  BY <1>13 DEF httpd_stop, TypeOK, ring
<1>14. CASE UNCHANGED vars
  BY <1>14 DEF vars, TypeOK
<1> QED
  BY <1>1, <1>2, <1>3, <1>4, <1>5, <1>6, <1>7, <1>8, <1>9, <1>10, <1>11, <1>12, <1>13, <1>14
  DEF Next

(***************************************************************************)
(* The types hold, and the ring's indices and its count never come apart,  *)
(* for rings and tables of any size (events.c:40-69).                      *)
(***************************************************************************)
THEOREM TypeCorrect == Spec => []TypeOK
BY InitType, StepType, PTL DEF Spec

-----------------------------------------------------------------------------
(* The ring implements the channel. *)

\* A sequence that is one longer and agrees on the rest was appended to.
LEMMA AppendIs ==
  ASSUME NEW s \in Seq(Event), NEW e \in Event
  PROVE  Append(s, e) = [k \in 1..(Len(s) + 1) |-> IF k = Len(s) + 1 THEN e ELSE s[k]]
<1> DEFINE t == [k \in 1..(Len(s) + 1) |-> IF k = Len(s) + 1 THEN e ELSE s[k]]
<1>1. Len(s) \in Nat /\ \A k \in 1..Len(s) : s[k] \in Event
  BY LenProperties, ElementOfSeq
<1>2. t \in Seq(Event) /\ Len(t) = Len(s) + 1
  <2>1. \A k \in 1..(Len(s) + 1) : (IF k = Len(s) + 1 THEN e ELSE s[k]) \in Event
    BY <1>1
  <2> QED BY <1>1, <2>1, IsASeq
<1>3. /\ Append(s, e) \in Seq(Event) /\ Len(Append(s, e)) = Len(s) + 1
      /\ \A k \in 1..Len(s) : Append(s, e)[k] = s[k]
      /\ Append(s, e)[Len(s) + 1] = e
  BY AppendProperties
<1>4. \A k \in 1..(Len(s) + 1) : Append(s, e)[k] = t[k]
  BY <1>1, <1>3
<1> HIDE DEF t
<1>5. Append(s, e) = t
  BY <1>2, <1>3, <1>4, SeqEqual
<1> QED BY <1>5 DEF t

\* The events after a push, seen from the oldest one.
LEMMA PushPends ==
  ASSUME TypeOK, NEW e \in Event, events_push_user(e)
  PROVE  pending' = Append(IF Len(pending) < Size THEN pending ELSE Tail(pending), e)
<1> DEFINE q == IF Len(pending) < Size THEN pending ELSE Tail(pending)
<1>1. /\ Size \in Nat \ {0} /\ count \in 0..Size
      /\ head \in 0..(Size - 1) /\ tail \in 0..(Size - 1)
      /\ head = IF tail + count < Size THEN tail + count ELSE tail + count - Size
      /\ buf \in [0..(Size - 1) -> Event]
  BY StreamParameters DEF TypeOK
<1>2. /\ pending \in Seq(Event) /\ Len(pending) = count
      /\ \A k \in 1..count : pending[k] = Nth(k - 1)
  BY PendingType
<1>3. pending' = [k \in 1..count' |-> Nth(k - 1)']
  BY DEF pending
<1>4. CASE count < Size
  <2>1. q = pending /\ count' = count + 1 /\ tail' = tail
    BY <1>2, <1>4 DEF events_push_user
  <2>2. ASSUME NEW k \in 1..count PROVE Nth(k - 1)' = pending[k]
    <3> DEFINE i == IF tail + (k - 1) < Size THEN tail + (k - 1) ELSE tail + (k - 1) - Size
    <3>1. i \in 0..(Size - 1) /\ i # head
      BY <1>1, <1>4
    <3>2. buf'[i] = buf[i]
      BY <1>1, <3>1 DEF events_push_user
    <3>3. Nth(k - 1)' = buf'[i] /\ Nth(k - 1) = buf[i]
      BY <2>1 DEF Nth
    <3> QED BY <1>2, <3>2, <3>3
  <2>3. ASSUME NEW k \in 1..(count + 1), k = count + 1 PROVE Nth(k - 1)' = e
    <3>1. buf'[head] = e
      BY <1>1 DEF events_push_user
    <3>2. Nth(k - 1)' = buf'[head]
      BY <1>1, <2>1, <2>3 DEF Nth
    <3> QED BY <3>1, <3>2
  <2>4. Append(pending, e) = [k \in 1..(count + 1) |-> IF k = count + 1 THEN e ELSE pending[k]]
    BY <1>2, AppendIs
  <2>5. ASSUME NEW k \in 1..(count + 1)
        PROVE  Nth(k - 1)' = IF k = count + 1 THEN e ELSE pending[k]
    <3>1. CASE k = count + 1
      BY <2>3, <3>1
    <3>2. CASE k # count + 1
      <4>1. k \in 1..count
        BY <1>1, <3>2
      <4> QED BY <2>2, <3>2, <4>1
    <3> QED BY <3>1, <3>2
  <2> QED BY <1>3, <2>1, <2>4, <2>5
<1>5. CASE ~(count < Size)
  <2>1. q = Tail(pending) /\ count' = count /\ count = Size /\ tail' = Following(tail)
    BY <1>1, <1>2, <1>5 DEF events_push_user
  <2>2. /\ Tail(pending) \in Seq(Event) /\ Len(Tail(pending)) = count - 1
        /\ \A k \in 1..(count - 1) : Tail(pending)[k] = pending[k + 1]
    BY <1>1, <1>2, <2>1
  <2>3. ASSUME NEW k \in 1..(count - 1) PROVE Nth(k - 1)' = pending[k + 1]
    <3>1. pending[k + 1] = Nth(k)
      BY <1>1, <1>2
    <3> QED BY <1>1, <2>1, <3>1 DEF Nth, Following, events_push_user
  <2>4. ASSUME NEW k \in 1..count, k = count PROVE Nth(k - 1)' = e
    <3> DEFINE i == IF Following(tail) + (k - 1) < Size THEN Following(tail) + (k - 1)
                    ELSE Following(tail) + (k - 1) - Size
    <3>1. i = head
      BY <1>1, <2>1, <2>4 DEF Following
    <3>2. buf'[head] = e
      BY <1>1 DEF events_push_user
    <3>3. Nth(k - 1)' = buf'[i]
      BY <2>1 DEF Nth
    <3> QED BY <3>1, <3>2, <3>3
  <2>5. Append(Tail(pending), e) =
          [k \in 1..count |-> IF k = count THEN e ELSE Tail(pending)[k]]
    <3> DEFINE s == Tail(pending)
    <3>1. s \in Seq(Event) /\ Len(s) + 1 = count
      BY <1>1, <2>1, <2>2
    <3> HIDE DEF s
    <3>2. Append(s, e) = [k \in 1..(Len(s) + 1) |-> IF k = Len(s) + 1 THEN e ELSE s[k]]
      BY <3>1, AppendIs
    <3>3. Append(s, e) = [k \in 1..count |-> IF k = count THEN e ELSE s[k]]
      BY <3>1, <3>2
    <3> QED BY <3>3 DEF s
  <2>6. ASSUME NEW k \in 1..count
        PROVE  Nth(k - 1)' = IF k = count THEN e ELSE Tail(pending)[k]
    <3>1. CASE k = count
      BY <2>4, <3>1
    <3>2. CASE k # count
      <4>1. k \in 1..(count - 1)
        BY <1>1, <3>2
      <4> QED BY <2>2, <2>3, <3>2, <4>1
    <3> QED BY <3>1, <3>2
  <2> QED BY <1>3, <2>1, <2>5, <2>6
<1> QED BY <1>4, <1>5

\* Nothing is pending in a ring that counts nothing.
LEMMA NothingPending ==
  ASSUME count = 0 PROVE pending = <<>>
BY DEF pending

\* While the ring is left alone, so is what is pending.
LEMMA RingUntouched ==
  ASSUME UNCHANGED ring PROVE pending' = pending
BY DEF ring, pending, Nth

\* The batch of the channel.
handed == IF pc = "heartbeat" THEN <<>> ELSE out

\* The empty ring is the empty channel.
LEMMA ChannelInit == Init => Channel!Init
BY NothingPending DEF Init, Channel!Init

\* Every step is a post, a take, a hand-out, or leaves the channel alone.
LEMMA ChannelStep == TypeOK /\ [Next]_vars => [Channel!Next]_(Channel!vars)
<1> SUFFICES ASSUME TypeOK, [Next]_vars
             PROVE  Channel!Next \/ (pending' = pending /\ handed' = handed)
  BY DEF Channel!vars, handed
<1>1. ASSUME NEW t \in Writers, NEW j \in Jobs, WriteRow(t, j) \/ WriteSilently(t, j)
      PROVE  pending' = pending /\ handed' = handed
  BY <1>1, RingUntouched DEF WriteRow, WriteSilently, loop, handed
<1>2. ASSUME NEW t \in Writers, PostStatus(t) PROVE Channel!Next
  <2>1. writer[t] \in Event
    BY <1>2, Messages DEF PostStatus, TypeOK
  <2>2. Channel!Post(writer[t])
    BY <1>2, <2>1, PushPends DEF PostStatus, Channel!Post, loop
  <2> QED BY <2>1, <2>2 DEF Channel!Next
<1>3. ASSUME NEW t \in Writers, events_push_persistent(t) PROVE Channel!Next
  <2>1. Channel!Post(Note)
    BY <1>3, Messages, PushPends DEF events_push_persistent, Channel!Post, loop
  <2> QED BY <2>1, Messages DEF Channel!Next
<1>4. ASSUME NEW c \in Cells, (\E u \in Users : sse_subscribe(c, u)) \/ Close(c)
      PROVE  pending' = pending /\ handed' = handed
  BY <1>4, RingUntouched DEF sse_subscribe, Close, loop, handed
<1>5. ASSUME Drain PROVE Channel!Next
  <2>1. count' = 0 /\ pending' = <<>>
    BY <1>5 DEF Drain, events_drain, pending
  <2>2. Channel!Take
    BY <1>5, <2>1 DEF Drain, events_drain, TypeOK, Channel!Take
  <2> QED BY <2>2 DEF Channel!Next
<1>6. ASSUME SendTo \/ DropEntry PROVE pending' = pending /\ handed' = handed
  BY <1>6, RingUntouched DEF SendTo, DropEntry, loop, handed
<1>7. ASSUME NextMessage PROVE Channel!Next \/ (pending' = pending /\ handed' = handed)
  <2>1. pending' = pending
    BY <1>7, RingUntouched DEF NextMessage
  <2>2. CASE pc = "heartbeat"
    BY <1>7, <2>1, <2>2 DEF NextMessage, handed
  <2>3. CASE pc # "heartbeat"
    <3>1. Channel!WorkOff
      BY <1>7, <2>1, <2>3 DEF NextMessage, Channel!WorkOff
    <3> QED BY <3>1 DEF Channel!Next
  <2> QED BY <2>2, <2>3
<1>8. ASSUME sse_heartbeat \/ mg_mgr_poll \/ httpd_stop
      PROVE  pending' = pending /\ handed' = handed
  BY <1>8, RingUntouched DEF sse_heartbeat, mg_mgr_poll, httpd_stop, handed
<1>9. CASE UNCHANGED vars
  BY <1>9, RingUntouched DEF vars, ring, handed
<1> QED
  BY <1>1, <1>2, <1>3, <1>4, <1>5, <1>6, <1>7, <1>8, <1>9 DEF Next

(***************************************************************************)
(* For every size of the ring and any number of threads, the ring, its     *)
(* three counters and the drain of the HTTP thread are a first-in          *)
(* first-out channel that gives up its oldest event, and only that, when   *)
(* it is full (events.c:40-69, httpd.c:104-107).                           *)
(***************************************************************************)
THEOREM RingIsChannel == Spec => ImplementsChannel
<1>1. Init => Channel!Init
  BY ChannelInit
<1>2. TypeOK /\ [Next]_vars => [Channel!Next]_(Channel!vars)
  BY ChannelStep
<1> QED BY <1>1, <1>2, TypeCorrect, PTL DEF Spec, ImplementsChannel, Channel!Spec

-----------------------------------------------------------------------------
(* Subscribers are kept up to date. *)

News(j) == [job |-> j, version |-> row[j]]

\* A connection that was entered in the table still has its entry there.
ListedHasEntry ==
  \A c \in Cells : conn[c] # Free /\ conn[c].listed =>
    \E n \in 1..Len(table) : table[n] = [cell |-> c, user |-> conn[c].user]

Older(m, j) == m.job = j /\ m # News(j)

\* In the pipeline, a job's old status is followed by its present one.
NewsIsLast(j) ==
  /\ \A k \in 1..count : Older(pending[k], j) =>
       \E k2 \in 1..count : k2 > k /\ pending[k2] = News(j)
  /\ \A k \in 1..Len(out) : Older(out[k], j) =>
       \/ \E k2 \in 1..Len(out) : k2 > k /\ out[k2] = News(j)
       \/ \E k2 \in 1..count : pending[k2] = News(j)

NewsFollows == \A j \in Jobs : fate[j] = "coming" => InFlight(j) \/ NewsIsLast(j)

\* OutdatedOnlyForAReason is not inductive: sending an old status makes a
\* client outdated, which is harmless because the present one comes behind
\* it (NewsFollows) and reaches every listed client (ListedHasEntry).
Upkeep == TypeOK /\ ListedHasEntry /\ NewsFollows /\ OutdatedOnlyForAReason

\* A push puts its event last and moves the others up by d places.
LEMMA PushShift ==
  ASSUME TypeOK, NEW e \in Event, events_push_user(e),
         NEW d, d = IF count < Size THEN 0 ELSE 1
  PROVE  /\ count \in Nat /\ count' = count + 1 - d /\ d \in 0..1
         /\ d = 1 => count = Size /\ count >= 1 /\ pending[1] = Nth(0)
         /\ pending'[count'] = e
         /\ \A k \in 1..(count' - 1) : pending'[k] = pending[k + d]
<1>1. Size \in Nat \ {0} /\ count \in 0..Size
  BY StreamParameters DEF TypeOK
<1>2. count' = count + 1 - d
  BY <1>1 DEF events_push_user
<1>3. /\ pending \in Seq(Event) /\ Len(pending) = count
      /\ \A k \in 1..count : pending[k] = Nth(k - 1)
  BY PendingType
<1>4. pending' = Append(IF Len(pending) < Size THEN pending ELSE Tail(pending), e)
  BY PushPends
<1>5. CASE count < Size
  <2>1. pending' = Append(pending, e)
    BY <1>3, <1>4, <1>5
  <2> QED BY <1>1, <1>2, <1>3, <1>5, <2>1
<1>6. CASE ~(count < Size)
  <2>1. pending' = Append(Tail(pending), e)
    BY <1>3, <1>4, <1>6
  <2>2. /\ Tail(pending) \in Seq(Event) /\ Len(Tail(pending)) = count - 1
        /\ \A k \in 1..(count - 1) : Tail(pending)[k] = pending[k + 1]
    BY <1>1, <1>3, <1>6
  <2>3. pending[1] = Nth(0)
    BY <1>1, <1>3, <1>6
  <2>4. /\ pending'[count] = e
        /\ \A k \in 1..(count - 1) : pending'[k] = pending[k + 1]
    <3>1. /\ Append(Tail(pending), e)[Len(Tail(pending)) + 1] = e
          /\ \A k \in 1..Len(Tail(pending)) : Append(Tail(pending), e)[k] = Tail(pending)[k]
      BY <2>2, AppendProperties
    <3> QED BY <1>1, <2>1, <2>2, <3>1
  <2> QED BY <1>1, <1>2, <1>6, <2>3, <2>4
<1> QED BY <1>5, <1>6

\* The table after an entry was removed.
LEMMA Dropped ==
  ASSUME TypeOK, DropEntry
  PROVE  /\ at \in 1..Len(table) /\ conn[table[at].cell] = Free
         /\ Len(table') = Len(table) - 1
         /\ \A i \in 1..(Len(table) - 1) :
              table'[i] = IF i = at THEN table[Len(table)] ELSE table[i]
<1> DEFINE s == table
           k == at
<1>1. s \in Seq(Entry) /\ k \in 1..Len(s) /\ conn[table[at].cell] = Free /\ table' = Without(s, k)
  BY DEF TypeOK, DropEntry, Sweeping
<1> HIDE DEF s, k
<1>2. /\ Len(Without(s, k)) = Len(s) - 1
      /\ \A i \in 1..(Len(s) - 1) : Without(s, k)[i] = IF i = k THEN s[Len(s)] ELSE s[i]
  BY <1>1, RemovalType
<1> QED BY <1>1, <1>2 DEF s, k

\* A new subscriber knows the present status of the jobs it was told of.
LEMMA Subscribed ==
  ASSUME TypeOK, NEW c \in Cells, NEW u \in Users, sse_subscribe(c, u)
  PROVE  /\ conn'[c].user = u
         /\ conn'[c].listed => Len(table) < MaxConns
         /\ \A j \in Jobs : conn'[c].seen[j] \in {Unknown, row[j]}
         /\ \A b \in Cells \ {c} : conn'[b] = conn[b]
<1>1. PICK S \in Listing :
         conn' = [conn EXCEPT ![c] =
           [user |-> u, listed |-> Len(table) < MaxConns,
            seen |-> [j \in Jobs |-> IF j \in S /\ MaySee(u, j) THEN row[j] ELSE Unknown]]]
  BY DEF sse_subscribe
<1>2. conn'[c] =
        [user |-> u, listed |-> Len(table) < MaxConns,
         seen |-> [j \in Jobs |-> IF j \in S /\ MaySee(u, j) THEN row[j] ELSE Unknown]]
  BY <1>1 DEF TypeOK
<1>3. CASE ~(Len(table) < MaxConns)
  <2>1. (Len(table) < MaxConns) = FALSE
    BY <1>3
  <2>2. conn'[c] =
          [user |-> u, listed |-> FALSE,
           seen |-> [j \in Jobs |-> IF j \in S /\ MaySee(u, j) THEN row[j] ELSE Unknown]]
    BY <1>2, <2>1, Zenon
  <2> QED BY <1>1, <2>2 DEF TypeOK
<1>4. CASE Len(table) < MaxConns
  <2>1. conn'[c].user = u /\ \A j \in Jobs : conn'[c].seen[j] \in {Unknown, row[j]}
    BY <1>2
  <2> QED BY <1>1, <1>4, <2>1 DEF TypeOK
<1> QED BY <1>3, <1>4

\* A subscriber that is in the table stays there while it is connected.
LEMMA ListedStep == TypeOK /\ ListedHasEntry /\ [Next]_vars => ListedHasEntry'
<1> SUFFICES ASSUME TypeOK, ListedHasEntry, [Next]_vars,
                    NEW c \in Cells, conn'[c] # Free, conn'[c].listed
             PROVE  \E n \in 1..Len(table') : table'[n] = [cell |-> c, user |-> conn'[c].user]
  BY DEF ListedHasEntry
<1> USE StreamParameters
<1>1. Len(table) \in Nat /\ table \in Seq(Entry)
  BY DEF TypeOK
<1>2. ASSUME conn[c] # Free, conn[c].listed, conn'[c].user = conn[c].user, table' = table
      PROVE  \E n \in 1..Len(table') : table'[n] = [cell |-> c, user |-> conn'[c].user]
  BY <1>2 DEF ListedHasEntry
<1>3. CASE UNCHANGED <<conn, table>>
  BY <1>2, <1>3
<1>4. ASSUME NEW b \in Cells, NEW u \in Users, sse_subscribe(b, u)
      PROVE  \E n \in 1..Len(table') : table'[n] = [cell |-> c, user |-> conn'[c].user]
  <2>0. [cell |-> b, user |-> u] \in Entry
    BY DEF Entry
  <2>1. CASE c = b
    <3>1. Len(table) < MaxConns /\ conn'[c].user = u
      BY <1>4, <2>1, Subscribed
    <3>2. table' = Append(table, [cell |-> c, user |-> u])
      BY <1>4, <2>1, <3>1 DEF sse_subscribe, httpd_sse_add_user
    <3>3. Len(table') = Len(table) + 1 /\ table'[Len(table) + 1] = [cell |-> c, user |-> u]
      BY <1>1, <2>0, <2>1, <3>2
    <3> QED BY <1>1, <3>1, <3>3
  <2>2. CASE c # b
    <3>1. conn'[c] = conn[c]
      BY <1>4, <2>2, Subscribed
    <3>2. PICK n \in 1..Len(table) : table[n] = [cell |-> c, user |-> conn[c].user]
      BY <3>1 DEF ListedHasEntry
    <3>3. n \in 1..Len(table') /\ table'[n] = table[n]
      <4>1. CASE Len(table) < MaxConns
        BY <1>1, <1>4, <2>0, <4>1 DEF sse_subscribe, httpd_sse_add_user
      <4>2. CASE ~(Len(table) < MaxConns)
        BY <1>4, <4>2 DEF sse_subscribe, httpd_sse_add_user
      <4> QED BY <4>1, <4>2
    <3> QED BY <3>1, <3>2, <3>3
  <2> QED BY <2>1, <2>2
<1>5. ASSUME NEW b \in Cells, Close(b)
      PROVE  \E n \in 1..Len(table') : table'[n] = [cell |-> c, user |-> conn'[c].user]
  <2>1. conn'[c] = conn[c]
    BY <1>5 DEF Close, TypeOK
  <2> QED BY <1>2, <1>5, <2>1 DEF Close
<1>6. ASSUME SendTo
      PROVE  \E n \in 1..Len(table') : table'[n] = [cell |-> c, user |-> conn'[c].user]
  <2>1. conn[c] # Free /\ conn[c].listed /\ conn'[c].user = conn[c].user
    <3>1. CASE conn' = conn
      BY <3>1
    <3>2. CASE conn' # conn
      <4>1. /\ conn[table[at].cell] # Free
            /\ conn' = [conn EXCEPT ![table[at].cell].seen[Head(out).job] = Head(out).version]
        BY <1>6, <3>2 DEF SendTo
      <4>2. CASE c = table[at].cell
        BY <4>1, <4>2 DEF TypeOK, Connection
      <4>3. CASE c # table[at].cell
        BY <4>1, <4>3 DEF TypeOK
      <4> QED BY <4>2, <4>3
    <3> QED BY <3>1, <3>2
  <2> QED BY <1>2, <1>6, <2>1 DEF SendTo
<1>7. ASSUME DropEntry
      PROVE  \E n \in 1..Len(table') : table'[n] = [cell |-> c, user |-> conn'[c].user]
  <2>1. conn' = conn /\ at \in 1..Len(table) /\ conn[table[at].cell] = Free
    BY <1>7 DEF DropEntry, Sweeping, TypeOK
  <2>2. PICK n \in 1..Len(table) : table[n] = [cell |-> c, user |-> conn[c].user]
    BY <2>1 DEF ListedHasEntry
  <2>3. n # at
    BY <2>1, <2>2
  <2>4. /\ Len(table') = Len(table) - 1
        /\ \A i \in 1..(Len(table) - 1) :
             table'[i] = IF i = at THEN table[Len(table)] ELSE table[i]
    BY <1>7, Dropped
  <2>5. CASE n = Len(table)
    <3>1. at \in 1..Len(table') /\ table'[at] = table[n]
      BY <1>1, <2>1, <2>3, <2>4, <2>5
    <3> QED BY <2>1, <2>2, <3>1
  <2>6. CASE n # Len(table)
    <3>1. n \in 1..Len(table') /\ table'[n] = table[n]
      BY <1>1, <2>3, <2>4, <2>6
    <3> QED BY <2>1, <2>2, <3>1
  <2> QED BY <2>5, <2>6
<1>8. ASSUME httpd_stop PROVE FALSE
  BY <1>8 DEF httpd_stop
<1>9. [Next]_vars => \/ UNCHANGED <<conn, table>>
                     \/ \E b \in Cells, u \in Users : sse_subscribe(b, u)
                     \/ \E b \in Cells : Close(b)
                     \/ SendTo \/ DropEntry \/ httpd_stop
  BY DEF Next, vars, WriteRow, WriteSilently, PostStatus, events_push_persistent, Drain,
         NextMessage, sse_heartbeat, mg_mgr_poll
<1> QED BY <1>3, <1>4, <1>5, <1>6, <1>7, <1>8, <1>9

\* What a push leaves of the pipeline of a job whose news is still to come.
LEMMA NewsAfterPush ==
  ASSUME TypeOK, NEW e \in Event, events_push_user(e), fate' = FateAfterPush(e),
         UNCHANGED <<row, loop>>,
         NEW j \in Jobs, fate'[j] = "coming", e = News(j) \/ (e.job # j /\ NewsIsLast(j))
  PROVE  NewsIsLast(j)'
<1> DEFINE d == IF count < Size THEN 0 ELSE 1
<1>1. /\ count \in Nat /\ count' = count + 1 - d /\ d \in 0..1
      /\ d = 1 => count = Size /\ count >= 1 /\ pending[1] = Nth(0)
      /\ pending'[count'] = e
      /\ \A k \in 1..(count' - 1) : pending'[k] = pending[k + d]
  BY PushShift
<1>2. News(j)' = News(j) /\ out' = out
  BY DEF News, loop
<1>3. fate[j] = "coming" /\ ~(count = Size /\ Nth(0) = News(j))
  BY DEF FateAfterPush, News
<1> HIDE DEF d
<1>4. ASSUME NEW k \in 1..count, pending[k] = News(j)
      PROVE  k - d \in 1..(count' - 1) /\ pending'[k - d] = News(j)
  BY <1>1, <1>3, <1>4
<1>5. ASSUME NEW k \in 1..count', Older(pending'[k], j)
      PROVE  \E k2 \in 1..count' : k2 > k /\ pending'[k2] = News(j)
  <2>2. CASE e = News(j)
    <3>1. k # count'
      BY <1>1, <1>5, <2>2 DEF Older
    <3> QED BY <1>1, <2>2, <3>1
  <2>3. CASE e.job # j /\ NewsIsLast(j)
    <3>1. k \in 1..(count' - 1)
      BY <1>1, <1>5, <2>3 DEF Older
    <3>2. k + d \in 1..count /\ Older(pending[k + d], j)
      BY <1>1, <1>5, <3>1
    <3>3. PICK k2 \in 1..count : k2 > k + d /\ pending[k2] = News(j)
      BY <2>3, <3>2 DEF NewsIsLast
    <3>4. k2 - d \in 1..count' /\ k2 - d > k /\ pending'[k2 - d] = News(j)
      BY <1>1, <1>4, <3>1, <3>3
    <3> QED BY <3>4
  <2> QED BY <2>2, <2>3
<1>6. ASSUME NEW k \in 1..Len(out), Older(out[k], j)
      PROVE  \/ \E k2 \in 1..Len(out) : k2 > k /\ out[k2] = News(j)
             \/ \E k2 \in 1..count' : pending'[k2] = News(j)
  <2>1. CASE e = News(j)
    BY <1>1, <2>1
  <2>2. CASE NewsIsLast(j)
    <3>1. CASE \E k2 \in 1..Len(out) : k2 > k /\ out[k2] = News(j)
      BY <3>1
    <3>2. CASE \E k2 \in 1..count : pending[k2] = News(j)
      <4>1. PICK k2 \in 1..count : pending[k2] = News(j)
        BY <3>2
      <4>2. k2 - d \in 1..count' /\ pending'[k2 - d] = News(j)
        BY <1>1, <1>4, <4>1
      <4> QED BY <4>2
    <3> QED BY <1>6, <2>2, <3>1, <3>2 DEF NewsIsLast
  <2> QED BY <2>1, <2>2
<1>7. \A m : Older(m, j)' = Older(m, j)
  BY <1>2 DEF Older
<1> QED BY <1>2, <1>5, <1>6, <1>7 DEF NewsIsLast, Older

\* An event that tells the present status of a job stays on its way.
LEMMA NewsStep == TypeOK /\ NewsFollows /\ [Next]_vars => NewsFollows'
<1> SUFFICES ASSUME TypeOK, NewsFollows, [Next]_vars, NEW j \in Jobs, fate'[j] = "coming"
             PROVE  InFlight(j)' \/ NewsIsLast(j)'
  BY DEF NewsFollows
<1>1. ASSUME fate[j] = "coming", row'[j] = row[j], UNCHANGED <<writer, ring, out>>
      PROVE  InFlight(j)' \/ NewsIsLast(j)'
  <2>1. pending' = pending /\ count' = count /\ out' = out /\ News(j)' = News(j)
    BY <1>1, RingUntouched DEF ring, News
  <2>2. InFlight(j)' = InFlight(j)
    BY <1>1 DEF InFlight
  <2>3. NewsIsLast(j)' = NewsIsLast(j)
    BY <2>1 DEF NewsIsLast, Older
  <2> QED BY <1>1, <2>2, <2>3 DEF NewsFollows
<1>2. ASSUME NEW t \in Writers, NEW i \in Jobs, WriteRow(t, i)
      PROVE  InFlight(j)' \/ NewsIsLast(j)'
  <2>1. CASE i = j
    <3>1. writer'[t] = [job |-> j, version |-> row'[j]]
      BY <1>2, <2>1 DEF WriteRow, TypeOK
    <3>2. [job |-> j, version |-> row'[j]] # None
      <4>1. row'[j] \in Version
        BY <1>2, <2>1, StreamParameters DEF WriteRow, TypeOK, Version
      <4>2. [job |-> j, version |-> row'[j]] \in StatusEvent
        BY <4>1 DEF StatusEvent
      <4> QED BY <4>2, StreamParameters
    <3> QED BY <3>1, <3>2 DEF InFlight, Idle
  <2>2. CASE i # j
    <3>1. fate[j] = "coming" /\ row'[j] = row[j] /\ UNCHANGED <<ring, out>>
      BY <1>2, <2>2 DEF WriteRow, TypeOK, loop
    <3>2. InFlight(j) => InFlight(j)'
      <4>1. SUFFICES ASSUME NEW s \in Writers, writer[s] # Idle, writer[s].job = j,
                            writer[s].version = row[j]
                     PROVE  InFlight(j)'
        BY DEF InFlight
      <4>2. s # t
        BY <1>2, <4>1 DEF WriteRow
      <4>3. writer'[s] = writer[s]
        BY <1>2, <4>2 DEF WriteRow, TypeOK
      <4> QED BY <3>1, <4>1, <4>3 DEF InFlight
    <3>3. NewsIsLast(j)' = NewsIsLast(j)
      <4>1. pending' = pending /\ count' = count /\ out' = out /\ News(j)' = News(j)
        BY <3>1, RingUntouched DEF ring, News
      <4> QED BY <4>1 DEF NewsIsLast, Older
    <3> QED BY <3>1, <3>2, <3>3 DEF NewsFollows
  <2> QED BY <2>1, <2>2
<1>3. ASSUME NEW t \in Writers, NEW i \in Jobs, WriteSilently(t, i)
      PROVE  InFlight(j)' \/ NewsIsLast(j)'
  <2>1. fate[j] = "coming" /\ row'[j] = row[j]
    BY <1>3 DEF WriteSilently, TypeOK
  <2> QED BY <1>1, <1>3, <2>1 DEF WriteSilently, loop
<1>4. ASSUME NEW t \in Writers, PostStatus(t)
      PROVE  InFlight(j)' \/ NewsIsLast(j)'
  <2> DEFINE e == writer[t]
  <2>1. e \in StatusEvent /\ e \in Event
    BY <1>4, Messages DEF PostStatus, TypeOK
  <2>2. fate[j] = "coming" /\ row' = row /\ fate' = FateAfterPush(e)
    BY <1>4 DEF PostStatus, FateAfterPush
  <2>3. ASSUME NEW s \in Writers, s # t, writer[s] # Idle, writer[s].job = j,
               writer[s].version = row[j]
        PROVE  InFlight(j)'
    <3>1. writer'[s] = writer[s]
      BY <1>4, <2>3 DEF PostStatus, TypeOK
    <3> QED BY <2>2, <2>3, <3>1 DEF InFlight
  <2>4. CASE e = News(j)
    <3>1. NewsIsLast(j)'
      BY <1>4, <2>1, <2>2, <2>4, NewsAfterPush DEF PostStatus
    <3> QED BY <3>1
  <2>5. CASE e.job = j /\ e # News(j)
    <3>1. e.version # row[j]
      BY <2>1, <2>5 DEF News, StatusEvent
    <3>2. InFlight(j)
      BY <2>1, <2>2, <2>5, <3>1, Messages DEF FateAfterPush
    <3>3. PICK s \in Writers : writer[s] # Idle /\ writer[s].job = j /\ writer[s].version = row[j]
      BY <3>2 DEF InFlight
    <3> QED BY <2>3, <3>1, <3>3
  <2>6. CASE e.job # j
    <3>1. CASE InFlight(j)
      <4>1. PICK s \in Writers : writer[s] # Idle /\ writer[s].job = j /\ writer[s].version = row[j]
        BY <3>1 DEF InFlight
      <4> QED BY <2>3, <2>6, <4>1
    <3>2. CASE NewsIsLast(j)
      <4>1. NewsIsLast(j)'
        BY <1>4, <2>1, <2>2, <2>6, <3>2, NewsAfterPush DEF PostStatus
      <4> QED BY <4>1
    <3> QED BY <2>2, <3>1, <3>2 DEF NewsFollows
  <2> QED BY <2>4, <2>5, <2>6
<1>5. ASSUME NEW t \in Writers, events_push_persistent(t)
      PROVE  InFlight(j)' \/ NewsIsLast(j)'
  <2>1. fate[j] = "coming" /\ row' = row /\ fate' = FateAfterPush(Note) /\ writer' = writer
    BY <1>5 DEF events_push_persistent, FateAfterPush
  <2>2. InFlight(j)' = InFlight(j)
    BY <2>1 DEF InFlight
  <2>3. Note.job # j
    BY StreamParameters DEF Note
  <2>4. NewsIsLast(j) => NewsIsLast(j)'
    BY <1>5, <2>1, <2>3, Messages, NewsAfterPush DEF events_push_persistent
  <2> QED BY <2>1, <2>2, <2>4 DEF NewsFollows
<1>6. ASSUME Drain PROVE InFlight(j)' \/ NewsIsLast(j)'
  <2>1. /\ fate[j] = "coming" /\ row' = row /\ writer' = writer /\ out' = pending /\ count' = 0
        /\ out = <<>>
    BY <1>6 DEF Drain, events_drain, TypeOK
  <2>2. InFlight(j)' = InFlight(j) /\ News(j)' = News(j)
    BY <2>1 DEF InFlight, News
  <2>3. Len(pending) = count
    BY PendingType
  <2>4. NewsIsLast(j) => NewsIsLast(j)'
    BY <2>1, <2>2, <2>3 DEF NewsIsLast, Older
  <2> QED BY <2>1, <2>2, <2>4 DEF NewsFollows
<1>7. ASSUME NextMessage PROVE InFlight(j)' \/ NewsIsLast(j)'
  <2>1. /\ fate[j] = "coming" /\ row' = row /\ writer' = writer
        /\ out' = Tail(out) /\ out # <<>> /\ out \in Seq(Event)
    BY <1>7 DEF NextMessage, TypeOK
  <2>2. InFlight(j)' = InFlight(j) /\ News(j)' = News(j)
    BY <2>1 DEF InFlight, News
  <2>3. pending' = pending /\ count' = count
    BY <1>7, RingUntouched DEF NextMessage, ring
  <2>4. /\ Len(out) \in Nat /\ Len(out') = Len(out) - 1
        /\ \A k \in 1..Len(out') : out'[k] = out[k + 1]
    BY <2>1
  <2>5. ASSUME NewsIsLast(j), NEW k \in 1..Len(out'), Older(out'[k], j)
        PROVE  \/ \E k2 \in 1..Len(out') : k2 > k /\ out'[k2] = News(j)
               \/ \E k2 \in 1..count : pending[k2] = News(j)
    <3>1. k + 1 \in 1..Len(out) /\ Older(out[k + 1], j)
      BY <2>4, <2>5
    <3>2. CASE \E k2 \in 1..Len(out) : k2 > k + 1 /\ out[k2] = News(j)
      <4>1. PICK k2 \in 1..Len(out) : k2 > k + 1 /\ out[k2] = News(j)
        BY <3>2
      <4>2. k2 - 1 \in 1..Len(out') /\ k2 - 1 > k /\ out'[k2 - 1] = News(j)
        BY <2>4, <4>1
      <4> QED BY <4>2
    <3>3. CASE \E k2 \in 1..count : pending[k2] = News(j)
      BY <3>3
    <3> QED BY <2>5, <3>1, <3>2, <3>3 DEF NewsIsLast
  <2>6. NewsIsLast(j) => NewsIsLast(j)'
    BY <2>2, <2>3, <2>5 DEF NewsIsLast, Older
  <2> QED BY <2>1, <2>2, <2>6 DEF NewsFollows
<1>8. ASSUME sse_heartbeat PROVE InFlight(j)' \/ NewsIsLast(j)'
  <2>1. /\ fate[j] = "coming" /\ row' = row /\ writer' = writer /\ out' = <<Note>>
    BY <1>8 DEF sse_heartbeat
  <2>2. InFlight(j)' = InFlight(j) /\ News(j)' = News(j)
    BY <2>1 DEF InFlight, News
  <2>3. pending' = pending /\ count' = count
    BY <1>8, RingUntouched DEF sse_heartbeat, ring
  <2>4. \A k \in 1..Len(out') : out'[k] = Note /\ out'[k].job # j
    BY <2>1, StreamParameters DEF Note
  <2>5. NewsIsLast(j) => NewsIsLast(j)'
    BY <2>2, <2>3, <2>4 DEF NewsIsLast, Older
  <2> QED BY <2>1, <2>2, <2>5 DEF NewsFollows
<1>9. [Next]_vars => \/ \E t \in Writers, i \in Jobs : WriteRow(t, i) \/ WriteSilently(t, i)
                     \/ \E t \in Writers : PostStatus(t) \/ events_push_persistent(t)
                     \/ Drain \/ NextMessage \/ sse_heartbeat
                     \/ UNCHANGED <<fate, row, writer, ring, out>>
  BY DEF Next, vars, sse_subscribe, Close, SendTo, DropEntry, mg_mgr_poll, httpd_stop, loop, ring
<1>10. CASE UNCHANGED <<fate, row, writer, ring, out>>
  BY <1>1, <1>10
<1> QED BY <1>2, <1>3, <1>4, <1>5, <1>6, <1>7, <1>8, <1>9, <1>10

\* No step leaves a subscriber outdated without one of the reasons.
LEMMA OutdatedStep == Upkeep /\ [Next]_vars => OutdatedOnlyForAReason'
<1> SUFFICES ASSUME Upkeep, [Next]_vars, NEW c \in Cells, NEW j \in Jobs,
                    Outdated(c, j)', fate'[j] = "coming"
             PROVE  OnTheWay(c, j)'
  BY DEF OutdatedOnlyForAReason
<1>1. TypeOK /\ ListedHasEntry /\ NewsFollows
  BY DEF Upkeep
<1>2. Outdated(c, j) /\ fate[j] = "coming" => OnTheWay(c, j)
  BY DEF Upkeep, OutdatedOnlyForAReason
<1>3. Len(table) \in Nat /\ Len(out) \in Nat /\ table \in Seq(Entry) /\ out \in Seq(Event)
  BY <1>1 DEF TypeOK
<1>4. ASSUME UNCHANGED <<row, writer>>
      PROVE  InFlight(j)' = InFlight(j) /\ News(j)' = News(j)
  BY <1>4 DEF InFlight, News
<1>5. ASSUME Outdated(c, j), fate[j] = "coming", row'[j] = row[j],
             UNCHANGED <<ring, loop, table>>, conn'[c].user = conn[c].user,
             InFlight(j) => InFlight(j)'
      PROVE  OnTheWay(c, j)'
  <2>1. pending' = pending /\ count' = count
    BY <1>5, RingUntouched DEF ring
  <2> QED BY <1>2, <1>5, <2>1 DEF OnTheWay, Reaches, loop
<1>6. ASSUME NEW t \in Writers, NEW i \in Jobs, WriteRow(t, i) PROVE OnTheWay(c, j)'
  <2>1. CASE i = j
    <3>1. writer'[t] = [job |-> j, version |-> row'[j]]
      BY <1>1, <1>6, <2>1 DEF WriteRow, TypeOK
    <3>2. [job |-> j, version |-> row'[j]] # None
      <4>1. row'[j] \in Version
        BY <1>1, <1>6, <2>1, StreamParameters DEF WriteRow, TypeOK, Version
      <4>2. [job |-> j, version |-> row'[j]] \in StatusEvent
        BY <4>1 DEF StatusEvent
      <4> QED BY <4>2, StreamParameters
    <3> QED BY <3>1, <3>2 DEF OnTheWay, InFlight, Idle
  <2>2. CASE i # j
    <3>1. fate[j] = "coming" /\ row'[j] = row[j] /\ UNCHANGED <<ring, loop, table, conn>>
      BY <1>1, <1>6, <2>2 DEF WriteRow, TypeOK
    <3>2. Outdated(c, j)
      BY <3>1 DEF Outdated
    <3>3. ASSUME NEW s \in Writers, writer[s] # Idle, writer[s].job = j, writer[s].version = row[j]
          PROVE  InFlight(j)'
      <4>1. s # t
        BY <1>6, <3>3 DEF WriteRow
      <4>2. writer'[s] = writer[s]
        BY <1>1, <1>6, <4>1 DEF WriteRow, TypeOK
      <4> QED BY <3>1, <3>3, <4>2 DEF InFlight
    <3>4. InFlight(j) => InFlight(j)'
      BY <3>3 DEF InFlight
    <3> QED BY <1>5, <3>1, <3>2, <3>4
  <2> QED BY <2>1, <2>2
<1>7. ASSUME NEW t \in Writers, NEW i \in Jobs, WriteSilently(t, i) PROVE OnTheWay(c, j)'
  <2>1. fate[j] = "coming" /\ row'[j] = row[j] /\ UNCHANGED <<writer, ring, loop, table, conn>>
    BY <1>1, <1>7 DEF WriteSilently, TypeOK
  <2>2. Outdated(c, j)
    BY <2>1 DEF Outdated
  <2>3. InFlight(j) => InFlight(j)'
    BY <2>1 DEF InFlight
  <2> QED BY <1>5, <2>1, <2>2, <2>3
<1>8. ASSUME NEW e \in Event, events_push_user(e), fate' = FateAfterPush(e),
             UNCHANGED <<row, loop, conn, table>>, InFlight(j) => InFlight(j)' \/ e = News(j)
      PROVE  OnTheWay(c, j)'
  <2> DEFINE d == IF count < Size THEN 0 ELSE 1
  <2>1. /\ count \in Nat /\ count' = count + 1 - d /\ d \in 0..1
        /\ d = 1 => count = Size /\ count >= 1 /\ pending[1] = Nth(0)
        /\ pending'[count'] = e
        /\ \A k \in 1..(count' - 1) : pending'[k] = pending[k + d]
    BY <1>1, <1>8, PushShift
  <2>2. fate[j] = "coming" /\ ~(count = Size /\ Nth(0) = News(j))
    BY <1>8 DEF FateAfterPush, News
  <2>3. Outdated(c, j) /\ News(j)' = News(j) /\ out' = out /\ at' = at
    BY <1>8 DEF Outdated, News, loop
  <2> HIDE DEF d
  <2>4. CASE InFlight(j)
    <3>1. CASE e = News(j)
      <4>1. count' \in 1..count' /\ pending'[count'] = News(j)
        BY <2>1, <3>1
      <4> QED BY <2>3, <4>1 DEF OnTheWay, News
    <3> QED BY <1>8, <2>4, <3>1 DEF OnTheWay
  <2>5. CASE \E k \in 1..count : pending[k] = News(j)
    <3>1. PICK k \in 1..count : pending[k] = News(j)
      BY <2>5
    <3>2. k - d \in 1..count' /\ pending'[k - d] = News(j)
      BY <2>1, <2>2, <3>1
    <3> QED BY <2>3, <3>2 DEF OnTheWay, News
  <2>6. CASE Reaches(c, News(j))
    <3>1. Reaches(c, News(j))'
      BY <1>8, <2>3, <2>6 DEF Reaches
    <3> QED BY <3>1 DEF OnTheWay, News
  <2> QED BY <1>2, <2>2, <2>3, <2>4, <2>5, <2>6 DEF OnTheWay, News
<1>9. ASSUME NEW t \in Writers, PostStatus(t) PROVE OnTheWay(c, j)'
  <2>1. writer[t] \in StatusEvent /\ writer[t] \in Event
    BY <1>1, <1>9, Messages DEF PostStatus, TypeOK
  <2>2. InFlight(j) => InFlight(j)' \/ writer[t] = News(j)
    <3>1. SUFFICES ASSUME NEW s \in Writers, writer[s] # Idle, writer[s].job = j,
                          writer[s].version = row[j]
                   PROVE  InFlight(j)' \/ writer[t] = News(j)
      BY DEF InFlight
    <3>2. CASE s = t
      BY <2>1, <3>1, <3>2 DEF News, StatusEvent
    <3>3. CASE s # t
      <4>1. writer'[s] = writer[s] /\ row' = row
        BY <1>1, <1>9, <3>3 DEF PostStatus, TypeOK
      <4> QED BY <3>1, <4>1 DEF InFlight
    <3> QED BY <3>2, <3>3
  <2> QED BY <1>8, <1>9, <2>1, <2>2 DEF PostStatus
<1>10. ASSUME NEW t \in Writers, events_push_persistent(t) PROVE OnTheWay(c, j)'
  <2>1. InFlight(j)' = InFlight(j)
    BY <1>4, <1>10 DEF events_push_persistent
  <2> QED BY <1>8, <1>10, <2>1, Messages DEF events_push_persistent
<1>11. ASSUME NEW b \in Cells, NEW u \in Users, sse_subscribe(b, u) PROVE OnTheWay(c, j)'
  <2>1. UNCHANGED <<row, writer, ring, loop, fate>> /\ pc = "poll"
    BY <1>11 DEF sse_subscribe
  <2>2. c # b
    <3>1. conn'[c].seen[j] \notin {Unknown, row[j]}
      BY <2>1 DEF Outdated
    <3> QED BY <1>1, <1>11, <3>1, Subscribed
  <2>3. conn'[c] = conn[c]
    BY <1>1, <1>11, <2>2, Subscribed
  <2>4. Outdated(c, j) /\ fate[j] = "coming"
    BY <2>1, <2>3 DEF Outdated
  <2>5. InFlight(j)' = InFlight(j)
    BY <1>4, <2>1
  <2>6. pending' = pending /\ count' = count /\ row' = row
    BY <2>1, RingUntouched DEF ring
  <2>7. out = <<>>
    BY <1>1, <2>1 DEF TypeOK
  <2>8. ~Reaches(c, [job |-> j, version |-> row[j]])
    BY <2>7 DEF Reaches
  <2> QED BY <1>2, <2>4, <2>5, <2>6, <2>8 DEF OnTheWay
<1>12. ASSUME NEW b \in Cells, Close(b) PROVE OnTheWay(c, j)'
  <2>1. conn'[c] = conn[c]
    BY <1>1, <1>12 DEF Close, TypeOK, Outdated
  <2>2. Outdated(c, j) /\ fate[j] = "coming"
    BY <1>12, <2>1 DEF Outdated, Close
  <2>3. InFlight(j)' = InFlight(j)
    BY <1>4, <1>12 DEF Close
  <2> QED BY <1>5, <1>12, <2>1, <2>2, <2>3 DEF Close
<1>13. ASSUME Drain PROVE OnTheWay(c, j)'
  <2>1. /\ UNCHANGED <<row, writer, conn, table, fate>>
        /\ out' = pending /\ out = <<>> /\ at' = 1
    BY <1>1, <1>13 DEF Drain, events_drain, TypeOK
  <2>2. Outdated(c, j) /\ fate[j] = "coming" /\ News(j)' = News(j)
    BY <2>1 DEF Outdated, News
  <2>3. CASE InFlight(j)
    BY <1>4, <2>1, <2>3 DEF OnTheWay
  <2>4. CASE \E k \in 1..count : pending[k] = News(j)
    <3>1. PICK k \in 1..count : pending[k] = News(j)
      BY <2>4
    <3>2. k \in 1..Len(out') /\ out'[k] = News(j)
      BY <1>1, <2>1, <3>1, PendingType
    <3>3. PICK n \in 1..Len(table) : table[n] = [cell |-> c, user |-> conn[c].user]
      BY <1>1, <2>2 DEF ListedHasEntry, Outdated
    <3>4. Reaches(c, News(j))'
      BY <2>1, <2>2, <3>2, <3>3 DEF Reaches
    <3> QED BY <3>4 DEF OnTheWay, News
  <2>5. ~Reaches(c, News(j))
    BY <2>1 DEF Reaches
  <2> QED BY <1>2, <2>2, <2>3, <2>4, <2>5 DEF OnTheWay, News
<1>14. ASSUME SendTo PROVE OnTheWay(c, j)'
  <2> DEFINE b == table[at].cell
             u == table[at].user
             m == Head(out)
  <2>1. UNCHANGED <<row, writer, ring, out, table, fate>> /\ at' = at + 1
    BY <1>14 DEF SendTo
  <2>2. at \in 1..Len(table) /\ out # <<>> /\ m = out[1] /\ m \in Event /\ 1 \in 1..Len(out)
    BY <1>1, <1>3, <1>14 DEF SendTo, Sweeping, TypeOK
  <2>3. InFlight(j)' = InFlight(j) /\ News(j)' = News(j) /\ pending' = pending /\ count' = count
    BY <1>4, <2>1, RingUntouched DEF ring
  <2>4. b \in Cells
    <3>1. table[at] \in Entry
      BY <1>3, <2>2, ElementOfSeq
    <3> QED BY <3>1 DEF Entry
  <2>5. CASE c = b /\ IsStatus(m) /\ MaySee(u, m.job) /\ conn[c] # Free
    <3>1. conn' = [conn EXCEPT ![c].seen[m.job] = m.version]
      BY <1>14, <2>5 DEF SendTo
    <3>2. conn[c] \in Connection /\ m.job \in Jobs /\ m \in StatusEvent
      BY <1>1, <2>2, <2>5, Messages DEF TypeOK
    <3>3. /\ conn'[c].user = conn[c].user /\ conn'[c].listed = conn[c].listed
          /\ conn'[c].seen = [conn[c].seen EXCEPT ![m.job] = m.version]
      BY <1>1, <3>1, <3>2 DEF TypeOK, Connection
    <3>4. CASE m.job = j
      <4>1. conn'[c].seen[j] = m.version
        BY <3>2, <3>3, <3>4 DEF Connection
      <4>2. m.version # row[j]
        BY <2>1, <4>1 DEF Outdated
      <4>3. Older(m, j)
        BY <3>4, <4>2 DEF Older, News
      <4>4. CASE InFlight(j)
        BY <2>3, <4>4 DEF OnTheWay
      <4>5. CASE NewsIsLast(j)
        <5>1. CASE \E k2 \in 1..Len(out) : k2 > 1 /\ out[k2] = News(j)
          <6>1. PICK k2 \in 1..Len(out) : k2 > 1 /\ out[k2] = News(j)
            BY <5>1
          <6>2. conn[c].listed
            BY <3>3 DEF Outdated
          <6>3. PICK n \in 1..Len(table) : table[n] = [cell |-> c, user |-> conn[c].user]
            BY <1>1, <2>5, <6>2 DEF ListedHasEntry
          <6>4. Reaches(c, News(j))'
            BY <2>1, <2>3, <3>3, <6>1, <6>3 DEF Reaches
          <6> QED BY <6>4 DEF OnTheWay, News
        <5>2. CASE \E k2 \in 1..count : pending[k2] = News(j)
          BY <2>3, <5>2 DEF OnTheWay, News
        <5> QED BY <2>2, <4>3, <4>5, <5>1, <5>2 DEF NewsIsLast
      <4> QED BY <1>1, <2>1, <4>4, <4>5 DEF NewsFollows
    <3>5. CASE m.job # j
      <4>1. conn'[c].seen[j] = conn[c].seen[j]
        BY <3>2, <3>3, <3>5 DEF Connection
      <4>2. Outdated(c, j) /\ fate[j] = "coming"
        BY <2>1, <2>5, <3>3, <4>1 DEF Outdated
      <4>3. m # News(j)
        BY <3>5 DEF News
      <4>4. Reaches(c, News(j)) => Reaches(c, News(j))'
        BY <1>3, <2>1, <2>2, <2>3, <3>3, <4>3 DEF Reaches
      <4> QED BY <1>2, <2>3, <4>2, <4>4 DEF OnTheWay, News
    <3> QED BY <3>4, <3>5
  <2>6. CASE ~(c = b /\ IsStatus(m) /\ MaySee(u, m.job) /\ conn[c] # Free)
    <3>1. conn'[c] = conn[c]
      <4>1. CASE conn' = conn
        BY <4>1
      <4>2. CASE conn' # conn
        <5>1. /\ conn[b] # Free /\ IsStatus(m) /\ MaySee(u, m.job)
              /\ conn' = [conn EXCEPT ![b].seen[m.job] = m.version]
          BY <1>14, <4>2 DEF SendTo
        <5>2. c # b
          BY <2>6, <5>1
        <5> QED BY <1>1, <5>1, <5>2 DEF TypeOK
      <4> QED BY <4>1, <4>2
    <3>2. Outdated(c, j) /\ fate[j] = "coming"
      BY <2>1, <3>1 DEF Outdated
    <3>3. m = News(j) => table[at] # [cell |-> c, user |-> conn[c].user]
      <4>1. SUFFICES ASSUME m = News(j), table[at] = [cell |-> c, user |-> conn[c].user]
                     PROVE  FALSE
        OBVIOUS
      <4>2. b = c /\ u = conn[c].user
        BY <4>1
      <4>3. m.job = j /\ IsStatus(m)
        BY <4>1, StreamParameters DEF News, IsStatus
      <4> QED BY <2>6, <3>2, <4>2, <4>3 DEF Outdated
    <3>4. Reaches(c, News(j)) => Reaches(c, News(j))'
      BY <1>3, <2>1, <2>2, <2>3, <3>1, <3>3 DEF Reaches
    <3> QED BY <1>2, <2>3, <3>2, <3>4 DEF OnTheWay, News
  <2> QED BY <2>5, <2>6
<1>15. ASSUME DropEntry PROVE OnTheWay(c, j)'
  <2>1. UNCHANGED <<row, writer, ring, loop, conn, fate>>
    BY <1>15 DEF DropEntry
  <2>2. Outdated(c, j) /\ fate[j] = "coming"
    BY <2>1 DEF Outdated
  <2>3. InFlight(j)' = InFlight(j) /\ News(j)' = News(j) /\ pending' = pending /\ count' = count
    BY <1>4, <2>1, RingUntouched DEF ring
  <2>4. /\ at \in 1..Len(table) /\ conn[table[at].cell] = Free
        /\ Len(table') = Len(table) - 1
        /\ \A i \in 1..(Len(table) - 1) :
             table'[i] = IF i = at THEN table[Len(table)] ELSE table[i]
    BY <1>1, <1>15, Dropped
  <2>5. ASSUME Reaches(c, News(j)) PROVE Reaches(c, News(j))'
    <3>1. PICK k \in 1..Len(out), n \in 1..Len(table) :
            /\ out[k] = News(j) /\ (k = 1 => n >= at)
            /\ table[n] = [cell |-> c, user |-> conn[c].user]
      BY <2>5 DEF Reaches
    <3>2. n # at
      BY <2>2, <2>4, <3>1 DEF Outdated
    <3>3. CASE n = Len(table)
      <4>1. at \in 1..Len(table') /\ table'[at] = table[n]
        BY <1>3, <2>4, <3>2, <3>3
      <4> QED BY <2>1, <2>3, <2>4, <3>1, <4>1 DEF Reaches, loop
    <3>4. CASE n # Len(table)
      <4>1. n \in 1..Len(table') /\ table'[n] = table[n]
        BY <1>3, <2>4, <3>2, <3>4
      <4> QED BY <2>1, <2>3, <3>1, <4>1 DEF Reaches, loop
    <3> QED BY <3>3, <3>4
  <2> QED BY <1>2, <2>2, <2>3, <2>5 DEF OnTheWay, News
<1>16. ASSUME NextMessage PROVE OnTheWay(c, j)'
  <2>1. /\ UNCHANGED <<row, writer, ring, conn, table, fate>>
        /\ out # <<>> /\ out' = Tail(out) /\ at > Len(table) /\ at' = 1
    BY <1>16 DEF NextMessage
  <2>2. Outdated(c, j) /\ fate[j] = "coming"
    BY <2>1 DEF Outdated
  <2>3. InFlight(j)' = InFlight(j) /\ News(j)' = News(j) /\ pending' = pending /\ count' = count
    BY <1>4, <2>1, RingUntouched DEF ring
  <2>4. Len(out') = Len(out) - 1 /\ \A k \in 1..Len(out') : out'[k] = out[k + 1]
    BY <1>3, <2>1
  <2>5. ASSUME Reaches(c, News(j)) PROVE Reaches(c, News(j))'
    <3>1. PICK k \in 1..Len(out), n \in 1..Len(table) :
            /\ out[k] = News(j) /\ (k = 1 => n >= at)
            /\ table[n] = [cell |-> c, user |-> conn[c].user]
      BY <2>5 DEF Reaches
    <3>2. k - 1 \in 1..Len(out') /\ out'[k - 1] = News(j)
      BY <1>1, <1>3, <2>1, <2>4, <3>1 DEF TypeOK
    <3>3. n >= at'
      BY <1>3, <2>1
    <3> QED BY <2>1, <2>3, <3>1, <3>2, <3>3 DEF Reaches
  <2> QED BY <1>2, <2>2, <2>3, <2>5 DEF OnTheWay, News
<1>17. ASSUME sse_heartbeat \/ mg_mgr_poll PROVE OnTheWay(c, j)'
  <2>1. UNCHANGED <<row, writer, ring, conn, table, fate>> /\ out = <<>>
    BY <1>17 DEF sse_heartbeat, mg_mgr_poll
  <2>2. Outdated(c, j) /\ fate[j] = "coming" /\ ~Reaches(c, News(j))
    BY <2>1 DEF Outdated, Reaches
  <2>3. InFlight(j)' = InFlight(j) /\ News(j)' = News(j) /\ pending' = pending /\ count' = count
    BY <1>4, <2>1, RingUntouched DEF ring
  <2> QED BY <1>2, <2>2, <2>3 DEF OnTheWay, News
<1>18. ASSUME httpd_stop PROVE FALSE
  BY <1>18 DEF httpd_stop, Outdated
<1>19. CASE UNCHANGED vars
  <2>1. Outdated(c, j) /\ fate[j] = "coming" /\ (InFlight(j) => InFlight(j)')
    BY <1>19 DEF vars, Outdated, InFlight
  <2> QED BY <1>5, <1>19, <2>1 DEF vars, ring, loop
<1> QED
  BY <1>6, <1>7, <1>9, <1>10, <1>11, <1>12, <1>13, <1>14, <1>15, <1>16, <1>17, <1>18, <1>19
  DEF Next

(***************************************************************************)
(* For any number of threads, jobs, connections and ring slots: a client   *)
(* in the table of subscribers is behind only while the news is on its way *)
(* to it, or when the code sends none (job.c:143-161, events.c:40-69,      *)
(* httpd.c:30-55, routes.c:2642-2645).                                     *)
(***************************************************************************)
THEOREM SubscribersKeepUp == Spec => []OutdatedOnlyForAReason
<1>1. Init => Upkeep
  <2> SUFFICES ASSUME Init PROVE Upkeep OBVIOUS
  <2>1. TypeOK
    BY InitType
  <2>2. ListedHasEntry
    BY DEF Init, ListedHasEntry
  <2>3. NewsFollows
    BY DEF Init, NewsFollows
  <2>4. OutdatedOnlyForAReason
    BY DEF Init, OutdatedOnlyForAReason
  <2> QED BY <2>1, <2>2, <2>3, <2>4 DEF Upkeep
<1>2. Upkeep /\ [Next]_vars => Upkeep'
  BY StepType, ListedStep, NewsStep, OutdatedStep DEF Upkeep
<1>3. Upkeep => OutdatedOnlyForAReason
  BY DEF Upkeep
<1> QED BY <1>1, <1>2, <1>3, PTL DEF Spec
=============================================================================
