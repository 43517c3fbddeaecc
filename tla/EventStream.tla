----------------------------- MODULE EventStream -----------------------------
(***************************************************************************)
(* Live job states for the clients of GET /jobs/events.  A thread that     *)
(* changes a job's status writes the row and then posts an event to a ring *)
(* (core/job.c, http/events.c).  The HTTP thread alternates between        *)
(* polling its connections, where it serves requests, and sending what it  *)
(* drained from the ring to the table of subscribers (http/httpd.c).       *)
(*                                                                         *)
(* A status is the number of the write that produced it.  A subscriber is  *)
(* entered in the table as the address of its connection; the poll frees a *)
(* closed connection, so an entry may outlive it and its memory may come   *)
(* to hold a later connection.                                             *)
(***************************************************************************)
EXTENDS Integers, Sequences, SequencesExt, FiniteSets

CONSTANTS
  Jobs, Users,
  Owner,        \* owner of each job
  Admins,       \* users whose role is "admin"
  Writers,      \* scheduler, watchers and the HTTP thread
  Http,         \* the HTTP thread
  None,         \* nobody, nothing
  Cells,        \* memory a connection can occupy
  Size,         \* EVENTS_BUF_SIZE
  MaxConns,     \* SSE_MAX_CONNS
  SnapshotMax,  \* jobs in a snapshot: 256 in sse_subscribe
  MaxWrites     \* bound on the status writes of a job

VARIABLES
  row,     \* status of each job in the database
  writer,  \* what each thread has written and not yet posted
  buf, head, tail, count,  \* the ring: s_buf, s_head, s_tail, s_count
  pc,      \* HTTP thread: "poll", "send", "stopped"
  out,     \* drained messages still to be sent, the current one first
  at,      \* entry of the table the current message goes to next
  conn,    \* connection in each cell
  table,   \* s_sse, s_sse_count
  fate     \* history: what became of the event about each row's status

ring == <<buf, head, tail, count>>
loop == <<pc, out, at>>
vars == <<row, writer, buf, head, tail, count, pc, out, at, conn, table, fate>>

-----------------------------------------------------------------------------
Version == 0..MaxWrites

\* An event about a status, and what tells nobody of a status: "dispatch",
\* "provision", "drain_enabled" ... of events_push_persistent, and keepalives.
StatusEvent == [job : Jobs, version : Version]
Note == [job |-> None, version |-> 0]
Event == StatusEvent \cup {Note}

Idle == None
Free == None
Unknown == -1

IsStatus(m) == m.job # None

\* A connection remembers what its client was told of each job.
Connection == [user : Users, listed : BOOLEAN, seen : [Jobs -> Version \cup {Unknown}]]
Entry == [cell : Cells, user : Users]

ASSUME StreamParameters ==
  /\ Owner \in [Jobs -> Users]
  /\ Admins \subseteq Users
  /\ Http \in Writers
  /\ None \notin Jobs \cup StatusEvent \cup Connection
  /\ Size \in Nat \ {0} /\ MaxConns \in Nat \ {0}
  /\ SnapshotMax \in Nat /\ MaxWrites \in Nat

\* The test of sse_broadcast and of sse_subscribe on role and owner.
MaySee(u, j) == u \in Admins \/ Owner[j] = u

Init ==
  /\ row = [j \in Jobs |-> 0]
  /\ writer = [t \in Writers |-> Idle]
  /\ buf \in [0..(Size - 1) -> {Note}]
  /\ head = 0 /\ tail = 0 /\ count = 0
  /\ pc = "poll" /\ out = <<>> /\ at = 1
  /\ conn = [c \in Cells |-> Free]
  /\ table = <<>>
  /\ fate = [j \in Jobs |-> "silent"]

-----------------------------------------------------------------------------
(* The ring. *)

\* (i + 1) % EVENTS_BUF_SIZE for an index of the ring.
Following(i) == IF i + 1 = Size THEN 0 ELSE i + 1

\* The event k places after the oldest one.
Nth(k) == buf[IF tail + k < Size THEN tail + k ELSE tail + k - Size]

pending == [k \in 1..count |-> Nth(k - 1)]

\* Fault: a full ring does not give up its oldest slot.
events_push_user_KeepsTail(e) ==
  /\ buf' = [buf EXCEPT ![head] = e]
  /\ head' = Following(head)
  /\ count' = IF count < Size THEN count + 1 ELSE count
  /\ UNCHANGED tail

events_push_user(e) ==
  /\ buf' = [buf EXCEPT ![head] = e]
  /\ head' = Following(head)
  /\ IF count < Size THEN count' = count + 1 /\ UNCHANGED tail
                     ELSE tail' = Following(tail) /\ UNCHANGED count

\* Fault: the events are copied out newest first.
events_drain_NewestFirst ==
  /\ out' = Reverse(pending)
  /\ tail' = head
  /\ count' = 0
  /\ UNCHANGED <<buf, head>>

\* The loop of events_drain takes all: its max is the size of the ring.
events_drain ==
  /\ out' = pending
  /\ tail' = LET i == tail + count IN IF i < Size THEN i ELSE i - Size
  /\ count' = 0
  /\ UNCHANGED <<buf, head>>

-----------------------------------------------------------------------------
(* The threads that change a status, or report something else. *)

\* The HTTP thread does so while it serves a request.
Runs(t) == t = Http => pc = "poll"

InFlight(j) == \E t \in Writers : writer[t] # Idle /\ writer[t].job = j
                                  /\ writer[t].version = row[j]

\* History: the event a push of e overwrites, if it was the news about a
\* row, is lost; e is late when the row's own event went before it.
FateAfterPush(e) ==
  [j \in Jobs |->
     IF fate[j] # "coming" THEN fate[j]
     ELSE IF count = Size /\ Nth(0) = [job |-> j, version |-> row[j]] THEN "overwritten"
     ELSE IF IsStatus(e) /\ e.job = j /\ e.version # row[j] /\ ~InFlight(j) THEN "overtaken"
     ELSE "coming"]

\* job_set_status_r: the row first, and nothing is held until the event.
WriteRow(t, j) ==
  /\ writer[t] = Idle
  /\ Runs(t)
  /\ row[j] < MaxWrites
  /\ row' = [row EXCEPT ![j] = @ + 1]
  /\ writer' = [writer EXCEPT ![t] = [job |-> j, version |-> row'[j]]]
  /\ fate' = [fate EXCEPT ![j] = "coming"]
  /\ UNCHANGED <<ring, loop, conn, table>>

PostStatus(t) ==
  /\ writer[t] # Idle
  /\ events_push_user(writer[t])
  /\ fate' = FateAfterPush(writer[t])
  /\ writer' = [writer EXCEPT ![t] = Idle]
  /\ UNCHANGED <<row, loop, conn, table>>

\* A status written with db_update_job_status or db_retry_job alone.
WriteSilently(t, j) ==
  /\ writer[t] = Idle
  /\ Runs(t)
  /\ row[j] < MaxWrites
  /\ row' = [row EXCEPT ![j] = @ + 1]
  /\ fate' = [fate EXCEPT ![j] = "silent"]
  /\ UNCHANGED <<writer, ring, loop, conn, table>>

events_push_persistent(t) ==
  /\ writer[t] = Idle
  /\ Runs(t)
  /\ events_push_user(Note)
  /\ fate' = FateAfterPush(Note)
  /\ UNCHANGED <<row, writer, loop, conn, table>>

-----------------------------------------------------------------------------
(* The HTTP thread: the poll. *)

\* Mongoose frees the connection in the poll that notices the end; the
\* application does not handle MG_EV_CLOSE and keeps its entries.
Close(c) ==
  /\ pc = "poll"
  /\ conn[c] # Free
  /\ conn' = [conn EXCEPT ![c] = Free]
  /\ UNCHANGED <<row, writer, ring, loop, table, fate>>

\* httpd_sse_add_user: a full table takes nobody, and nobody is told.
httpd_sse_add_user(c, u) ==
  table' = IF Len(table) < MaxConns THEN Append(table, [cell |-> c, user |-> u]) ELSE table

\* The jobs db_list_jobs returns, the newest ones.
Listing == {S \in SUBSET Jobs :
              Cardinality(S) = IF Cardinality(Jobs) < SnapshotMax THEN Cardinality(Jobs)
                                                                  ELSE SnapshotMax}

\* A client's connection and its request: the entry first, then the snapshot.
sse_subscribe(c, u) ==
  /\ pc = "poll"
  /\ writer[Http] = Idle
  /\ conn[c] = Free
  /\ httpd_sse_add_user(c, u)
  /\ \E S \in Listing :
       conn' = [conn EXCEPT ![c] =
         [user |-> u, listed |-> Len(table) < MaxConns,
          seen |-> [j \in Jobs |-> IF j \in S /\ MaySee(u, j) THEN row[j] ELSE Unknown]]]
  /\ UNCHANGED <<row, writer, ring, loop, fate>>

-----------------------------------------------------------------------------
(* The HTTP thread: draining and sending. *)

\* Fault: the thread waits until a full ring is worth the sweep.
Drain_WhenFull ==
  /\ pc = "poll"
  /\ writer[Http] = Idle
  /\ count = Size
  /\ events_drain
  /\ pc' = "send"
  /\ at' = 1
  /\ UNCHANGED <<row, writer, conn, table, fate>>

Drain ==
  /\ pc = "poll"
  /\ writer[Http] = Idle
  /\ events_drain
  /\ pc' = "send"
  /\ at' = 1
  /\ UNCHANGED <<row, writer, conn, table, fate>>

\* The loop of sse_broadcast and sse_heartbeat over the table.
Sweeping == pc \in {"send", "heartbeat"} /\ out # <<>> /\ at <= Len(table)

\* mg_printf to an entry.  For memory no connection lives in, the data goes
\* nowhere: what the freed block holds is not known.
SendTo ==
  /\ Sweeping
  /\ LET e == table[at]
         m == Head(out)
     IN conn' = IF conn[e.cell] # Free /\ IsStatus(m) /\ MaySee(e.user, m.job)
                  THEN [conn EXCEPT ![e.cell].seen[m.job] = m.version]
                  ELSE conn
  /\ at' = at + 1
  /\ UNCHANGED <<row, writer, ring, pc, out, table, fate>>

\* s_sse[i] = s_sse[--s_sse_count]
Without(s, i) == Front([s EXCEPT ![i] = Last(s)])

\* Fault: the entry moved into the gap is passed over.
DropEntry_SkipsMoved ==
  /\ Sweeping
  /\ conn[table[at].cell] = Free
  /\ table' = Without(table, at)
  /\ at' = at + 1
  /\ UNCHANGED <<row, writer, ring, pc, out, conn, fate>>

\* The freed block reads as a closing connection.
DropEntry ==
  /\ Sweeping
  /\ conn[table[at].cell] = Free
  /\ table' = Without(table, at)
  /\ UNCHANGED <<row, writer, ring, loop, conn, fate>>

NextMessage ==
  /\ out # <<>> /\ at > Len(table)
  /\ out' = Tail(out)
  /\ at' = 1
  /\ UNCHANGED <<row, writer, ring, pc, conn, table, fate>>

\* sse_heartbeat, when 15 seconds have passed.
sse_heartbeat ==
  /\ pc = "send" /\ out = <<>>
  /\ out' = <<Note>>
  /\ pc' = "heartbeat"
  /\ UNCHANGED <<row, writer, ring, at, conn, table, fate>>

mg_mgr_poll ==
  /\ pc \in {"send", "heartbeat"} /\ out = <<>>
  /\ pc' = "poll"
  /\ UNCHANGED <<row, writer, ring, out, at, conn, table, fate>>

\* httpd_stop: the other threads may still post.
httpd_stop ==
  /\ pc \in {"send", "heartbeat"} /\ out = <<>>
  /\ pc' = "stopped"
  /\ conn' = [c \in Cells |-> Free]
  /\ table' = <<>>
  /\ UNCHANGED <<row, writer, ring, out, at, fate>>

-----------------------------------------------------------------------------
Next ==
  \/ \E t \in Writers, j \in Jobs : WriteRow(t, j) \/ WriteSilently(t, j)
  \/ \E t \in Writers : PostStatus(t) \/ events_push_persistent(t)
  \/ \E c \in Cells, u \in Users : sse_subscribe(c, u)
  \/ \E c \in Cells : Close(c)
  \/ Drain \/ SendTo \/ DropEntry \/ NextMessage
  \/ sse_heartbeat \/ mg_mgr_poll \/ httpd_stop

Spec == Init /\ [][Next]_vars

\* A thread that wrote a row goes on to the event; the HTTP thread never
\* stops between two statements, and its poll returns after 100 ms.
Fairness ==
  /\ \A t \in Writers : WF_vars(PostStatus(t))
  /\ WF_vars(Drain) /\ WF_vars(SendTo \/ DropEntry) /\ WF_vars(NextMessage)
  /\ WF_vars(mg_mgr_poll \/ httpd_stop)

FairSpec == Spec /\ Fairness

-----------------------------------------------------------------------------
\* The types, and the ring's counters fitting together (events.c:49-54,64-66).
TypeOK ==
  /\ row \in [Jobs -> Version]
  /\ writer \in [Writers -> StatusEvent \cup {Idle}]
  /\ buf \in [0..(Size - 1) -> Event]
  /\ head \in 0..(Size - 1) /\ tail \in 0..(Size - 1) /\ count \in 0..Size
  /\ head = IF tail + count < Size THEN tail + count ELSE tail + count - Size
  /\ pc \in {"poll", "send", "heartbeat", "stopped"}
  /\ out \in Seq(Event)
  /\ pc \in {"poll", "stopped"} => out = <<>>
  /\ pc = "heartbeat" => out \in {<<>>, <<Note>>}
  /\ at \in 1..(MaxConns + 1)
  /\ conn \in [Cells -> Connection \cup {Free}]
  /\ table \in Seq(Entry) /\ Len(table) <= MaxConns
  /\ fate \in [Jobs -> {"coming", "silent", "overwritten", "overtaken"}]

\* The ring implements the channel: nothing is reordered or handed out twice,
\* and only the oldest event of a full ring is lost (events.c:40-69).
Channel == INSTANCE EventChannel
             WITH batch <- IF pc = "heartbeat" THEN <<>> ELSE out
ImplementsChannel == Channel!Spec

\* Message m, sent now, or already on its way, will reach the client in cell c.
Reaches(c, m) ==
  \E k \in 1..Len(out), n \in 1..Len(table) :
    /\ out[k] = m
    /\ k = 1 => n >= at
    /\ table[n] = [cell |-> c, user |-> conn[c].user]

OnTheWay(c, j) ==
  LET m == [job |-> j, version |-> row[j]]
  IN InFlight(j) \/ (\E k \in 1..count : pending[k] = m) \/ Reaches(c, m)

Outdated(c, j) ==
  /\ conn[c] # Free /\ conn[c].listed
  /\ MaySee(conn[c].user, j)
  /\ conn[c].seen[j] \notin {Unknown, row[j]}

(***************************************************************************)
(* A subscriber in the table is shown an old status only while the news is *)
(* on its way, or when there is none: the status was written without an    *)
(* event (scheduler.c:123, routes.c:2311), the ring overflowed             *)
(* (events.c:53), or two threads changed the job and their events went out *)
(* in the other order (job.c:143-161).  In particular the order of entry   *)
(* and snapshot (routes.c:2642-2645) leaves no gap, and removing entries   *)
(* while sending (httpd.c:45-46) passes over nobody.                       *)
(***************************************************************************)
OutdatedOnlyForAReason ==
  \A c \in Cells, j \in Jobs :
    Outdated(c, j) /\ fate[j] = "coming" => OnTheWay(c, j)

(***************************************************************************)
(* News that is not lost arrives: as long as the HTTP thread runs, a       *)
(* subscriber does not stay behind for ever (httpd.c:101-111).             *)
(***************************************************************************)
NewsArrives ==
  \A c \in Cells, j \in Jobs :
    Outdated(c, j) /\ fate[j] = "coming" ~> ~(Outdated(c, j) /\ fate[j] = "coming")
=============================================================================
