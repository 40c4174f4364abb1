--------------------------- MODULE BrowserSocket ---------------------------
(***************************************************************************)
(* The browser's relay socket, crates/link-endpoint/src/relay_socket/web.rs *)
(* with its receive queue (inbound.rs) and the shutdown count              *)
(* (relay_socket.rs), under the relay driver task that opens one socket    *)
(* after another until it is stopped (spawn_driver in relay_client.rs).    *)
(* The page is one event loop: an event handler, a poll of the driver and  *)
(* a spawned task each run to their end before another does.               *)
(***************************************************************************)
EXTENDS Naturals, Sequences, FiniteSetsExt

CONSTANTS
  InboundBound, \* INBOUND_BOUND
  InboundBytes, \* INBOUND_BYTES
  MaxMessage,   \* MAX_MESSAGE_BYTES
  MaxSockets,   \* sockets the driver opens in a behaviour
  MaxMessages   \* messages the relay sends in a behaviour

ASSUME SocketBounds ==
  /\ {InboundBound, MaxMessage, MaxSockets} \subseteq Nat \ {0} /\ MaxMessages \in Nat
  /\ InboundBytes \in Nat /\ InboundBytes >= MaxMessage

VARIABLES
  ws,       \* readyState of every WebSocket, "none" before it is made
  guards,   \* sockets counted by SocketShutdown
  cur,      \* the socket the driver holds, 0 for none
  task,     \* where the driver task is
  woken,    \* the driver's task is scheduled
  shared,   \* Shared of the socket held: open, ended, queue
  arrived,  \* messages taken into the queue, oldest first
  read,     \* messages the driver read
  stopping  \* the driver was told to stop

pageVars == <<ws, guards, cur, task, woken, shared, arrived, read, stopping>>

Ids == 1..MaxSockets
Fresh == [open |-> FALSE, ended |-> FALSE, queue |-> <<>>]
IsControl(m) == m.kind = "control"

\* InboundQueue::bytes, which push and pop keep.
Length(queue) ==
  LET sum[i \in 0..Len(queue)] == IF i = 0 THEN 0 ELSE sum[i - 1] + queue[i].len
  IN sum[Len(queue)]

PageInit ==
  /\ ws = [i \in Ids |-> "none"] /\ guards = {} /\ cur = 0
  /\ task = "between" /\ woken = TRUE /\ shared = Fresh
  /\ arrived = <<>> /\ read = <<>> /\ stopping = FALSE

(***************************************************************************)
(* InboundQueue::push: drop the oldest datagrams, one after another, until *)
(* the message fits; refuse it when only control frames are left.          *)
(***************************************************************************)
Fits(queue, m) == Len(queue) < InboundBound /\ Length(queue) + m.len <= InboundBytes

Datagrams(queue) == {i \in DOMAIN queue : ~IsControl(queue[i])}

Rank(S, i) == Cardinality({j \in S : j <= i})

\* The positions left of `queue` without its k oldest datagrams, and what is there.
Remaining(queue, k) ==
  DOMAIN queue \ {i \in Datagrams(queue) : Rank(Datagrams(queue), i) <= k}

WithoutOldest(queue, k) ==
  LET left == Remaining(queue, k)
  IN [i \in 1..Cardinality(left) |-> queue[CHOOSE j \in left : Rank(left, j) = i]]

Push_DropsFront(queue, m) ==
  LET fitting == {k \in 0..Len(queue) : Fits(SubSeq(queue, k + 1, Len(queue)), m)}
  IN [taken |-> TRUE, queue |-> Append(SubSeq(queue, Min(fitting) + 1, Len(queue)), m)]

Push(queue, m) ==
  LET most == Cardinality(Datagrams(queue))
      fitting == {k \in 0..most : Fits(WithoutOldest(queue, k), m)}
  IN IF fitting = {} THEN [taken |-> FALSE, queue |-> WithoutOldest(queue, most)]
     ELSE [taken |-> TRUE, queue |-> Append(WithoutOldest(queue, Min(fitting)), m)]

(***************************************************************************)
(* The driver: open a socket, wait for it, read it; Drop on the way out.   *)
(***************************************************************************)
Open ==
  /\ task = "between" /\ ~stopping
  /\ \E i \in Ids :
       /\ ws[i] = "none" /\ \A j \in Ids : j < i => ws[j] # "none"
       /\ ws' = [ws EXCEPT ![i] = "connecting"]
       /\ guards' = guards \cup {i} /\ cur' = i
  /\ task' = "opening" /\ woken' = TRUE
  /\ shared' = Fresh /\ arrived' = <<>> /\ read' = <<>>
  /\ UNCHANGED stopping

\* The guard goes with the socket: the count falls before CLOSED.
Release_Unguarded ==
  /\ ws' = IF ws[cur] = "closed" THEN ws ELSE [ws EXCEPT ![cur] = "closing"]
  /\ cur' = 0 /\ guards' = guards \ {cur}

\* The socket is let go without ws.close().
Release_Lingers == cur' = 0 /\ UNCHANGED <<ws, guards>>

\* Drop for RelaySocket: only a request to close; the spawned task keeps the
\* guard until the socket is CLOSED.
Release ==
  /\ ws' = IF ws[cur] = "closed" THEN ws ELSE [ws EXCEPT ![cur] = "closing"]
  /\ cur' = 0
  /\ UNCHANGED guards

Leaves ==
  /\ Release
  /\ task' = "between" /\ woken' = TRUE
  /\ UNCHANGED <<shared, arrived, read, stopping>>

PollOpen ==
  /\ task = "opening" /\ woken
  /\ IF shared.open
     THEN task' = "reading" /\ UNCHANGED <<ws, guards, cur, woken, shared, arrived, read, stopping>>
     ELSE IF shared.ended THEN Leaves
     ELSE woken' = FALSE /\ UNCHANGED <<ws, guards, cur, task, shared, arrived, read, stopping>>

\* `next` inside the pump: a message first, then the end of the socket.
PollNext ==
  /\ task = "reading" /\ woken
  /\ IF shared.queue # <<>>
     THEN /\ read' = Append(read, Head(shared.queue))
          /\ shared' = [shared EXCEPT !.queue = Tail(@)]
          /\ UNCHANGED <<ws, guards, cur, task, woken, arrived, stopping>>
     ELSE IF shared.ended THEN Leaves
     ELSE woken' = FALSE /\ UNCHANGED <<ws, guards, cur, task, shared, arrived, read, stopping>>

\* CONNECT_TIMEOUT, or the pump ends the session for what it read.
GivesUp == task \in {"opening", "reading"} /\ Leaves

\* The stop branch of spawn_driver's select drops the driver with its socket.
Stops ==
  /\ stopping /\ task \in {"between", "opening", "reading"}
  /\ IF cur = 0 THEN UNCHANGED <<ws, guards, cur>> ELSE Release
  /\ task' = "stopped"
  /\ UNCHANGED <<woken, shared, arrived, read, stopping>>

\* sockets.wait(), then finished.
Finishes ==
  /\ task = "stopped" /\ guards = {} /\ task' = "finished"
  /\ UNCHANGED <<ws, guards, cur, woken, shared, arrived, read, stopping>>

(***************************************************************************)
(* The page's events.                                                      *)
(***************************************************************************)
Ends == shared' = [shared EXCEPT !.ended = TRUE] /\ woken' = TRUE

PageOpens(i) ==
  /\ ws[i] = "connecting" /\ ws' = [ws EXCEPT ![i] = "open"]
  /\ shared' = [shared EXCEPT !.open = TRUE] /\ woken' = TRUE
  /\ UNCHANGED <<guards, cur, task, arrived, read, stopping>>

PageMessage(kind, len) ==
  LET m == [kind |-> kind, len |-> len, n |-> Len(arrived) + 1]
      pushed == Push(shared.queue, m)
  IN
  /\ cur # 0 /\ ws[cur] = "open" /\ ~shared.ended /\ Len(arrived) < MaxMessages
  /\ IF len > MaxMessage
     THEN ws' = [ws EXCEPT ![cur] = "closing"] /\ Ends /\ UNCHANGED arrived
     ELSE /\ shared' = [open |-> shared.open, ended |-> ~pushed.taken, queue |-> pushed.queue]
          /\ IF pushed.taken THEN arrived' = Append(arrived, m) /\ UNCHANGED ws
             ELSE ws' = [ws EXCEPT ![cur] = "closing"] /\ UNCHANGED arrived
          /\ woken' = TRUE
  /\ UNCHANGED <<guards, cur, task, read, stopping>>

\* The page settles a CLOSED socket: an error and a close event.
PageCloses(i) ==
  /\ ws[i] \in {"connecting", "open", "closing"} /\ ws' = [ws EXCEPT ![i] = "closed"]
  /\ IF i = cur THEN Ends ELSE UNCHANGED <<shared, woken>>
  /\ UNCHANGED <<guards, cur, task, arrived, read, stopping>>

\* The task spawned by Drop, once its close event came.
GuardDrops(i) ==
  /\ i \in guards /\ i # cur /\ ws[i] = "closed"
  /\ guards' = guards \ {i}
  /\ UNCHANGED <<ws, cur, task, woken, shared, arrived, read, stopping>>

Stop ==
  /\ ~stopping /\ stopping' = TRUE
  /\ UNCHANGED <<ws, guards, cur, task, woken, shared, arrived, read>>

PageNext ==
  \/ Open \/ PollOpen \/ PollNext \/ GivesUp \/ Stops \/ Finishes \/ Stop
  \/ \E len \in 0..MaxMessage + 1 : PageMessage("control", len)
  \/ \E len \in 1..MaxMessage + 1 : PageMessage("datagram", len)
  \/ \E i \in Ids : PageOpens(i) \/ PageCloses(i) \/ GuardDrops(i)

\* Tasks that are scheduled run, and a browser finishes every close it was
\* asked for.
PageFairness ==
  /\ WF_pageVars(PollOpen \/ PollNext \/ Stops \/ Finishes)
  /\ \A i \in Ids : WF_pageVars(ws[i] = "closing" /\ PageCloses(i)) /\ WF_pageVars(GuardDrops(i))

(***************************************************************************)
(* Properties                                                              *)
(***************************************************************************)
\* web.rs `wake`: the driver never sleeps on a socket that opened, ended or
\* holds a message (a socket that opened and ended included).
NeverAsleepOnNews ==
  /\ task = "opening" /\ ~woken => ~shared.open /\ ~shared.ended
  /\ task = "reading" /\ ~woken => shared.queue = <<>> /\ ~shared.ended

\* What the relay says reaches the driver.  inbound.rs: an overflow costs
\* datagrams, never a control frame, and never reorders, also when the last push
\* was refused: what was read and what is queued are messages taken in, in order
\* of arrival, every control frame among them.  The queue stays within both its
\* bounds, and the driver is awake to read it (NeverAsleepOnNews).
InboundKept ==
  LET kept == read \o shared.queue IN
  /\ \A i \in DOMAIN kept : kept[i].n \in DOMAIN arrived /\ kept[i] = arrived[kept[i].n]
  /\ \A i, j \in DOMAIN kept : i < j => kept[i].n < kept[j].n
  /\ \A k \in DOMAIN arrived :
       IsControl(arrived[k]) => \E i \in DOMAIN kept : kept[i] = arrived[k]
  /\ Len(shared.queue) <= InboundBound /\ Length(shared.queue) <= InboundBytes
  /\ NeverAsleepOnNews

\* relay_client.rs `closed`: the driver reports finished only when every
\* socket it ever opened, cancelled handshakes and replaced sockets included,
\* is CLOSED.
FinishedMeansClosed == task = "finished" => \A i \in Ids : ws[i] \in {"none", "closed"}

\* A stopped driver does finish, so RelayClient::closed returns.
StopFinishes == stopping ~> task = "finished"

=============================================================================
