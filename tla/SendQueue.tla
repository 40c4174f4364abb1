------------------------------ MODULE SendQueue ------------------------------
(***************************************************************************)
(* How datagrams of QUIC connections reach the relay drivers: try_send of  *)
(* the path socket and of RelayDriver, the bounded queue of a driver, the  *)
(* part of driver and pump that fills and drains it, and the backpressure  *)
(* between the two, WriteReadiness and Poller.  crates/link-endpoint/src/  *)
(* relay_client.rs and path_socket.rs.                                     *)
(*                                                                         *)
(* A connection is a quinn connection driver.  quinn is external: it asks  *)
(* poll_writable before each transmit, waits if that is Pending, and asks  *)
(* again after try_send said WouldBlock.  It goes through                  *)
(*   idle poll register recheck (pending) send tag queue note              *)
(* and a driver, once its relay welcomed it, through                       *)
(*   down welcome drained announced pump writing lost unannounced          *)
(* or it is superseded, stopping or stopped.  Each lock or atomic read is  *)
(* a step.                                                                 *)
(***************************************************************************)
EXTENDS Naturals, Sequences, FiniteSets

CONSTANTS
  Driver, Conn, Relay,
  DriverOf,   \* relay_for: the driver a connection's peer is reached on
  TagMode,    \* frames name a tag of the relay instead of the peer
  QueueCap,   \* MAX_QUEUED_FRAMES
  None

ASSUME SetsAssumption == None \notin Driver /\ None \notin Relay /\ IsFiniteSet(Conn)
ASSUME DriverOfAssumption == DriverOf \in [Conn -> Driver]
ASSUME ModeAssumption == TagMode \in BOOLEAN
ASSUME QueueAssumption == QueueCap \in Nat \ {0}

VARIABLES
  pc,         \* where each driver is
  relay,      \* the relay of its session, or of the one being opened
  up,         \* its status, when that is Up(relay)
  stop,       \* it has been told to stop
  queue,      \* its outbound queue: who sent each frame, and the tag's relay
  at,         \* where each connection is
  saw,        \* what its try_send has read, and its outcome
  woken,      \* its task has been woken
  wakers,     \* WriteReadiness.wakers
  blockedOn   \* PathSocket.blocked_on

driver == <<pc, relay, up, stop>>
conn == <<at, saw, woken>>
vars == <<pc, relay, up, stop, queue, at, saw, woken, wakers, blockedOn>>

Outcomes == {"unknown", "Queued", "WouldBlock", "Dropped"}
Unread == [up |-> FALSE, tag |-> None, outcome |-> "unknown"]

Init ==
  /\ pc = [d \in Driver |-> "down"]
  /\ relay = [d \in Driver |-> None]
  /\ up = [d \in Driver |-> None]
  /\ stop = [d \in Driver |-> FALSE]
  /\ queue = [d \in Driver |-> <<>>]
  /\ at = [c \in Conn |-> "idle"]
  /\ saw = [c \in Conn |-> Unread]
  /\ woken = [c \in Conn |-> FALSE]
  /\ wakers = {}
  /\ blockedOn = None

Goto(d, label) == pc' = [pc EXCEPT ![d] = label]
Move(c, label) == at' = [at EXCEPT ![c] = label]

\* wake_all: every registered waker is taken and woken.
WakeAll ==
  /\ woken' = [c \in Conn |-> woken[c] \/ c \in wakers]
  /\ wakers' = {}

-----------------------------------------------------------------------------
(* A driver.                                                               *)

Welcome(d, r) ==
  /\ pc[d] = "down"
  /\ Goto(d, "welcome")
  /\ relay' = [relay EXCEPT ![d] = r]
  /\ UNCHANGED <<up, stop, queue, conn, wakers, blockedOn>>

Drain_Skipped(d) ==
  /\ pc[d] = "welcome"
  /\ Goto(d, "drained")
  /\ UNCHANGED <<relay, up, stop, queue, conn, wakers, blockedOn>>

\* What was queued while the relay was down is dropped.
Drain(d) ==
  /\ pc[d] = "welcome"
  /\ Goto(d, "drained")
  /\ queue' = [queue EXCEPT ![d] = <<>>]
  /\ UNCHANGED <<relay, up, stop, conn, wakers, blockedOn>>

AnnounceUp(d) ==
  /\ pc[d] = "drained"
  /\ Goto(d, "announced")
  /\ up' = [up EXCEPT ![d] = relay[d]]
  /\ UNCHANGED <<relay, stop, queue, conn, wakers, blockedOn>>

StartPump_NoWake(d) ==
  /\ pc[d] = "announced"
  /\ Goto(d, "pump")
  /\ UNCHANGED <<relay, up, stop, queue, conn, wakers, blockedOn>>

StartPump(d) ==
  /\ pc[d] = "announced"
  /\ Goto(d, "pump")
  /\ WakeAll
  /\ UNCHANGED <<relay, up, stop, queue, at, saw, blockedOn>>

\* pump takes a frame and awaits its write.
PumpTake(d) ==
  /\ pc[d] = "pump"
  /\ queue[d] # <<>>
  /\ Goto(d, "writing")
  /\ queue' = [queue EXCEPT ![d] = Tail(@)]
  /\ UNCHANGED <<relay, up, stop, conn, wakers, blockedOn>>

\* The write is done; senders are woken once the queue is half empty.
PumpWritten(d) ==
  /\ pc[d] = "writing"
  /\ Goto(d, "pump")
  /\ IF QueueCap - Len(queue[d]) >= QueueCap \div 2
     THEN WakeAll ELSE UNCHANGED <<woken, wakers>>
  /\ UNCHANGED <<relay, up, stop, queue, at, saw, blockedOn>>

\* The session ends; what is queued stays queued.
PumpLost(d) ==
  /\ pc[d] \in {"pump", "writing"}
  /\ Goto(d, "lost")
  /\ UNCHANGED <<relay, up, stop, queue, conn, wakers, blockedOn>>

AnnounceDown(d) ==
  /\ pc[d] = "lost"
  /\ Goto(d, "unannounced")
  /\ up' = [up EXCEPT ![d] = None]
  /\ UNCHANGED <<relay, stop, queue, conn, wakers, blockedOn>>

WakeDown(d) ==
  /\ pc[d] = "unannounced"
  /\ Goto(d, "down")
  /\ WakeAll
  /\ UNCHANGED <<relay, up, stop, queue, at, saw, blockedOn>>

\* No relay within the deadline: status Failed, from Reconnecting, and a wake.
GiveUp(d) ==
  /\ pc[d] = "down"
  /\ WakeAll
  /\ UNCHANGED <<driver, queue, at, saw, blockedOn>>

\* Identity mode: a newer session has this node ID, and the driver returns ...
PumpSuperseded(d) ==
  /\ pc[d] \in {"pump", "writing"}
  /\ ~TagMode
  /\ Goto(d, "superseded")
  /\ up' = [up EXCEPT ![d] = None]
  /\ UNCHANGED <<relay, stop, queue, conn, wakers, blockedOn>>

\* ... which wakes everyone and drops the receiver of the queue.
Retire(d) ==
  /\ pc[d] = "superseded"
  /\ Goto(d, "stopping")
  /\ queue' = [queue EXCEPT ![d] = <<>>]
  /\ WakeAll
  /\ UNCHANGED <<relay, up, stop, at, saw, blockedOn>>

\* RelayDriver::close.
RequestStop(d) ==
  /\ ~stop[d]
  /\ stop' = [stop EXCEPT ![d] = TRUE]
  /\ UNCHANGED <<pc, relay, up, queue, conn, wakers, blockedOn>>

\* At an await of the driver its work, and with it the receiver of the queue,
\* is dropped ...
Stop(d) ==
  /\ pc[d] \in {"down", "pump", "writing"}
  /\ stop[d]
  /\ Goto(d, "stopping")
  /\ up' = [up EXCEPT ![d] = None]
  /\ queue' = [queue EXCEPT ![d] = <<>>]
  /\ UNCHANGED <<relay, stop, conn, wakers, blockedOn>>

\* ... and then everyone is woken.
WakeStopped(d) ==
  /\ pc[d] = "stopping"
  /\ Goto(d, "stopped")
  /\ WakeAll
  /\ UNCHANGED <<relay, up, stop, queue, at, saw, blockedOn>>

-----------------------------------------------------------------------------
(* A connection: the poller.                                               *)

Transmit(c) ==
  /\ at[c] = "idle"
  /\ Move(c, "poll")
  /\ UNCHANGED <<driver, queue, saw, woken, wakers, blockedOn>>

HasCapacity == blockedOn = None \/ Len(queue[blockedOn]) < QueueCap

Poll(c) ==
  /\ at[c] = "poll"
  /\ Move(c, IF HasCapacity THEN "send" ELSE "register")
  /\ UNCHANGED <<driver, queue, saw, woken, wakers, blockedOn>>

Register_NoRecheck(c) ==
  /\ at[c] = "register"
  /\ Move(c, "pending")
  /\ wakers' = wakers \cup {c}
  /\ UNCHANGED <<driver, queue, saw, woken, blockedOn>>

Register(c) ==
  /\ at[c] = "register"
  /\ Move(c, "recheck")
  /\ wakers' = wakers \cup {c}
  /\ UNCHANGED <<driver, queue, saw, woken, blockedOn>>

Recheck(c) ==
  /\ at[c] = "recheck"
  /\ Move(c, IF HasCapacity THEN "send" ELSE "pending")
  /\ UNCHANGED <<driver, queue, saw, woken, wakers, blockedOn>>

Wakened(c) ==
  /\ at[c] = "pending"
  /\ woken[c]
  /\ Move(c, "poll")
  /\ woken' = [woken EXCEPT ![c] = FALSE]
  /\ UNCHANGED <<driver, queue, saw, wakers, blockedOn>>

-----------------------------------------------------------------------------
(* A connection: try_send.                                                 *)

\* The peer has a fresh direct proof, as it may at any time: the datagram goes
\* to the UDP socket, and blocked_on stays as it is.
SendDirect(c) ==
  /\ at[c] = "send"
  /\ Move(c, "idle")
  /\ UNCHANGED <<driver, queue, saw, woken, wakers, blockedOn>>

\* Whether the driver was told to stop, and whether its status is Up.
ReadUp(c) ==
  /\ at[c] = "send"
  /\ IF stop[DriverOf[c]]
     THEN /\ Move(c, "note")
          /\ saw' = [saw EXCEPT ![c].outcome = "Dropped"]
     ELSE /\ Move(c, IF TagMode THEN "tag" ELSE "queue")
          /\ saw' = [saw EXCEPT ![c].up = (up[DriverOf[c]] # None)]
  /\ UNCHANGED <<driver, queue, woken, wakers, blockedOn>>

\* The tag depends on the relay the session is on; the book may have none.
ReadTag(c) ==
  /\ at[c] = "tag"
  /\ \/ /\ Move(c, "note")
        /\ saw' = [saw EXCEPT ![c].outcome = "Dropped"]
     \/ /\ up[DriverOf[c]] # None
        /\ Move(c, "queue")
        /\ saw' = [saw EXCEPT ![c].tag = up[DriverOf[c]]]
  /\ UNCHANGED <<driver, queue, woken, wakers, blockedOn>>

\* The receiver of the queue has been dropped.
Closed(d) == pc[d] \in {"stopping", "stopped"}

\* The queue takes the frame, or it is full, or its receiver is gone.
Enqueue(c) ==
  LET d == DriverOf[c]
      open == ~Closed(d)
      room == Len(queue[d]) < QueueCap
  IN
  /\ at[c] = "queue"
  /\ Move(c, "note")
  /\ queue' = IF open /\ room
              THEN [queue EXCEPT ![d] = Append(@, [by |-> c, tag |-> saw[c].tag])]
              ELSE queue
  /\ saw' = [saw EXCEPT ![c].outcome = IF open /\ room THEN "Queued"
                                       ELSE IF open /\ saw[c].up THEN "WouldBlock"
                                       ELSE "Dropped"]
  /\ UNCHANGED <<driver, woken, wakers, blockedOn>>

\* The socket remembers which driver refused.
NoteOutcome(c) ==
  /\ at[c] = "note"
  /\ blockedOn' = IF saw[c].outcome = "WouldBlock" THEN DriverOf[c] ELSE None
  /\ Move(c, IF saw[c].outcome = "WouldBlock" THEN "poll" ELSE "idle")
  /\ saw' = [saw EXCEPT ![c] = Unread]
  /\ UNCHANGED <<driver, queue, woken, wakers>>

-----------------------------------------------------------------------------
Settle(d) == Drain(d) \/ AnnounceUp(d) \/ StartPump(d) \/ AnnounceDown(d)
             \/ WakeDown(d) \/ Retire(d) \/ WakeStopped(d)

DriverStep(d) ==
  \/ \E r \in Relay : Welcome(d, r)
  \/ Settle(d) \/ PumpTake(d) \/ PumpWritten(d) \/ PumpLost(d)
  \/ GiveUp(d) \/ PumpSuperseded(d) \/ RequestStop(d) \/ Stop(d)

Send(c) == SendDirect(c) \/ ReadUp(c) \/ ReadTag(c) \/ Enqueue(c) \/ NoteOutcome(c)
Ask(c) == Poll(c) \/ Register(c) \/ Recheck(c) \/ Wakened(c)

Next ==
  \/ \E d \in Driver : DriverStep(d)
  \/ \E c \in Conn : Transmit(c) \/ Ask(c) \/ Send(c)

Spec == Init /\ [][Next]_vars

\* The tasks run, and a session that is up writes what is queued, or is lost.
TaskFairness ==
  /\ \A d \in Driver : WF_vars(Settle(d) \/ Stop(d)) /\ WF_vars(PumpTake(d) \/ PumpWritten(d))
  /\ \A c \in Conn : WF_vars(Ask(c) \/ Send(c))

FairSpec == Spec /\ TaskFairness

\* Besides, a driver that is down and not stopped finds a relay again.
ReconnectSpec ==
  FairSpec /\ \A d \in Driver : WF_vars(\E r \in Relay : Welcome(d, r))

-----------------------------------------------------------------------------
(* Properties.                                                             *)

Labels == {"down", "welcome", "drained", "announced", "pump", "writing", "lost",
           "unannounced", "superseded", "stopping", "stopped"}
Places == {"idle", "poll", "register", "recheck", "pending", "send", "tag",
           "queue", "note"}
Readings == [up : BOOLEAN, tag : Relay \cup {None}, outcome : Outcomes]
QueuedFrames == [by : Conn, tag : Relay \cup {None}]

\* Every variable stays in its range, and no queue exceeds its bound.
TypeOK ==
  /\ pc \in [Driver -> Labels]
  /\ relay \in [Driver -> Relay \cup {None}]
  /\ up \in [Driver -> Relay \cup {None}]
  /\ stop \in [Driver -> BOOLEAN]
  /\ queue \in [Driver -> Seq(QueuedFrames)]
  /\ \A d \in Driver : Len(queue[d]) <= QueueCap
  /\ at \in [Conn -> Places]
  /\ saw \in [Conn -> Readings]
  /\ woken \in [Conn -> BOOLEAN]
  /\ wakers \in SUBSET Conn
  /\ blockedOn \in Driver \cup {None}

\* Frames of connection c with a tag of another relay than the one d is on.
Stale(d, c) == {i \in 1..Len(queue[d]) : queue[d][i].by = c /\ queue[d][i].tag # relay[d]}

\* Tag mode: the drain before Up leaves no tags of the previous relay, except
\* the one a try_send had computed before and queues after it.
StaleFramesBounded ==
  TagMode => \A d \in Driver, c \in Conn :
    pc[d] \in {"announced", "pump", "writing"} => Cardinality(Stale(d, c)) <= 1

\* Poller and wake_all never miss each other: while a connection waits and was
\* not woken, its waker is registered, and some driver has a frame to take or
\* is on its way to a wake_all, so the wake is still to come.
WakeIsOwed ==
  \A c \in Conn : at[c] = "pending" /\ ~woken[c] =>
    /\ c \in wakers
    /\ \E d \in Driver :
         \/ queue[d] # <<>>
         \/ pc[d] \notin {"down", "pump", "stopped"}

\* A connection waiting for room gets to send, if the drivers that are down
\* reconnect and the other connections do not go on sending for ever: one that
\* takes each slot as it frees keeps the queue above the half that wakes.
WaitEnds ==
  <>[][\A c \in Conn : ~Transmit(c)]_vars
    => \A c \in Conn : at[c] = "pending" ~> at[c] = "send"

====
