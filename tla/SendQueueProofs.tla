--------------------------- MODULE SendQueueProofs ---------------------------
(***************************************************************************)
(* Types, WakeIsOwed and StaleFramesBounded, for any drivers, connections, *)
(* relays and queue bound.                                                 *)
(***************************************************************************)
EXTENDS SendQueue, SequenceTheorems, FiniteSetTheorems, TLAPS

\* Whoever rechecks or waits has registered its waker, unless a wake_all has
\* taken it and woken the task.
Registered == \A c \in Conn :
  at[c] \in {"recheck", "pending"} => woken[c] \/ c \in wakers

\* A driver from which a wake_all is still to come.
Owes(d) == queue[d] # <<>> \/ pc[d] \notin {"down", "pump", "stopped"}

Owed == (\E c \in Conn : at[c] = "pending" /\ ~woken[c]) => \E d \in Driver : Owes(d)

IInv == TypeOK /\ Registered /\ Owed

LEMMA InitInv == Init => IInv
<1> SUFFICES ASSUME Init PROVE IInv
  BY ZenonT(60)
<1>1. TypeOK
  BY SetsAssumption, QueueAssumption
     DEF Init, TypeOK, Labels, Places, Readings, Outcomes, Unread, QueuedFrames
<1>2. Registered /\ Owed
  BY ZenonT(60) DEF Init, Registered, Owed
<1> QED BY ZenonT(60), <1>1, <1>2 DEF IInv

-----------------------------------------------------------------------------
(* Types, one step per group of actions that write the same variables.     *)

LEMMA DriverTypes == ASSUME TypeOK, NEW d \in Driver, DriverStep(d) PROVE TypeOK'
<1> USE SetsAssumption, QueueAssumption DEF Labels
<1>1. CASE \E r \in Relay : Welcome(d, r)
  BY <1>1 DEF Welcome, TypeOK, Goto, conn
<1>2. CASE Drain(d)
  BY <1>2 DEF Drain, TypeOK, Goto, conn
<1>3. CASE AnnounceUp(d)
  BY ZenonT(60), <1>3 DEF AnnounceUp, TypeOK, Goto, conn
<1>4. CASE StartPump(d)
  BY ZenonT(60), <1>4 DEF StartPump, TypeOK, Goto, WakeAll
<1>5. CASE PumpTake(d)
  <2>1. /\ Tail(queue[d]) \in Seq(QueuedFrames) /\ Len(Tail(queue[d])) <= QueueCap
    BY <1>5 DEF PumpTake, TypeOK
  <2> QED BY ZenonT(60), <1>5, <2>1 DEF PumpTake, TypeOK, Goto, conn
<1>6. CASE PumpWritten(d)
  <2>1. pc' \in [Driver -> Labels]
    BY ZenonT(60), <1>6 DEF PumpWritten, Goto, TypeOK
  <2>2. CASE WakeAll
    <3>1. woken' \in [Conn -> BOOLEAN] /\ wakers' \in SUBSET Conn
      BY ZenonT(60), <2>2 DEF WakeAll, TypeOK
    <3> QED BY ZenonT(60), <1>6, <2>1, <3>1 DEF PumpWritten, TypeOK
  <2>3. CASE UNCHANGED <<woken, wakers>>
    BY ZenonT(60), <1>6, <2>1, <2>3 DEF PumpWritten, TypeOK
  <2> QED BY ZenonT(60), <1>6, <2>2, <2>3 DEF PumpWritten
<1>7. CASE PumpLost(d)
  BY ZenonT(60), <1>7 DEF PumpLost, TypeOK, Goto, conn
<1>8. CASE AnnounceDown(d)
  BY ZenonT(60), <1>8 DEF AnnounceDown, TypeOK, Goto, conn
<1>9. CASE WakeDown(d)
  BY ZenonT(60), <1>9 DEF WakeDown, TypeOK, Goto, WakeAll
<1>10. CASE GiveUp(d)
  BY ZenonT(60), <1>10 DEF GiveUp, TypeOK, WakeAll, driver
<1>11. CASE PumpSuperseded(d)
  BY ZenonT(60), <1>11 DEF PumpSuperseded, TypeOK, Goto, conn
<1>12. CASE Retire(d)
  BY <1>12 DEF Retire, TypeOK, Goto, WakeAll
<1>13. CASE RequestStop(d)
  BY ZenonT(60), <1>13 DEF RequestStop, TypeOK, conn
<1>14. CASE Stop(d)
  BY <1>14 DEF Stop, TypeOK, Goto, conn
<1>15. CASE WakeStopped(d)
  BY ZenonT(60), <1>15 DEF WakeStopped, TypeOK, Goto, WakeAll
<1> QED BY ZenonT(60), <1>1, <1>2, <1>3, <1>4, <1>5, <1>6, <1>7, <1>8, <1>9, <1>10, <1>11,
           <1>12, <1>13, <1>14, <1>15 DEF DriverStep, Settle

LEMMA ConnTypes ==
  ASSUME TypeOK, NEW c \in Conn, Transmit(c) \/ Ask(c) \/ Send(c)
  PROVE  TypeOK'
<1> USE SetsAssumption, DriverOfAssumption DEF Places
<1>0. saw \in [Conn -> Readings] /\ saw[c] \in Readings
  BY ZenonT(60) DEF TypeOK
<1>1. CASE Transmit(c) \/ Poll(c) \/ Recheck(c) \/ SendDirect(c)
  BY ZenonT(60), <1>1 DEF Transmit, Poll, Recheck, SendDirect, Move, driver, TypeOK
<1>2. CASE Register(c)
  BY ZenonT(60), <1>2 DEF Register, Move, driver, TypeOK
<1>3. CASE Wakened(c)
  BY ZenonT(60), <1>3 DEF Wakened, Move, driver, TypeOK
<1>4. CASE ReadUp(c)
  <2>1. /\ [saw[c] EXCEPT !.outcome = "Dropped"] \in Readings
        /\ [saw[c] EXCEPT !.up = (up[DriverOf[c]] # None)] \in Readings
    BY ZenonT(60), <1>0 DEF Readings, Outcomes
  <2>2. saw' \in [Conn -> Readings]
    BY ZenonT(60), <1>0, <1>4, <2>1 DEF ReadUp
  <2>3. at' \in [Conn -> Places]
    <3>1. \/ at' = [at EXCEPT ![c] = "note"]
          \/ at' = [at EXCEPT ![c] = IF TagMode THEN "tag" ELSE "queue"]
      BY ZenonT(60), <1>4 DEF ReadUp, Move
    <3>2. at \in [Conn -> Places]
      BY ZenonT(60) DEF TypeOK
    <3> QED BY ZenonT(60), <3>1, <3>2
  <2>4. UNCHANGED <<driver, queue, woken, wakers, blockedOn>>
    BY ZenonT(60), <1>4 DEF ReadUp
  <2> QED BY ZenonT(60), <2>2, <2>3, <2>4 DEF driver, TypeOK
<1>5. CASE ReadTag(c)
  <2>1. up[DriverOf[c]] \in Relay \cup {None}
    BY ZenonT(60) DEF TypeOK
  <2>2. /\ [saw[c] EXCEPT !.outcome = "Dropped"] \in Readings
        /\ [saw[c] EXCEPT !.tag = up[DriverOf[c]]] \in Readings
    BY ZenonT(60), <1>0, <2>1 DEF Readings, Outcomes
  <2>3. saw' \in [Conn -> Readings]
    BY ZenonT(60), <1>0, <1>5, <2>2 DEF ReadTag
  <2> QED BY ZenonT(60), <1>5, <2>3 DEF ReadTag, Move, driver, TypeOK
<1>6. CASE Enqueue(c)
  <2>1. PICK d \in Driver : d = DriverOf[c]
    BY ZenonT(60)
  <2>2. PICK f \in QueuedFrames : f = [by |-> c, tag |-> saw[c].tag]
    BY ZenonT(60), <1>0 DEF QueuedFrames, Readings
  <2>3. \A o \in Outcomes : [saw[c] EXCEPT !.outcome = o] \in Readings
    BY ZenonT(60), <1>0 DEF Readings
  <2>4. \E o \in Outcomes : saw' = [saw EXCEPT ![c] = [saw[c] EXCEPT !.outcome = o]]
    BY ZenonT(60), <1>6 DEF Enqueue, Outcomes
  <2>5. saw' \in [Conn -> Readings]
    BY ZenonT(60), <1>0, <2>3, <2>4
  <2>6. \/ queue' = queue
        \/ Len(queue[d]) < QueueCap /\ queue' = [queue EXCEPT ![d] = Append(@, f)]
    BY ZenonT(60), <1>6, <2>1, <2>2 DEF Enqueue
  <2>7. /\ queue' \in [Driver -> Seq(QueuedFrames)]
        /\ \A e \in Driver : Len(queue'[e]) <= QueueCap
    <3>1. queue[d] \in Seq(QueuedFrames) /\ Len(queue[d]) <= QueueCap
      BY ZenonT(60) DEF TypeOK
    <3>2. /\ Append(queue[d], f) \in Seq(QueuedFrames)
          /\ Len(Append(queue[d], f)) = Len(queue[d]) + 1
      BY <2>2, <3>1
    <3>3. CASE queue' = queue
      BY ZenonT(60), <3>3 DEF TypeOK
    <3>4. CASE Len(queue[d]) < QueueCap /\ queue' = [queue EXCEPT ![d] = Append(@, f)]
      <4>1. queue' \in [Driver -> Seq(QueuedFrames)]
        BY ZenonT(60), <3>2, <3>4 DEF TypeOK
      <4>2. \A e \in Driver : queue'[e] = IF e = d THEN Append(queue[d], f) ELSE queue[e]
        BY ZenonT(60), <3>4 DEF TypeOK
      <4>3. Len(Append(queue[d], f)) <= QueueCap
        BY <3>1, <3>2, <3>4, QueueAssumption
      <4> QED BY ZenonT(60), <4>1, <4>2, <4>3 DEF TypeOK
    <3> QED BY ZenonT(60), <2>6, <3>3, <3>4
  <2> QED BY ZenonT(60), <1>6, <2>5, <2>7 DEF Enqueue, Move, driver, TypeOK
<1>7. CASE NoteOutcome(c)
  <2>1. Unread \in Readings
    BY ZenonT(60) DEF Readings, Outcomes, Unread
  <2> QED BY ZenonT(60), <1>7, <2>1 DEF NoteOutcome, Move, driver, TypeOK
<1> QED BY ZenonT(60), <1>1, <1>2, <1>3, <1>4, <1>5, <1>6, <1>7 DEF Ask, Send

-----------------------------------------------------------------------------
(* The wake that is owed.                                                  *)

\* A driver's step either wakes every connection whose waker is registered, or
\* leaves wakes and wakers alone and still owes a wake if it did before.
LEMMA DriverOwes ==
  ASSUME TypeOK, NEW d \in Driver, DriverStep(d)
  PROVE  /\ at' = at
         /\ \A e \in Driver \ {d} : queue'[e] = queue[e] /\ pc'[e] = pc[e]
         /\ WakeAll \/ (UNCHANGED <<woken, wakers>> /\ (Owes(d) => Owes(d)'))
<1> USE DEF Owes
<1>1. CASE \/ \E r \in Relay : Welcome(d, r)
           \/ Drain(d) \/ AnnounceUp(d) \/ PumpTake(d) \/ PumpLost(d)
           \/ AnnounceDown(d) \/ PumpSuperseded(d) \/ RequestStop(d) \/ Stop(d)
  <2>1. UNCHANGED conn /\ UNCHANGED wakers
    BY ZenonT(60), <1>1 DEF Welcome, Drain, AnnounceUp, PumpTake, PumpLost, AnnounceDown,
                PumpSuperseded, RequestStop, Stop, conn
  <2>2. \A e \in Driver \ {d} : queue'[e] = queue[e] /\ pc'[e] = pc[e]
    BY ZenonT(60), <1>1, SMTT(40) DEF Welcome, Drain, AnnounceUp, PumpTake, PumpLost, AnnounceDown,
                PumpSuperseded, RequestStop, Stop, Goto, TypeOK
  <2>3. (pc' = pc /\ queue' = queue) \/ pc'[d] \notin {"down", "pump", "stopped"}
    BY ZenonT(60), <1>1, SMTT(40) DEF Welcome, Drain, AnnounceUp, PumpTake, PumpLost, AnnounceDown,
                PumpSuperseded, RequestStop, Stop, Goto, TypeOK
  <2> QED BY ZenonT(60), <2>1, <2>2, <2>3 DEF conn
<1>2. CASE \/ StartPump(d) \/ WakeDown(d) \/ GiveUp(d) \/ Retire(d) \/ WakeStopped(d)
  BY ZenonT(60), <1>2 DEF StartPump, WakeDown, GiveUp, Retire, WakeStopped, Goto, driver, TypeOK
<1>3. CASE PumpWritten(d)
  <2>1. queue' = queue /\ at' = at /\ pc' = [pc EXCEPT ![d] = "pump"]
    BY ZenonT(60), <1>3 DEF PumpWritten, Goto
  <2>2. CASE QueueCap - Len(queue[d]) >= QueueCap \div 2
    BY ZenonT(60), <1>3, <2>1, <2>2 DEF PumpWritten, TypeOK
  <2>3. CASE ~(QueueCap - Len(queue[d]) >= QueueCap \div 2)
    <3>1. queue[d] # <<>>
      BY <2>3, QueueAssumption DEF TypeOK
    <3> QED BY ZenonT(60), <1>3, <2>1, <2>3, <3>1 DEF PumpWritten, TypeOK
  <2> QED BY ZenonT(60), <2>2, <2>3
<1> QED BY ZenonT(60), <1>1, <1>2, <1>3 DEF DriverStep, Settle

LEMMA DriverInv ==
  ASSUME IInv, NEW d \in Driver, DriverStep(d) PROVE IInv'
<1>1. TypeOK /\ TypeOK'
  BY ZenonT(60), DriverTypes DEF IInv
<1>2. /\ at' = at
      /\ \A e \in Driver \ {d} : queue'[e] = queue[e] /\ pc'[e] = pc[e]
      /\ WakeAll \/ (UNCHANGED <<woken, wakers>> /\ (Owes(d) => Owes(d)'))
  BY ZenonT(60), <1>1, DriverOwes
<1>4. Registered'
  BY ZenonT(60), <1>1, <1>2 DEF Registered, IInv, WakeAll, TypeOK
<1>5. CASE WakeAll
  <2>1. \A c \in Conn : at'[c] = "pending" => woken'[c]
    BY ZenonT(60), <1>1, <1>2, <1>5 DEF WakeAll, Registered, IInv, TypeOK
  <2> QED BY ZenonT(60), <1>1, <1>4, <2>1 DEF IInv, Owed
<1>6. CASE UNCHANGED <<woken, wakers>> /\ (Owes(d) => Owes(d)')
  <2>1. \A e \in Driver : Owes(e) => Owes(e)'
    BY ZenonT(60), <1>2, <1>6 DEF Owes
  <2> QED BY ZenonT(60), <1>1, <1>2, <1>4, <1>6, <2>1 DEF IInv, Owed
<1> QED BY ZenonT(60), <1>2, <1>5, <1>6

LEMMA ConnInv ==
  ASSUME IInv, NEW c \in Conn, Transmit(c) \/ Ask(c) \/ Send(c) PROVE IInv'
<1> USE SetsAssumption, DriverOfAssumption
<1>1. TypeOK /\ TypeOK' /\ Registered /\ Owed
  BY ZenonT(60), ConnTypes DEF IInv
<1>3. Registered'
  BY ZenonT(60), <1>1, SMTT(40) DEF Registered, Transmit, Ask, Send, Poll, Register, Recheck, Wakened,
     SendDirect, ReadUp, ReadTag, Enqueue, NoteOutcome, Move, TypeOK
<1>4. pc' = pc /\ \A d \in Driver : queue[d] # <<>> => queue'[d] # <<>>
  <2>1. pc' = pc /\ (queue' = queue \/ Enqueue(c))
    BY ZenonT(60) DEF Transmit, Ask, Send, Poll, Register, Recheck, Wakened,
       SendDirect, ReadUp, ReadTag, Enqueue, NoteOutcome, driver
  <2>2. ASSUME Enqueue(c), NEW d \in Driver, queue[d] # <<>> PROVE queue'[d] # <<>>
    <3>1. PICK f \in QueuedFrames : f = [by |-> c, tag |-> saw[c].tag]
      BY ZenonT(60), <1>1 DEF TypeOK, QueuedFrames, Readings
    <3>2. queue'[d] = queue[d] \/ queue'[d] = Append(queue[d], f)
      BY ZenonT(60), <1>1, <2>2, <3>1 DEF Enqueue, TypeOK
    <3>3. Append(queue[d], f) # <<>>
      <4>1. queue[d] \in Seq(QueuedFrames)
        BY ZenonT(60), <1>1 DEF TypeOK
      <4> QED BY <3>1, <4>1
    <3> QED BY ZenonT(60), <2>2, <3>2, <3>3
  <2> QED BY ZenonT(60), <2>1, <2>2
<1>5. CASE Recheck(c) /\ ~HasCapacity
  <2>1. blockedOn \in Driver /\ queue[blockedOn] # <<>> /\ queue' = queue
    BY <1>1, <1>5, QueueAssumption DEF Recheck, HasCapacity, TypeOK
  <2> QED BY ZenonT(60), <1>1, <1>3, <2>1 DEF IInv, Owed, Owes
<1>6. CASE ~(Recheck(c) /\ ~HasCapacity)
  <2>1. \A b \in Conn : at'[b] = "pending" /\ ~woken'[b] => at[b] = "pending" /\ ~woken[b]
    BY ZenonT(60), <1>1, <1>6, SMTT(40) DEF Transmit, Ask, Send, Poll, Register, Recheck, Wakened,
       SendDirect, ReadUp, ReadTag, Enqueue, NoteOutcome, Move, TypeOK
  <2> QED BY ZenonT(60), <1>1, <1>3, <1>4, <2>1 DEF IInv, Owed, Owes
<1> QED BY ZenonT(60), <1>5, <1>6

\* IInv is inductive.
THEOREM SendQueueInvariant == Spec => []IInv
<1>1. ASSUME IInv, [Next]_vars PROVE IInv'
  <2>1. CASE UNCHANGED vars
    BY ZenonT(60), <1>1, <2>1 DEF IInv, TypeOK, Registered, Owed, Owes, vars
  <2> QED BY ZenonT(60), <1>1, <2>1, DriverInv, ConnInv DEF Next
<1> QED BY InitInv, <1>1, PTL DEF Spec

\* Every variable stays in its range and every queue within MAX_QUEUED_FRAMES.
THEOREM TypeCorrect == Spec => []TypeOK
<1>1. IInv => TypeOK
  BY ZenonT(60) DEF IInv
<1> QED BY SendQueueInvariant, <1>1, PTL

\* Poller and wake_all never miss each other, with any number of connections
\* and drivers sharing one WriteReadiness and any bound of the queues.
THEOREM WakeIsOwedCorrect == Spec => []WakeIsOwed
<1>1. IInv => WakeIsOwed
  BY ZenonT(60) DEF IInv, Registered, Owed, Owes, WakeIsOwed
<1> QED BY SendQueueInvariant, <1>1, PTL

-----------------------------------------------------------------------------
(* Tags of the previous relay.                                             *)

\* A connection has a tag of another relay in hand, which it is about to queue.
InHand(d, c) == DriverOf[c] = d /\ at[c] = "queue" /\ saw[c].tag # relay[d]

OneStale(d, c) ==
  /\ \A i, j \in Stale(d, c) : i = j
  /\ InHand(d, c) => Stale(d, c) = {}

\* From the drain to the end of the session at most one stale frame of each
\* connection is queued or in hand: a tag is read only while Up, and then it is
\* one of the session's relay.
TagsCurrent ==
  /\ \A d \in Driver : up[d] = IF pc[d] \in {"announced", "pump", "writing", "lost"}
                               THEN relay[d] ELSE None
  /\ \A d \in Driver, c \in Conn :
       pc[d] \in {"drained", "announced", "pump", "writing"} => OneStale(d, c)

\* OneStale depends on one driver's queue and relay and on one connection.
LEMMA OneStaleKept ==
  ASSUME NEW d, NEW c, OneStale(d, c), queue'[d] = queue[d], relay'[d] = relay[d],
         InHand(d, c)' => InHand(d, c)
  PROVE  OneStale(d, c)'
BY ZenonT(60) DEF OneStale, Stale

LEMMA DriverTags ==
  ASSUME TypeOK, TagMode, TagsCurrent, NEW d \in Driver, DriverStep(d) PROVE TagsCurrent'
<1>t. /\ pc \in [Driver -> Labels] /\ relay \in [Driver -> Relay \cup {None}]
      /\ up \in [Driver -> Relay \cup {None}] /\ queue \in [Driver -> Seq(QueuedFrames)]
  BY ZenonT(60) DEF TypeOK
<1>1. /\ UNCHANGED <<at, saw>>
      /\ \A e \in Driver \ {d} : /\ pc'[e] = pc[e] /\ relay'[e] = relay[e]
                                 /\ up'[e] = up[e] /\ queue'[e] = queue[e]
  <2>1. UNCHANGED <<at, saw>>
    BY ZenonT(60) DEF DriverStep, Settle, Welcome, Drain, AnnounceUp, StartPump, PumpTake,
       PumpWritten, PumpLost, AnnounceDown, WakeDown, GiveUp, PumpSuperseded, Retire,
       RequestStop, Stop, WakeStopped, conn
  <2>2. \A e \in Driver \ {d} : pc'[e] = pc[e] /\ up'[e] = up[e]
    BY ZenonT(60), <1>t DEF DriverStep, Settle, Welcome, Drain, AnnounceUp, StartPump, PumpTake,
       PumpWritten, PumpLost, AnnounceDown, WakeDown, GiveUp, PumpSuperseded, Retire,
       RequestStop, Stop, WakeStopped, Goto, driver
  <2>3. \A e \in Driver \ {d} : relay'[e] = relay[e] /\ queue'[e] = queue[e]
    BY ZenonT(60), <1>t DEF DriverStep, Settle, Welcome, Drain, AnnounceUp, StartPump, PumpTake,
       PumpWritten, PumpLost, AnnounceDown, WakeDown, GiveUp, PumpSuperseded, Retire,
       RequestStop, Stop, WakeStopped, driver
  <2> QED BY ZenonT(60), <2>1, <2>2, <2>3
<1>2. \A e \in Driver : up'[e] = IF pc'[e] \in {"announced", "pump", "writing", "lost"}
                                 THEN relay'[e] ELSE None
  <2>1. up'[d] = IF pc'[d] \in {"announced", "pump", "writing", "lost"} THEN relay'[d] ELSE None
    BY ZenonT(60), <1>t DEF TagsCurrent, DriverStep, Settle, Welcome, Drain, AnnounceUp, StartPump,
       PumpTake, PumpWritten, PumpLost, AnnounceDown, WakeDown, GiveUp, PumpSuperseded, Retire,
       RequestStop, Stop, WakeStopped, Goto, driver
  <2> QED BY ZenonT(60), <1>1, <2>1 DEF TagsCurrent
<1>3. ASSUME NEW c \in Conn, pc'[d] \in {"drained", "announced", "pump", "writing"}
      PROVE  OneStale(d, c)'
  <2>1. CASE Drain(d)
    <3>1. queue'[d] = <<>>
      BY ZenonT(60), <1>t, <2>1 DEF Drain
    <3> QED BY <3>1 DEF OneStale, Stale
  <2>2. CASE PumpTake(d)
    <3>1. /\ queue'[d] = Tail(queue[d]) /\ relay' = relay /\ OneStale(d, c) /\ queue[d] # <<>>
      BY ZenonT(60), <1>t, <2>2 DEF PumpTake, TagsCurrent
    <3>2. /\ queue[d] \in Seq(QueuedFrames) /\ Len(queue'[d]) = Len(queue[d]) - 1
          /\ Len(queue[d]) \in Nat
          /\ \A i \in 1..Len(queue'[d]) : queue'[d][i] = queue[d][i + 1]
      BY <1>t, <3>1
    <3>3. \A i \in Stale(d, c)' : i \in Nat /\ i + 1 \in Stale(d, c)
      BY SMTT(30), <3>1, <3>2 DEF Stale
    <3>4. InHand(d, c)' => InHand(d, c)
      BY ZenonT(60), <1>1, <3>1 DEF InHand
    <3>5. \A i, j \in Stale(d, c)' : i = j
      BY <3>1, <3>3 DEF OneStale
    <3>6. InHand(d, c)' => Stale(d, c)' = {}
      BY ZenonT(60), <3>1, <3>3, <3>4 DEF OneStale
    <3> QED BY ZenonT(60), <3>5, <3>6 DEF OneStale
  <2>3. CASE ~Drain(d) /\ ~PumpTake(d)
    <3>1. /\ pc[d] \in {"drained", "announced", "pump", "writing"}
          /\ queue'[d] = queue[d] /\ relay'[d] = relay[d]
      BY ZenonT(60), <1>3, <1>t, <2>3 DEF DriverStep, Settle, Welcome, AnnounceUp, StartPump,
         PumpWritten, PumpLost, AnnounceDown, WakeDown, GiveUp, PumpSuperseded, Retire,
         RequestStop, Stop, WakeStopped, Goto, driver
    <3>2. OneStale(d, c) /\ (InHand(d, c)' => InHand(d, c))
      BY ZenonT(60), <1>1, <3>1 DEF TagsCurrent, InHand
    <3> QED BY ZenonT(60), <3>1, <3>2, OneStaleKept
  <2> QED BY ZenonT(60), <2>1, <2>2, <2>3
<1>4. ASSUME NEW e \in Driver \ {d}, NEW c \in Conn,
             pc'[e] \in {"drained", "announced", "pump", "writing"}
      PROVE  OneStale(e, c)'
  <2>1. OneStale(e, c) /\ (InHand(e, c)' => InHand(e, c))
    BY ZenonT(60), <1>1, <1>4 DEF TagsCurrent, InHand
  <2> QED BY ZenonT(60), <1>1, <2>1, OneStaleKept
<1> QED BY ZenonT(60), <1>2, <1>3, <1>4 DEF TagsCurrent

LEMMA ConnTags ==
  ASSUME TypeOK, TagMode, TagsCurrent, NEW c \in Conn, Transmit(c) \/ Ask(c) \/ Send(c)
  PROVE  TagsCurrent'
<1> USE DriverOfAssumption
<1>t. /\ queue \in [Driver -> Seq(QueuedFrames)] /\ at \in [Conn -> Places]
      /\ saw \in [Conn -> Readings] /\ saw[c] \in Readings
  BY ZenonT(60) DEF TypeOK
<1>1. UNCHANGED <<pc, relay, up>>
  BY ZenonT(60) DEF Transmit, Ask, Send, Poll, Register, Recheck, Wakened, SendDirect, ReadUp,
     ReadTag, Enqueue, NoteOutcome, driver
<1>2. SUFFICES ASSUME NEW d \in Driver, NEW b \in Conn, OneStale(d, b),
                      pc[d] \in {"drained", "announced", "pump", "writing"}
               PROVE  OneStale(d, b)'
  BY ZenonT(60), <1>1 DEF TagsCurrent
<1>3. CASE Enqueue(c)
  <2> DEFINE f == [by |-> c, tag |-> saw[c].tag]
  <2>1. f \in QueuedFrames /\ f.by = c /\ f.tag = saw[c].tag
    BY ZenonT(60), <1>t DEF QueuedFrames, Readings
  <2>2. /\ at' = [at EXCEPT ![c] = "note"] /\ at[c] = "queue"
        /\ queue'[d] = queue[d] \/ (DriverOf[c] = d /\ queue'[d] = Append(queue[d], f))
    BY ZenonT(60), <1>3, <1>t DEF Enqueue, Move
  <2>3. InHand(d, b)' => InHand(d, b) /\ b # c
    BY ZenonT(60), <1>1, <1>3, <1>t DEF InHand, Enqueue, Move
  <2>4. CASE queue'[d] = queue[d]
    BY ZenonT(60), <1>1, <1>2, <2>3, <2>4, OneStaleKept
  <2>5. CASE DriverOf[c] = d /\ queue'[d] = Append(queue[d], f)
    <3> HIDE DEF f
    <3>1. /\ Len(queue'[d]) = Len(queue[d]) + 1 /\ Len(queue[d]) \in Nat
          /\ queue'[d][Len(queue[d]) + 1] = f
          /\ \A i \in 1..Len(queue[d]) : queue'[d][i] = queue[d][i]
      BY <1>t, <2>1, <2>5
    <3>2. \A i \in Stale(d, b)' : \/ i \in Stale(d, b)
                                  \/ b = c /\ f.tag # relay[d] /\ i = Len(queue[d]) + 1
      BY SMTT(30), <1>1, <2>1, <3>1 DEF Stale
    <3>3. CASE b = c /\ f.tag # relay[d]
      <4>1. InHand(d, b)
        BY ZenonT(60), <2>1, <2>2, <2>5, <3>3 DEF InHand
      <4>2. Stale(d, b) = {} /\ ~InHand(d, b)'
        BY ZenonT(60), <1>2, <2>3, <3>3, <4>1 DEF OneStale
      <4> QED BY ZenonT(60), <3>2, <4>2 DEF OneStale
    <3>4. CASE ~(b = c /\ f.tag # relay[d])
      BY ZenonT(60), <1>2, <2>3, <3>2, <3>4 DEF OneStale
    <3> QED BY ZenonT(60), <3>3, <3>4
  <2> QED BY ZenonT(60), <2>2, <2>4, <2>5
<1>4. CASE ReadTag(c)
  <2>1. queue' = queue
    BY ZenonT(60), <1>4 DEF ReadTag
  <2>2. InHand(d, b)' => InHand(d, b)
    <3>1. CASE b = c
      <4>1. ASSUME DriverOf[c] = d, at'[c] = "queue" PROVE saw'[c].tag = relay[d]
        <5>1. up[d] # None /\ saw' = [saw EXCEPT ![c].tag = up[d]]
          BY ZenonT(60), <1>4, <1>t, <4>1 DEF ReadTag, Move
        <5>2. up[d] = relay[d]
          BY ZenonT(60), <5>1 DEF TagsCurrent
        <5>3. [saw[c] EXCEPT !.tag = up[d]].tag = up[d]
          BY ZenonT(60), <1>t DEF Readings
        <5> QED BY ZenonT(60), <1>t, <5>1, <5>2, <5>3
      <4> QED BY ZenonT(60), <1>1, <3>1, <4>1 DEF InHand
    <3>2. CASE b # c
      BY ZenonT(60), <1>1, <1>4, <1>t, <3>2 DEF InHand, ReadTag, Move
    <3> QED BY ZenonT(60), <3>1, <3>2
  <2> QED BY ZenonT(60), <1>1, <1>2, <2>1, <2>2, OneStaleKept
<1>5. CASE ~Enqueue(c) /\ ~ReadTag(c)
  <2>1. queue' = queue
    BY ZenonT(60), <1>5 DEF Transmit, Ask, Send, Poll, Register, Recheck, Wakened, SendDirect,
       ReadUp, NoteOutcome
  <2>2. at'[b] = "queue" => at[b] = "queue" /\ saw'[b] = saw[b]
    BY ZenonT(60), <1>5, <1>t DEF Transmit, Ask, Send, Poll, Register, Recheck, Wakened,
       SendDirect, ReadUp, NoteOutcome, Move
  <2>3. InHand(d, b)' => InHand(d, b)
    BY ZenonT(60), <1>1, <2>2 DEF InHand
  <2> QED BY ZenonT(60), <1>1, <1>2, <2>1, <2>3, OneStaleKept
<1> QED BY ZenonT(60), <1>3, <1>4, <1>5

\* With any number of connections, relays and drivers and any bound of the queue,
\* the drain before Up leaves at most one frame of each connection tagged for the
\* previous relay: the one its try_send had computed before (RelayDriver::try_send
\* reads the status, the tag and the queue one after the other).
THEOREM StaleFramesCorrect == Spec => []StaleFramesBounded
<1> DEFINE Inv == TagMode => TagsCurrent
<1>1. Init => Inv
  BY ZenonT(60) DEF Init, TagsCurrent
<1>2. TypeOK /\ Inv /\ [Next]_vars => Inv'
  <2> SUFFICES ASSUME TypeOK, TagMode, TagsCurrent, [Next]_vars PROVE TagsCurrent'
    BY ZenonT(60)
  <2>1. CASE UNCHANGED vars
    <3>1. UNCHANGED <<pc, relay, up, queue, at, saw>>
      BY ZenonT(60), <2>1 DEF vars
    <3>2. \A d \in Driver, c \in Conn : InHand(d, c)' => InHand(d, c)
      BY ZenonT(60), <3>1 DEF InHand
    <3>3. \A d \in Driver, c \in Conn : OneStale(d, c) => OneStale(d, c)'
      BY ZenonT(60), <3>1, <3>2, OneStaleKept
    <3> QED BY ZenonT(60), <3>1, <3>3 DEF TagsCurrent
  <2> QED BY ZenonT(60), <2>1, DriverTags, ConnTags DEF Next
<1>3. Inv => StaleFramesBounded
  <2> SUFFICES ASSUME TagMode, TagsCurrent, NEW d \in Driver, NEW c \in Conn,
                      pc[d] \in {"announced", "pump", "writing"}
               PROVE  Cardinality(Stale(d, c)) <= 1
    BY ZenonT(60) DEF StaleFramesBounded
  <2>1. \A i, j \in Stale(d, c) : i = j
    BY ZenonT(60) DEF TagsCurrent, OneStale
  <2>2. Stale(d, c) = {} \/ \E i : Stale(d, c) = {i}
    BY ZenonT(60), <2>1
  <2>3. Cardinality(Stale(d, c)) \in {0, 1}
    <3>1. CASE Stale(d, c) = {}
      BY ZenonT(60), <3>1, FS_EmptySet
    <3>2. ASSUME NEW i, Stale(d, c) = {i} PROVE Cardinality(Stale(d, c)) = 1
      BY ZenonT(60), <3>2, FS_Singleton
    <3> QED BY ZenonT(60), <2>2, <3>1, <3>2
  <2> QED BY <2>3
<1> QED BY <1>1, <1>2, <1>3, TypeCorrect, PTL DEF Spec
====
