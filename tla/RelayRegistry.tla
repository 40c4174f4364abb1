---------------------------- MODULE RelayRegistry ----------------------------
(***************************************************************************)
(* The relay of crates/link-relay: the accept loop and its two caps, the   *)
(* shared Registry (identity sessions and tag sessions) and the task that  *)
(* serves one connection, from accept to the release of its slot.          *)
(*                                                                         *)
(* A connection is an element of Conn and is used once.  Its task is the   *)
(* value phase[c]:                                                         *)
(*   new        not connected yet                                          *)
(*   refused    dropped by the accept loop at a cap                        *)
(*   accepted   inside serve_session, in the TLS and WebSocket handshakes  *)
(*   challenged the challenge is out, the first frame is awaited           *)
(*   admitting  the first frame arrived and a session id was allocated     *)
(*   up         registered, in the select loop                             *)
(*   leaving    out of the loop, the cleanup not yet run                   *)
(*   gone       serve_session returned, the slot still counted             *)
(*   closed     the slot was released                                      *)
(* Every step is what one task does between two points where another task  *)
(* can run: an await, or the release of the registry lock.  A datagram is  *)
(* the kind of frame that carries it; byte budgets and idle clocks are     *)
(* nondeterministic.                                                       *)
(***************************************************************************)
EXTENDS Naturals, FiniteSets, Sequences

CONSTANTS
  Conn,          \* connections that may ever be made
  Node,          \* node ids an identity session can prove
  Tag,           \* rendezvous tags
  Source,        \* source addresses
  MaxSessions,   \* RelayConfig.max_sessions
  MaxPerSource,  \* RelayConfig.max_sessions_per_source, 0 for no cap
  QueueCap,      \* MAX_QUEUED_FRAMES
  NoConn,        \* no session registered
  NoNode         \* not an identity session

ASSUME ConnAssumption == IsFiniteSet(Conn) /\ NoConn \notin Conn
ASSUME NodeAssumption == NoNode \notin Node
ASSUME CapAssumption ==
  MaxSessions \in Nat /\ MaxPerSource \in Nat /\ QueueCap \in Nat \ {0}

VARIABLES
  phase,      \* the task of each connection
  source,     \* its source address
  sid,        \* its session id, 0 before one is allocated
  nextId,     \* NEXT_SESSION_ID
  node,       \* Mode::Identity(node_id)
  held,       \* Mode::Tags(current): the task's own record of its tags
  sessions,   \* Registry.sessions
  tags,       \* Registry.tags
  queue,      \* the bounded outbound queue of each connection
  writing,    \* what its task is blocked writing to the WebSocket
  route,      \* queues looked up under the lock and not yet sent to
  live,       \* Registry.live
  bySource,   \* Registry.by_source, 0 for no entry
  stopped,    \* the stop watch channel
  listening   \* the accept loop is running

task == <<phase, source, sid, nextId, node, held, writing, route>>
registry == <<sessions, tags, queue>>
slots == <<live, bySource>>
vars == <<phase, source, sid, nextId, node, held, sessions, tags, queue,
          writing, route, live, bySource, stopped, listening>>

Phases == {"new", "refused", "accepted", "challenged", "admitting", "up",
           "leaving", "gone", "closed"}
Frames == {"recv", "recvTag", "close"}

\* A tag names one pair.
TAG_ENDS == 2

\* Connections counted in Registry.live: from accept to the release of the slot.
Counted == {c \in Conn : phase[c] \in {"accepted", "challenged", "admitting",
                                       "up", "leaving", "gone"}}
CountedFrom(s) == {c \in Counted : source[c] = s}

Init ==
  /\ phase = [c \in Conn |-> "new"]
  /\ source \in [Conn -> Source]
  /\ sid = [c \in Conn |-> 0]
  /\ nextId = 1
  /\ node = [c \in Conn |-> NoNode]
  /\ held = [c \in Conn |-> {}]
  /\ sessions = [n \in Node |-> NoConn]
  /\ tags = [t \in Tag |-> {}]
  /\ queue = [c \in Conn |-> <<>>]
  /\ writing = [c \in Conn |-> "none"]
  /\ route = [c \in Conn |-> {}]
  /\ live = 0
  /\ bySource = [s \in Source |-> 0]
  /\ stopped = FALSE
  /\ listening = TRUE

-----------------------------------------------------------------------------
(* The accept loop.                                                        *)

BelowCaps(s) ==
  /\ live < MaxSessions
  /\ MaxPerSource > 0 => bySource[s] < MaxPerSource

Accept(c) ==
  /\ listening
  /\ phase[c] = "new"
  /\ BelowCaps(source[c])
  /\ phase' = [phase EXCEPT ![c] = "accepted"]
  /\ live' = live + 1
  /\ bySource' = [bySource EXCEPT ![source[c]] = @ + 1]
  /\ UNCHANGED <<source, sid, nextId, node, held, writing, route, registry,
                 stopped, listening>>

Refuse(c) ==
  /\ listening
  /\ phase[c] = "new"
  /\ ~BelowCaps(source[c])
  /\ phase' = [phase EXCEPT ![c] = "refused"]
  /\ UNCHANGED <<source, sid, nextId, node, held, writing, route, registry,
                 slots, stopped, listening>>

\* After serve_session returned, whatever its result.
ReleaseSlot(c) ==
  /\ phase[c] = "gone"
  /\ phase' = [phase EXCEPT ![c] = "closed"]
  /\ live' = live - 1
  /\ bySource' = [bySource EXCEPT ![source[c]] = @ - 1]
  /\ UNCHANGED <<source, sid, nextId, node, held, writing, route, registry,
                 stopped, listening>>

\* RelayHandle::shutdown.
Shutdown ==
  /\ ~stopped
  /\ stopped' = TRUE
  /\ UNCHANGED <<task, registry, slots, listening>>

\* The accept loop sees the stop signal in its select.
StopListening ==
  /\ stopped
  /\ listening
  /\ listening' = FALSE
  /\ UNCHANGED <<task, registry, slots, stopped>>

-----------------------------------------------------------------------------
(* First contact.                                                          *)

\* The handshakes finish and the challenge is sent.
Challenge(c) ==
  /\ phase[c] = "accepted"
  /\ phase' = [phase EXCEPT ![c] = "challenged"]
  /\ UNCHANGED <<source, sid, nextId, node, held, writing, route, registry,
                 slots, stopped, listening>>

HandshakeFails_LeaksSlot(c) ==
  /\ phase[c] = "accepted"
  /\ phase' = [phase EXCEPT ![c] = "closed"]
  /\ UNCHANGED <<source, sid, nextId, node, held, writing, route, registry,
                 slots, stopped, listening>>

\* A handshake fails; neither handshake has a timeout or watches for the stop.
HandshakeFails(c) ==
  /\ phase[c] = "accepted"
  /\ phase' = [phase EXCEPT ![c] = "gone"]
  /\ UNCHANGED <<source, sid, nextId, node, held, writing, route, registry,
                 slots, stopped, listening>>

\* Ten seconds pass, or the peer closes, before the first frame.
NoFirstFrame(c) ==
  /\ phase[c] = "challenged"
  /\ phase' = [phase EXCEPT ![c] = "gone"]
  /\ UNCHANGED <<source, sid, nextId, node, held, writing, route, registry,
                 slots, stopped, listening>>

\* A first frame arrives; the session id is taken before it is looked at.
FirstFrame(c) ==
  /\ phase[c] = "challenged"
  /\ phase' = [phase EXCEPT ![c] = "admitting"]
  /\ sid' = [sid EXCEPT ![c] = nextId]
  /\ nextId' = nextId + 1
  /\ UNCHANGED <<source, node, held, writing, route, registry, slots,
                 stopped, listening>>

\* A bounded mpsc try_send: lost on a full queue, and on one whose receiver
\* went with its session.  The sender ignores the result.
TrySend(d, frame) ==
  IF /\ phase[d] \in {"admitting", "up", "leaving"}
     /\ Len(queue[d]) < QueueCap
  THEN Append(queue[d], frame)
  ELSE queue[d]

\* An Auth frame whose signature verifies: newest wins, and the session it
\* displaces is sent a Close.  Both happen under the lock.
AdmitIdentity(c, n) ==
  /\ phase[c] = "admitting" /\ writing[c] = "none"
  /\ phase' = [phase EXCEPT ![c] = "up"]
  /\ node' = [node EXCEPT ![c] = n]
  /\ sessions' = [sessions EXCEPT ![n] = c]
  /\ queue' = IF sessions[n] = NoConn THEN queue
              ELSE [queue EXCEPT ![sessions[n]] = TrySend(sessions[n], "close")]
  /\ writing' = [writing EXCEPT ![c] = "frame"]
  /\ UNCHANGED <<source, sid, nextId, held, route, tags, slots, stopped,
                 listening>>

Oldest_Newest(S) == {c \in S : \A d \in S : sid[c] >= sid[d]}

Oldest(S) == {c \in S : \A d \in S : sid[c] <= sid[d]}

\* The holders of a tag once c has been added: past two ends the lowest
\* session id goes, which may be c itself.
WithHolder(S, c) ==
  LET all == S \cup {c} IN
  IF Cardinality(all) > TAG_ENDS THEN all \ Oldest(all) ELSE all

Registered_KeepsOld(c, next) ==
  [t \in Tag |-> IF t \in next THEN WithHolder(tags[t], c) ELSE tags[t]]

\* register_tags: the session leaves the tags of its current list and joins
\* those of next.
Registered(c, next) ==
  [t \in Tag |-> IF t \in next THEN WithHolder(tags[t], c)
                 ELSE IF t \in held[c] THEN tags[t] \ {c}
                 ELSE tags[t]]

Evicted_Untold(c, next) == {}

\* Sessions that lost a tag to the size rule when c registered next.  One
\* Close stands for one per lost tag: the session ends at the first.
Evicted(c, next) ==
  {d \in Conn : \E t \in next :
     d \in (tags[t] \cup {c}) \ WithHolder(tags[t], c)}

RegisterTags(c, next) ==
  /\ tags' = Registered(c, next)
  /\ held' = [held EXCEPT ![c] = next]
  /\ queue' = [d \in Conn |-> IF d \in Evicted(c, next)
                              THEN TrySend(d, "close") ELSE queue[d]]

\* A Register frame with at least one tag.
AdmitTags(c, next) ==
  /\ phase[c] = "admitting" /\ writing[c] = "none"
  /\ next # {}
  /\ RegisterTags(c, next)
  /\ phase' = [phase EXCEPT ![c] = "up"]
  /\ writing' = [writing EXCEPT ![c] = "frame"]
  /\ UNCHANGED <<source, sid, nextId, node, route, sessions, slots, stopped,
                 listening>>

\* A bad signature, an empty Register or any other first frame.
AdmitRefuses(c) ==
  /\ phase[c] = "admitting" /\ writing[c] = "none"
  /\ writing' = [writing EXCEPT ![c] = "last"]
  /\ UNCHANGED <<phase, source, sid, nextId, node, held, route, registry,
                 slots, stopped, listening>>

-----------------------------------------------------------------------------
(* The select loop of a registered session.                                *)

Selecting(c) == phase[c] = "up" /\ writing[c] = "none" /\ route[c] = {}

SeeStop_NoBreak(c) ==
  /\ Selecting(c)
  /\ stopped
  /\ writing' = [writing EXCEPT ![c] = "frame"]
  /\ UNCHANGED <<phase, source, sid, nextId, node, held, route, registry,
                 slots, stopped, listening>>

\* The arms that answer with a Close and leave: the stop signal, ...
SeeStop(c) ==
  /\ Selecting(c)
  /\ stopped
  /\ writing' = [writing EXCEPT ![c] = "last"]
  /\ UNCHANGED <<phase, source, sid, nextId, node, held, route, registry,
                 slots, stopped, listening>>

\* ... the idle check, a malformed frame, and one its mode does not allow.
CloseSession(c) ==
  /\ Selecting(c)
  /\ writing' = [writing EXCEPT ![c] = "last"]
  /\ UNCHANGED <<phase, source, sid, nextId, node, held, route, registry,
                 slots, stopped, listening>>

\* Ping, answered with a Pong.
AnswerPing(c) ==
  /\ Selecting(c)
  /\ writing' = [writing EXCEPT ![c] = "frame"]
  /\ UNCHANGED <<phase, source, sid, nextId, node, held, route, registry,
                 slots, stopped, listening>>

TakeOutbound_IgnoresClose(c) ==
  /\ Selecting(c)
  /\ queue[c] # <<>>
  /\ queue' = [queue EXCEPT ![c] = Tail(@)]
  /\ writing' = [writing EXCEPT ![c] = "frame"]
  /\ UNCHANGED <<phase, source, sid, nextId, node, held, route, sessions,
                 tags, slots, stopped, listening>>

\* rx.recv(): the task takes the next queued frame and writes it.
TakeOutbound(c) ==
  /\ Selecting(c)
  /\ queue[c] # <<>>
  /\ queue' = [queue EXCEPT ![c] = Tail(@)]
  /\ writing' = [writing EXCEPT ![c] = IF Head(queue[c]) = "close"
                                       THEN "close" ELSE "frame"]
  /\ UNCHANGED <<phase, source, sid, nextId, node, held, route, sessions,
                 tags, slots, stopped, listening>>

\* The write finishes.  After a Close the task leaves the loop, or returns
\* when it never entered it.
WriteDone(c) ==
  /\ writing[c] # "none"
  /\ writing' = [writing EXCEPT ![c] = "none"]
  /\ phase' = [phase EXCEPT ![c] = IF writing[c] = "frame" THEN @
                                   ELSE IF @ = "admitting" THEN "gone"
                                   ELSE "leaving"]
  /\ UNCHANGED <<source, sid, nextId, node, held, route, registry, slots,
                 stopped, listening>>

\* The write fails, and the error ends the session.
WriteFails(c) ==
  /\ writing[c] # "none"
  /\ writing' = [writing EXCEPT ![c] = "none"]
  /\ phase' = [phase EXCEPT ![c] = IF @ = "admitting" THEN "gone"
                                   ELSE "leaving"]
  /\ UNCHANGED <<source, sid, nextId, node, held, route, registry, slots,
                 stopped, listening>>

\* A Close from the client, the end of its stream, or a read error.
ClientLeaves(c) ==
  /\ Selecting(c)
  /\ phase' = [phase EXCEPT ![c] = "leaving"]
  /\ UNCHANGED <<source, sid, nextId, node, held, writing, route, registry,
                 slots, stopped, listening>>

\* Send on an identity session: look the destination up, release the lock.
LookUpNode(c, n) ==
  /\ Selecting(c)
  /\ node[c] # NoNode
  /\ sessions[n] # NoConn
  /\ route' = [route EXCEPT ![c] = {sessions[n]}]
  /\ UNCHANGED <<phase, source, sid, nextId, node, held, writing, registry,
                 slots, stopped, listening>>

\* SendTag on a tag session, which need not hold the tag itself.
TagTargets(c, t) == tags[t] \ {c}

LookUpTag(c, t) ==
  /\ Selecting(c)
  /\ node[c] = NoNode
  /\ TagTargets(c, t) # {}
  /\ route' = [route EXCEPT ![c] = TagTargets(c, t)]
  /\ UNCHANGED <<phase, source, sid, nextId, node, held, writing, registry,
                 slots, stopped, listening>>

\* The frame a session's datagrams arrive as.
Carrier(c) == IF node[c] # NoNode THEN "recv" ELSE "recvTag"

\* try_send to one of the queues looked up, after the lock was released.
Deliver(c, d) ==
  /\ d \in route[c]
  /\ route' = [route EXCEPT ![c] = @ \ {d}]
  /\ queue' = [queue EXCEPT ![d] = TrySend(d, Carrier(c))]
  /\ UNCHANGED <<phase, source, sid, nextId, node, held, writing, sessions,
                 tags, slots, stopped, listening>>

\* A later Register, which replaces the whole list and may be empty.
ReRegister(c, next) ==
  /\ Selecting(c)
  /\ node[c] = NoNode
  /\ RegisterTags(c, next)
  /\ UNCHANGED <<phase, source, sid, nextId, node, writing, route, sessions,
                 slots, stopped, listening>>

SameChannel_Unchecked(n, c) == TRUE

\* The cleanup every exit of the loop reaches.  An identity session removes
\* the entry only while it is its own (same_channel).
SameChannel(n, c) == sessions[n] = c

Cleanup(c) ==
  /\ phase[c] = "leaving"
  /\ phase' = [phase EXCEPT ![c] = "gone"]
  /\ sessions' = [n \in Node |-> IF node[c] = n /\ SameChannel(n, c)
                                 THEN NoConn ELSE sessions[n]]
  /\ tags' = Registered(c, {})
  /\ queue' = [queue EXCEPT ![c] = <<>>]
  /\ held' = [held EXCEPT ![c] = {}]
  /\ UNCHANGED <<source, sid, nextId, node, writing, route, slots, stopped,
                 listening>>

-----------------------------------------------------------------------------
\* The relay has shut down for good: nothing is left to run.
Down ==
  /\ stopped /\ ~listening
  /\ \A c \in Conn : phase[c] \in {"new", "refused", "closed"}
  /\ UNCHANGED vars

ConnStep(c) ==
  \/ Accept(c) \/ Refuse(c) \/ ReleaseSlot(c)
  \/ Challenge(c) \/ HandshakeFails(c) \/ NoFirstFrame(c) \/ FirstFrame(c)
  \/ \E n \in Node : AdmitIdentity(c, n)
  \/ \E next \in SUBSET Tag : AdmitTags(c, next)
  \/ AdmitRefuses(c)
  \/ SeeStop(c) \/ CloseSession(c) \/ AnswerPing(c)
  \/ TakeOutbound(c) \/ WriteDone(c) \/ WriteFails(c) \/ ClientLeaves(c)
  \/ \E n \in Node : LookUpNode(c, n)
  \/ \E t \in Tag : LookUpTag(c, t)
  \/ \E d \in Conn : Deliver(c, d)
  \/ \E next \in SUBSET Tag : ReRegister(c, next)
  \/ Cleanup(c)

Next == Shutdown \/ StopListening \/ Down \/ \E c \in Conn : ConnStep(c)

Spec == Init /\ [][Next]_vars

\* The relay's own tasks keep running.  tokio::select! picks a ready arm at
\* random, so an arm that is ready again and again is taken: strong fairness
\* for the two arms of the loop, weak fairness for steps nothing competes
\* with.  The first frame is bounded by its timeout.
RelayFairness ==
  /\ WF_vars(StopListening)
  /\ \A c \in Conn :
       /\ WF_vars(ReleaseSlot(c)) /\ WF_vars(Cleanup(c))
       /\ WF_vars(NoFirstFrame(c) \/ FirstFrame(c))
       /\ WF_vars(\/ AdmitRefuses(c) \/ \E n \in Node : AdmitIdentity(c, n)
                  \/ \E next \in SUBSET Tag : AdmitTags(c, next))
       /\ WF_vars(\E d \in Conn : Deliver(c, d))
       /\ SF_vars(SeeStop(c)) /\ SF_vars(TakeOutbound(c))

\* The peer, or its TCP stack, answers: handshakes and writes come to an end.
PeerFairness ==
  \A c \in Conn : /\ WF_vars(Challenge(c) \/ HandshakeFails(c))
                  /\ WF_vars(WriteDone(c) \/ WriteFails(c))

FairSpec == Spec /\ RelayFairness /\ PeerFairness

-----------------------------------------------------------------------------
(* Properties.                                                             *)

\* Every variable stays in its range; in particular no outbound queue passes
\* MAX_QUEUED_FRAMES, whatever the lookups and the registrations enqueue.
TypeOK ==
  /\ phase \in [Conn -> Phases]
  /\ source \in [Conn -> Source]
  /\ sid \in [Conn -> Nat]
  /\ nextId \in Nat
  /\ node \in [Conn -> Node \cup {NoNode}]
  /\ held \in [Conn -> SUBSET Tag]
  /\ sessions \in [Node -> Conn \cup {NoConn}]
  /\ tags \in [Tag -> SUBSET Conn]
  /\ queue \in [Conn -> Seq(Frames)]
  /\ \A c \in Conn : Len(queue[c]) <= QueueCap
  /\ writing \in [Conn -> {"none", "frame", "close", "last"}]
  /\ route \in [Conn -> SUBSET Conn]
  /\ live \in Nat
  /\ bySource \in [Source -> Nat]
  /\ stopped \in BOOLEAN
  /\ listening \in BOOLEAN

\* No ghost registration: whatever the registry names is a session whose task
\* is still to run the cleanup, and the task's own record (its node id, its
\* current tag list) covers the entry, so that cleanup will remove it.
NoGhost ==
  /\ \A n \in Node : sessions[n] # NoConn =>
       phase[sessions[n]] \in {"up", "leaving"} /\ node[sessions[n]] = n
  /\ \A t \in Tag : \A c \in tags[t] :
       phase[c] \in {"up", "leaving"} /\ t \in held[c] /\ node[c] = NoNode

\* A tag has at most two holders after every registration, however many
\* sessions present it, so one SendTag makes at most two copies.
TagNamesAPair ==
  /\ \A t \in Tag : Cardinality(tags[t]) <= TAG_ENDS
  /\ \A c \in Conn : Cardinality(route[c]) <= TAG_ENDS

\* live and by_source count exactly the connections inside serve_session or
\* about to be released, and neither cap is passed: no exit leaks or doubly
\* releases a slot.
SlotsAccounted ==
  /\ live = Cardinality(Counted)
  /\ live <= MaxSessions
  /\ \A s \in Source : /\ bySource[s] = Cardinality(CountedFrom(s))
                       /\ MaxPerSource > 0 => bySource[s] <= MaxPerSource

\* Identity and tag traffic never mix: a session is only ever queued the
\* frame of its own mode.  A client treats the other one as a lost session.
ModesApart ==
  \A c \in Conn : \A i \in 1..Len(queue[c]) :
    queue[c][i] = (IF node[c] # NoNode THEN "recv" ELSE "recvTag")
    \/ queue[c][i] = "close"

\* Newest wins in identity mode, as a rule on steps: a node id is taken only
\* by a session being admitted, and given up only by the session that has it;
\* the late cleanup of a displaced session never unseats its successor.
NewestWins ==
  [][\A n \in Node : sessions'[n] # sessions[n] =>
       IF sessions'[n] = NoConn
       THEN phase[sessions[n]] = "leaving" /\ phase'[sessions[n]] = "gone"
       ELSE phase[sessions'[n]] = "admitting"]_vars

\* A session that loses a tag it still claims loses it to two newer sessions.
OldestIsEvicted ==
  [][\A t \in Tag : \A c \in tags[t] :
       c \notin tags'[t] /\ t \in held'[c] =>
         /\ Cardinality(tags'[t]) = TAG_ENDS
         /\ \A d \in tags'[t] : sid[d] > sid[c]]_vars

\* The session in the loop lost a registration it believes it has.
Displaced(c) ==
  /\ phase[c] = "up"
  /\ \/ node[c] # NoNode /\ sessions[node[c]] # c
     \/ \E t \in held[c] : c \notin tags[t]

ToldToLeave(c) ==
  \/ \E i \in 1..Len(queue[c]) : queue[c][i] = "close"
  \/ writing[c] \in {"close", "last"}

\* A session that is displaced is told so in the same step unless its queue
\* is full at that instant.
ToldUnlessFull ==
  [][\A c \in Conn : Displaced(c)' /\ ~Displaced(c) =>
       ToldToLeave(c)' \/ Len(queue[c]) = QueueCap]_vars

\* A session with a Close queued leaves and its slot is released, even while
\* its client keeps it busy.
ToldEnds ==
  \A c \in Conn :
    (phase[c] = "up" /\ \E i \in 1..Len(queue[c]) : queue[c][i] = "close")
      ~> phase[c] = "closed"

\* RelayHandle::shutdown: "Stop accepting and close every live session."
ShutdownCompletes == stopped ~> (~listening /\ Counted = {})

\* The registry is coherent after every step of every session: types and queue
\* bounds (try_send), no registration without a session to clean it up
\* (serve_session's epilogue), at most two holders of a tag (register_tags), and
\* frames of the session's own mode only in its queue (the SendTag and Send
\* arms).
RegistryCoherent == TypeOK /\ NoGhost /\ TagNamesAPair /\ ModesApart

====
