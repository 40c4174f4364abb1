------------------------------- MODULE Session -------------------------------
(***************************************************************************)
(* One session with a peer, crates/link-endpoint/src/session.rs: start,    *)
(* the state machine drive, the control stream with its writer and reader, *)
(* what the application asks of it, and the interface monitor of netmon.rs *)
(* that drive listens to.  Paths has the tables that sessions share (slot, *)
(* probe key, proofs); here they are the environment of one session.       *)
(*                                                                         *)
(* pc is where drive is:                                                   *)
(*   start    the handshake is over      spawned  the tasks are spawned    *)
(*   opening  control stream opening     first    subscribed, not sampled  *)
(*   select   waiting in its select      lagged   told that events are lost*)
(*   route    an arm has run             resub    on another relay driver  *)
(*   relay    relay_state is final       paths    the relay is up          *)
(*   ended    drive has returned                                           *)
(* Clocks: a turn may find any deadline passed or not.                     *)
(***************************************************************************)
EXTENDS Naturals, Sequences, FiniteSets

CONSTANTS
  Driver, Home,    \* the relay drivers the peer may be reached on
  EventCapacity,   \* EVENT_CAPACITY, of the broadcast channel of a driver
  ControlQueue,    \* CONTROL_QUEUE, of requests to the control writer
  HistoryCap,      \* HISTORY_CAP
  MaxEvents,       \* bound on what the environment does unprompted
  None

ASSUME CapsAssumption ==
  /\ EventCapacity \in Nat \ {0} /\ ControlQueue \in Nat \ {0}
  /\ HistoryCap \in Nat \ {0} /\ MaxEvents \in Nat
ASSUME HomeAssumption == Home \in Driver
RelayStatuses == {"Connecting", "Up", "Reconnecting", "Superseded", "Failed"}
ASSUME NoneAssumption == None \notin RelayStatuses /\ None \notin BOOLEAN

VARIABLES
  pc,
  status, history,             \* SessionInner.report; how much .history holds
  previous,                    \* previous_before_reconnect
  attemptNow,                  \* next_probe_attempt was set to now
  probeDue,                    \* last_probe_sent is reprove_due(), else a time
  reannounceAt,                \* reannounce_at is set
  driver, events, lagged,      \* the driver followed, the subscription to it
  relayState,                  \* relay_state
  route,                       \* Paths::relay_for(peer)
  relayNow,                    \* RelayDriver::status of each driver
  unsent,                      \* set in status by set_status, not yet in events
  probeNow,                    \* probe_now is PROBE_LOCAL or PROBE_PEER
  requests, writer, announced, \* control_tx, its task, the addresses last sent
  reader,                      \* the task that reads the peer's control stream
  conn,                        \* open, or why it is closed
  told,                        \* taken over; a permit is in superseded
  candidates, proof,           \* the peer listed some; none, stale or fresh
  ifaces, polled, netChanged,  \* addresses, monitor's last, not seen by drive
  allowDirect,
  left,                        \* events the environment has left
  sampled, losses,             \* observers: see LossesRecorded
  owed, refused                \* observers: see PunchAnswered, ChangeAnnounced

timers == <<attemptNow, probeDue, reannounceAt>>
relay == <<driver, events, lagged, relayState>>
drivers == <<route, relayNow, unsent>>
control == <<requests, writer, announced, reader>>
paths == <<candidates, proof>>
net == <<ifaces, polled, netChanged>>
report == <<status, history, previous>>
asks == <<probeNow, control>>
world == <<conn, told, paths, net, allowDirect>>
observers == <<sampled, losses, owed, refused>>
vars == <<pc, report, timers, relay, drivers, asks, world, left, observers>>

Path == INSTANCE PathStatus WITH resume <- previous

Init ==
  /\ pc = "start"
  /\ status = "Rendezvous" /\ history = [length |-> 1, lost |-> 0] /\ previous = "Relayed"
  /\ attemptNow = FALSE /\ probeDue = TRUE /\ reannounceAt = FALSE
  /\ route = Home /\ driver = Home /\ events = <<>> /\ lagged = FALSE
  /\ relayNow = [d \in Driver |-> "Up"] /\ unsent = [d \in Driver |-> None]
  /\ relayState = "Up"
  /\ probeNow = FALSE /\ requests = <<>> /\ writer = "none" /\ announced = None
  /\ reader = "first" /\ conn = "open" /\ told = FALSE
  /\ candidates = FALSE /\ proof = "none"
  /\ ifaces = FALSE /\ polled = FALSE /\ netChanged = FALSE
  /\ allowDirect \in BOOLEAN
  /\ left = MaxEvents
  /\ sampled = FALSE /\ losses = 0 /\ owed = FALSE /\ refused = FALSE

Returned == pc \notin {"start", "opening"}    \* start has given the session out
\* Something happens around the session, which matters until drive returns.
Happens == Returned /\ pc # "ended" /\ left > 0 /\ left' = left - 1

-----------------------------------------------------------------------------
(* Session::start and the first lines of drive.                            *)

\* SessionInner::transition: the same status again is no transition.
Transition(s) ==
  /\ status' = s
  /\ history' = IF s = status THEN history ELSE Path!Recorded(history, s)

Start ==
  /\ pc = "start"
  /\ pc' = "opening"
  /\ Transition("Relayed")
  /\ UNCHANGED <<previous, timers, relay, drivers, asks, world, left, observers>>

\* open_bi, then the tasks are spawned.  Nothing that happens meanwhile is seen
\* before drive and the control writer run.
OpenControl ==
  /\ pc = "opening"
  /\ pc' = "spawned"
  /\ writer' = "first"
  /\ UNCHANGED <<report, timers, relay, drivers, probeNow, requests, announced,
                 reader, world, left, observers>>

\* drive marks the monitor's generation as seen and subscribes to its driver.
Subscribe ==
  /\ pc = "spawned"
  /\ pc' = "first"
  /\ netChanged' = FALSE
  /\ driver' = route /\ events' = <<>> /\ lagged' = FALSE
  /\ UNCHANGED <<report, timers, relayState, drivers, asks, conn, told, paths, ifaces,
                 polled, allowDirect, left, observers>>

\* driver.status(): after subscribing, after a lag, after changing the driver.
\* sampled: the events alone no longer tell how the relay fared.
Sample ==
  /\ pc \in {"first", "lagged", "resub"}
  /\ pc' = CASE pc = "first" -> "select" [] pc = "lagged" -> "route"
             [] pc = "resub" -> "relay"
  /\ relayState' = relayNow[driver]
  /\ sampled' = (sampled \/ pc # "first" \/ relayNow[driver] # "Up"
                         \/ events # <<>> \/ unsent[driver] # None)
  /\ UNCHANGED <<report, timers, driver, events, lagged, drivers, asks, world, left,
                 losses, owed, refused>>

-----------------------------------------------------------------------------
(* The relay drivers, whose status changes as RelayDriver says, and the    *)
(* broadcast channel that drive reads.                                     *)

Down == {"Connecting", "Reconnecting"}
Becomes(s) == CASE s = "Connecting" -> {"Up", "Reconnecting", "Failed"}
                [] s = "Up" -> {"Reconnecting", "Superseded", "Failed"}
                [] s = "Reconnecting" -> {"Up", "Connecting", "Failed"}
                [] s = "Failed" -> {"Up", "Connecting"}   \* unless it was stopped
                [] s = "Superseded" -> {}
\* A driver that is down may come up or give up by itself.  RECONNECT_DEADLINE
\* makes one that reconnects do so; one that has no tag to register is idle in
\* Connecting and has no deadline.
Settles(s, t) == s \in Down /\ t \in {"Up", "Failed"}

\* set_status: first the watch channel, ...
SetStatus(d, t) ==
  /\ Returned /\ pc # "ended" /\ unsent[d] = None
  /\ t \in Becomes(relayNow[d])
  /\ IF Settles(relayNow[d], t) THEN UNCHANGED left ELSE Happens
  /\ relayNow' = [relayNow EXCEPT ![d] = t]
  /\ unsent' = [unsent EXCEPT ![d] = t]
  /\ UNCHANGED <<pc, report, timers, relay, route, asks, world, observers>>

Subscribed(d) == d = driver /\ pc \notin {"start", "opening", "spawned", "ended"}
LastKnown == IF events = <<>> THEN relayState ELSE events[Len(events)]

\* ... then the broadcast, which forgets its oldest event when it is full.
SendEvent(d) ==
  /\ unsent[d] # None
  /\ unsent' = [unsent EXCEPT ![d] = None]
  /\ IF Subscribed(d)
     THEN /\ events' = Append(IF Len(events) < EventCapacity THEN events
                              ELSE Tail(events), unsent[d])
          /\ lagged' = (lagged \/ Len(events) >= EventCapacity)
          /\ losses' = IF unsent[d] \in Down /\ LastKnown \notin Down
                       THEN losses + 1 ELSE losses
     ELSE UNCHANGED <<events, lagged, losses>>
  /\ UNCHANGED <<pc, report, timers, driver, relayState, route, relayNow, asks, world,
                 left, sampled, owed, refused>>

\* heard_on: the peer's datagrams arrive on another relay.
HeardOn(d) ==
  /\ Happens
  /\ route # d /\ route' = d
  /\ UNCHANGED <<pc, report, timers, relay, relayNow, unsent, asks, world, observers>>

-----------------------------------------------------------------------------
(* The arms of drive's select.                                             *)

ArmSuperseded_Lingers ==
  /\ pc = "select" /\ told
  /\ pc' = "route"
  /\ told' = FALSE
  /\ UNCHANGED conn
  /\ UNCHANGED <<report, timers, relay, drivers, asks, paths, net, allowDirect, left,
                 observers>>

ArmSuperseded ==
  /\ pc = "select" /\ told
  /\ pc' = "ended"
  /\ told' = FALSE
  /\ Transition("FailedSuperseded")
  /\ conn' = IF conn = "open" THEN "application" ELSE conn
  /\ UNCHANGED <<previous, timers, relay, drivers, asks, paths, net, allowDirect,
                 left, observers>>

\* A close by either application keeps the report as it is.
ArmClosed ==
  /\ pc = "select" /\ conn # "open"
  /\ pc' = "ended"
  /\ CASE conn = "timeout" -> Transition("FailedTimeout")
       [] conn = "other" -> Transition("FailedRelay")
       [] OTHER -> UNCHANGED <<status, history>>
  /\ UNCHANGED <<previous, timers, relay, drivers, asks, world, left, observers>>

\* recv: a lag is reported before the oldest event that is left.
ArmEvent ==
  /\ pc = "select" /\ events # <<>>
  /\ IF lagged
     THEN pc' = "lagged" /\ lagged' = FALSE /\ UNCHANGED <<events, relayState>>
     ELSE /\ pc' = "route" /\ relayState' = Head(events) /\ events' = Tail(events)
          /\ UNCHANGED lagged
  /\ UNCHANGED <<report, timers, driver, drivers, asks, world, left, observers>>

ArmNet ==
  /\ pc = "select" /\ netChanged
  /\ pc' = "route"
  /\ netChanged' = FALSE
  /\ reannounceAt' = TRUE
  /\ UNCHANGED <<report, attemptNow, probeDue, relay, drivers, asks, conn, told,
                 paths, ifaces, polled, allowDirect, left, observers>>

-----------------------------------------------------------------------------
(* The rest of a turn of drive, after an arm or on a tick, which is an arm  *)
(* that does nothing.                                                      *)

OnTurn == pc \in {"select", "route"}

Resubscribe_KeepsQueue ==
  /\ OnTurn /\ route # driver
  /\ pc' = "resub"
  /\ driver' = route
  /\ UNCHANGED <<report, timers, events, lagged, relayState, drivers, asks, world,
                 left, observers>>


\* The peer is reached on another driver: the subscription moves with it.
Resubscribe ==
  /\ OnTurn /\ route # driver
  /\ pc' = "resub"
  /\ driver' = route /\ events' = <<>> /\ lagged' = FALSE
  /\ UNCHANGED <<report, timers, relayState, drivers, asks, world, left, observers>>

\* The relay decides first.
RelayKnown == pc = "relay" \/ (OnTurn /\ route = driver)
RelayStays == RelayKnown /\ relayState = "Up" /\ status # "Reconnecting"

FollowRelay_BackToRelayed ==
  /\ RelayKnown /\ ~RelayStays
  /\ CASE relayState = "Superseded" ->
            /\ pc' = "ended" /\ Transition("FailedSuperseded") /\ UNCHANGED previous
       [] relayState = "Failed" ->
            /\ pc' = "ended" /\ Transition("FailedRelay") /\ UNCHANGED previous
       [] relayState \in Down ->
            /\ pc' = "select" /\ Transition("Reconnecting")
            /\ previous' = IF status = "Reconnecting" THEN previous ELSE status
       [] relayState = "Up" ->
            /\ pc' = "paths" /\ Transition("Relayed") /\ UNCHANGED previous
  /\ UNCHANGED <<timers, relay, drivers, asks, world, left, observers>>

FollowRelay ==
  /\ RelayKnown /\ ~RelayStays
  /\ CASE relayState = "Superseded" ->
            /\ pc' = "ended" /\ Transition("FailedSuperseded") /\ UNCHANGED previous
       [] relayState = "Failed" ->
            /\ pc' = "ended" /\ Transition("FailedRelay") /\ UNCHANGED previous
       [] relayState \in Down ->
            /\ pc' = "select" /\ Transition("Reconnecting")
            /\ previous' = IF status = "Reconnecting" THEN previous ELSE status
       [] relayState = "Up" ->
            /\ pc' = "paths" /\ Transition(previous) /\ UNCHANGED previous
  /\ UNCHANGED <<timers, relay, drivers, asks, world, left, observers>>

\* try_send on control_tx: refused when the queue is full or the writer, which
\* lives as long as the connection, is gone.
CanTake(q, n) == conn = "open" /\ Len(q) + n <= ControlQueue
TrySend(q, r) == IF CanTake(q, 1) THEN Append(q, r) ELSE q

\* A turn finds the re-announcement due or not, and takes probe_now.
TakeRequests(due) ==
  /\ due => reannounceAt
  /\ reannounceAt' = (reannounceAt /\ ~due)
  /\ requests' = IF due THEN TrySend(TrySend(requests, "Candidates"), "PunchNow")
                 ELSE requests
  /\ refused' = (refused \/ (due /\ ~CanTake(requests, 1)))
  /\ probeNow' = FALSE

\* send_probes, which answers whoever asked.
SendProbes == probeDue' = FALSE /\ owed' = FALSE
Quiet(asked) == probeDue' = (probeDue \/ asked) /\ owed' = (owed \/ asked)
\* Probes are sent again after a while: 500 ms in a round, 5 s when direct.
SendProbesAgain(asked) == SendProbes \/ (~probeDue /\ ~asked /\ Quiet(asked))

Relayed_OnlyWhenAsked(asked) ==
  /\ status = "Relayed"
  /\ \/ /\ proof = "fresh"
        /\ Transition("Direct") /\ Quiet(asked) /\ attemptNow' = (attemptNow \/ asked)
     \/ /\ proof # "fresh" /\ candidates /\ (attemptNow \/ asked)
        /\ Transition("Probing") /\ SendProbes /\ attemptNow' = (attemptNow \/ asked)
     \/ /\ proof # "fresh" /\ ~(candidates /\ (attemptNow \/ asked))
        /\ Quiet(asked) /\ attemptNow' = (attemptNow \/ asked)
        /\ UNCHANGED <<status, history>>
  /\ UNCHANGED proof

\* A round starts when next_probe_attempt has passed, at once if someone asked.
Relayed(asked) ==
  /\ status = "Relayed"
  /\ \/ /\ proof = "fresh"
        /\ Transition("Direct") /\ Quiet(asked) /\ attemptNow' = (attemptNow \/ asked)
     \/ /\ proof # "fresh" /\ candidates
        /\ Transition("Probing") /\ SendProbes /\ attemptNow' = (attemptNow \/ asked)
     \/ /\ proof # "fresh" /\ ~(candidates /\ (attemptNow \/ asked))
        /\ Quiet(asked) /\ attemptNow' = (attemptNow \/ asked)
        /\ UNCHANGED <<status, history>>
  /\ UNCHANGED proof

\* The end of a round starts the cooldown.
Probing(asked) ==
  /\ status = "Probing"
  /\ \/ /\ proof = "fresh"
        /\ Transition("Direct") /\ Quiet(asked) /\ attemptNow' = (attemptNow \/ asked)
     \/ /\ proof # "fresh"
        /\ SendProbesAgain(asked)
        /\ \/ UNCHANGED <<status, history>> /\ attemptNow' = (attemptNow \/ asked)
           \/ Transition("Relayed") /\ attemptNow' = FALSE
  /\ UNCHANGED proof

\* drop_direct has no effect for a session that was taken over.
Direct(asked) ==
  /\ status = "Direct"
  /\ IF proof = "fresh"
     THEN /\ SendProbesAgain(asked)
          /\ attemptNow' = (attemptNow \/ asked)
          /\ UNCHANGED <<status, history, proof>>
     ELSE /\ proof' = IF told THEN proof ELSE "none"
          /\ Quiet(asked) /\ attemptNow' = FALSE
          /\ Transition("Relayed")

FollowPaths ==
  /\ pc = "paths" \/ RelayStays
  /\ pc' = "select"
  /\ IF allowDirect
     THEN \E due \in BOOLEAN :
            /\ TakeRequests(due)
            /\ \/ Relayed(due \/ probeNow)
               \/ Probing(due \/ probeNow)
               \/ Direct(due \/ probeNow)
     ELSE UNCHANGED <<status, history, timers, requests, refused, probeNow, proof,
                      owed>>
  /\ UNCHANGED <<previous, relay, drivers, writer, announced, reader, conn, told,
                 candidates, net, allowDirect, left, sampled, losses>>

-----------------------------------------------------------------------------
(* The control stream.                                                     *)

\* control_initiator lists the addresses of now; none if direct is declined.
LocalCandidates == IF allowDirect THEN ifaces ELSE None

WriteFirst ==
  /\ writer = "first" /\ conn = "open"
  /\ writer' = "loop"
  /\ announced' = LocalCandidates
  /\ UNCHANGED <<pc, report, timers, relay, drivers, probeNow, requests, reader,
                 world, left, observers>>

WriteRequest_FirstList ==
  /\ writer = "loop" /\ conn = "open" /\ requests # <<>>
  /\ requests' = Tail(requests)
  /\ UNCHANGED <<pc, report, timers, relay, drivers, probeNow, writer, announced,
                 reader, world, left, observers>>

WriteRequest ==
  /\ writer = "loop" /\ conn = "open" /\ requests # <<>>
  /\ requests' = Tail(requests)
  /\ announced' = IF Head(requests) = "Candidates" THEN LocalCandidates ELSE announced
  /\ UNCHANGED <<pc, report, timers, relay, drivers, probeNow, writer, reader, world,
                 left, observers>>

\* accept_loop gives the first stream of the peer to control_acceptor, which
\* reads a list, and then lists, punch-nows, or what it cannot make sense of.
ReadCandidates(listed) ==
  /\ Returned /\ reader # "stopped" /\ conn = "open"
  /\ IF reader = "first" THEN pc # "ended" /\ UNCHANGED left ELSE Happens
  /\ reader' = "reading"
  /\ candidates' = listed
  /\ UNCHANGED <<pc, report, timers, relay, drivers, probeNow, requests, writer,
                 announced, conn, told, proof, net, allowDirect, observers>>

ReadPunchNow ==
  /\ reader = "reading" /\ conn = "open"
  /\ Happens
  /\ probeNow' = TRUE /\ owed' = TRUE
  /\ UNCHANGED <<pc, report, timers, relay, drivers, control, world, sampled, losses,
                 refused>>

ReadGarbage ==
  /\ reader = "reading" /\ conn = "open"
  /\ Happens
  /\ reader' = "stopped"
  /\ UNCHANGED <<pc, report, timers, relay, drivers, probeNow, requests, writer,
                 announced, world, observers>>

-----------------------------------------------------------------------------
(* The application, the peer, the network and the clock.                   *)

RequestDirect ==
  /\ Happens
  /\ probeNow' = TRUE /\ owed' = TRUE
  /\ requests' = TrySend(requests, "PunchNow")
  /\ UNCHANGED <<pc, report, timers, relay, drivers, writer, announced, reader, world,
                 sampled, losses, refused>>

Reannounce ==
  /\ Happens
  /\ probeNow' = TRUE /\ owed' = TRUE
  /\ requests' = TrySend(TrySend(requests, "Candidates"), "PunchNow")
  /\ UNCHANGED <<pc, report, timers, relay, drivers, writer, announced, reader, world,
                 sampled, losses, refused>>

\* Nothing that is sent reaches the peer, and the driver is idle, without a
\* deadline: only QUIC's idle timeout ends this when no other event is left.
Stranded == relayNow[route] = "Connecting" /\ proof # "fresh" /\ left = 0

\* Session::close here or at the peer (application), the idle timeout, any
\* other error.
Close(reason) ==
  /\ conn = "open"
  /\ IF reason = "timeout" /\ Stranded THEN Returned /\ pc # "ended" /\ UNCHANGED left
     ELSE Happens
  /\ conn' = reason
  /\ UNCHANGED <<pc, report, timers, relay, drivers, asks, told, paths, net,
                 allowDirect, observers>>

\* begin_session of a newer session with the same peer.
TakeOver ==
  /\ ~told /\ Happens
  /\ told' = TRUE
  /\ candidates' = FALSE /\ proof' = "none"
  /\ UNCHANGED <<pc, report, timers, relay, drivers, asks, conn, net, allowDirect,
                 observers>>

\* A pong proves an address of the peer, or proves it again.
Pong ==
  /\ allowDirect /\ proof # "fresh"
  /\ Happens
  /\ proof' = "fresh"
  /\ UNCHANGED <<pc, report, timers, relay, drivers, asks, conn, told, candidates,
                 net, allowDirect, observers>>

IfacesChange ==
  /\ Happens
  /\ ifaces' = ~ifaces
  /\ UNCHANGED <<pc, report, timers, relay, drivers, asks, conn, told, paths, polled,
                 netChanged, allowDirect, observers>>

\* NetMonitor: the generation advances when the set differs from the last one.
PollIfaces ==
  /\ pc # "ended" /\ ifaces # polled
  /\ polled' = ifaces /\ netChanged' = TRUE
  /\ UNCHANGED <<pc, report, timers, relay, drivers, asks, conn, told, paths, ifaces,
                 allowDirect, left, observers>>

\* The proof turns DIRECT_FRESH old.
ProofAges ==
  /\ pc # "ended" /\ proof = "fresh"
  /\ proof' = "stale"
  /\ UNCHANGED <<pc, report, timers, relay, drivers, asks, conn, told, candidates,
                 net, allowDirect, left, observers>>

-----------------------------------------------------------------------------
Setup == Start \/ OpenControl \/ Subscribe \/ Sample
Arm == ArmSuperseded \/ ArmClosed \/ ArmEvent \/ ArmNet
Turn == Resubscribe \/ FollowRelay \/ FollowPaths
Writer == WriteFirst \/ WriteRequest
Reader == ReadPunchNow \/ ReadGarbage \/ \E listed \in BOOLEAN : ReadCandidates(listed)
Relays == \E d \in Driver :
            HeardOn(d) \/ SendEvent(d) \/ \E t \in RelayStatuses : SetStatus(d, t)
Application == RequestDirect \/ Reannounce
Surroundings ==
  \/ \E reason \in {"application", "timeout", "other"} : Close(reason)
  \/ TakeOver \/ Pong \/ IfacesChange \/ PollIfaces \/ ProofAges

Next == Setup \/ Arm \/ Turn \/ Writer \/ Reader \/ Relays
        \/ Application \/ Surroundings

Spec == Init /\ [][Next]_vars

\* The runtime polls every task; a select takes a ready arm at random, so an
\* arm that stays ready is taken.  Deadlines pass, the monitor polls, a driver
\* that reconnects settles (RelayDriver), and the peer reads what is written.
\* A proof ages, no probes being sent to renew it once a late pong is in, and
\* QUIC gives up a peer it cannot reach.
Fairness ==
  /\ WF_vars(Setup) /\ WF_vars(Turn)
  /\ SF_vars(Arm)
  /\ WF_vars(Writer)
  /\ SF_vars(FollowPaths /\ status' = "Probing") /\ SF_vars(FollowPaths /\ ~reannounceAt')
  /\ WF_vars(PollIfaces)
  /\ WF_vars(ProofAges \/ (Stranded /\ Close("timeout")))
  /\ \A d \in Driver :
       /\ WF_vars(SendEvent(d))
       /\ WF_vars(relayNow[d] = "Reconnecting" /\ \E t \in {"Up", "Failed"} : SetStatus(d, t))
FairSpec == Spec /\ Fairness

-----------------------------------------------------------------------------
(* Properties.                                                             *)

Driving == pc \notin {"start", "opening", "spawned", "ended"}

TypeOK ==
  /\ pc \in {"start", "opening", "spawned", "first", "select", "lagged", "route",
             "resub", "relay", "paths", "ended"}
  /\ status \in Path!Statuses /\ history \in [length : 1..HistoryCap, lost : 0..HistoryCap]
  /\ previous \in Path!Working
  /\ attemptNow \in BOOLEAN
  /\ probeDue \in BOOLEAN
  /\ reannounceAt \in BOOLEAN
  /\ driver \in Driver /\ events \in Seq(RelayStatuses) /\ lagged \in BOOLEAN
  /\ relayState \in RelayStatuses
  /\ route \in Driver /\ relayNow \in [Driver -> RelayStatuses]
  /\ unsent \in [Driver -> RelayStatuses \cup {None}]
  /\ probeNow \in BOOLEAN
  /\ requests \in Seq({"Candidates", "PunchNow"})
  /\ writer \in {"none", "first", "loop"}
  /\ announced \in BOOLEAN \cup {None} /\ reader \in {"first", "reading", "stopped"}
  /\ conn \in {"open", "application", "timeout", "other"}
  /\ told \in BOOLEAN /\ candidates \in BOOLEAN /\ proof \in {"none", "stale", "fresh"}
  /\ ifaces \in BOOLEAN /\ polled \in BOOLEAN /\ netChanged \in BOOLEAN
  /\ allowDirect \in BOOLEAN /\ left \in 0..MaxEvents
  /\ sampled \in BOOLEAN /\ losses \in Nat /\ owed \in BOOLEAN /\ refused \in BOOLEAN

\* The session's report and its record are those PathStatus promises: moves of
\* the state machine one at a time, Reconnecting back to the very status it
\* was entered from, a failure final (transition, drive).
ReportsAsPromised == Path!Spec

\* Whatever was lost in the broadcast channel, and whichever driver is
\* followed, what drive still has to read ends at the status the driver has
\* now: a stale event is never the last word (the Lagged arm of drive, the
\* move of its subscription, set_status).
RelayStateCurrent ==
  Driving /\ pc \notin {"first", "lagged", "resub"} /\ unsent[driver] = None
    => LastKnown = relayNow[driver]

\* Unless the status had to be sampled, every loss of the relay session is a
\* Reconnecting in the record, however short it was: the losses sent so far
\* are those recorded and those drive has yet to act on (drive, history).
Lossy(i) == events[i] \in Down /\ (IF i = 1 THEN relayState ELSE events[i - 1]) \notin Down
LossesRecorded ==
  pc = "select" /\ ~sampled /\ ~lagged /\ history.length < HistoryCap
    => losses = history.lost + Cardinality({i \in DOMAIN events : Lossy(i)})


\* A session that was taken over ends (the superseded arm of drive).
TakenOverEnds == told ~> pc = "ended"

\* Whoever asks for a probing round gets probes, if the peer has listed
\* addresses and the session lives (probe_now, request_direct, punch-now).
PunchAnswered ==
  (owed /\ allowDirect /\ Driving) ~> (~owed \/ ~candidates \/ pc = "ended")

\* A change of the interfaces that drive is told of reaches the peer, unless
\* the queue to the control writer was full (net_generation, control_tx).
ChangeAnnounced ==
  (netChanged /\ allowDirect /\ Driving)
    ~> (announced = ifaces \/ refused \/ pc = "ended")

\* drive follows its relay driver: no stale event is the last word, and no loss
\* goes unrecorded (drive, set_status); and every variable stays in its range.
RelayFollowed == TypeOK /\ RelayStateCurrent /\ LossesRecorded

=============================================================================
