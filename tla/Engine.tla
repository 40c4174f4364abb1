------------------------------- MODULE Engine -------------------------------
(***************************************************************************)
(* The engine an application embeds, crates/link-engine/src/lib.rs, with    *)
(* the relay pool its endpoint owns, crates/link-endpoint/src/relay_client. *)
(* Callers run its operations concurrently.  `inner` is its one async lock, *)
(* held through a dial; the stop signal is outside it.  What the endpoint  *)
(* promises is abstract: one session per peer, the newest wins; a dial may *)
(* succeed, fail or never answer.                                          *)
(***************************************************************************)
EXTENDS Naturals, FiniteSets

CONSTANTS
  Callers, Routes, Nodes, \* calls in flight, route ids, peers
  MaxSerial,              \* card serials are 1..MaxSerial
  MaxSessions,            \* sessions dialled
  MaxExtra,               \* MAX_EXTRA_DRIVERS
  MaxEvents,              \* calls made and session ends that come from outside
  None

ASSUME EngineBounds ==
  /\ MaxSerial \in Nat \ {0} /\ MaxSessions \in Nat \ {0} /\ MaxExtra \in Nat /\ MaxEvents \in Nat
  /\ None \notin Callers \cup Routes \cup Nodes

Sessions == 1..MaxSessions
NoSession == 0
Home == 0

VARIABLES
  inner,      \* the caller that holds the engine lock
  routes,     \* the route table
  stopped,    \* Inner::stopped
  signal,     \* the stop watch
  shutdown,   \* the caller that holds the shutdown lock
  paired,     \* nodes whose paired secret is in the rendezvous book
  session,    \* what became of session s, and its peer; "closed" when its path failed too
  call,       \* what each caller is doing
  permit,     \* the caller that holds the file reservation
  streams,    \* file stream drivers that have not ended
  driver,     \* the pool's home driver, and one per peer whose card has hints
  returned,   \* "stop" or "wipe" returned to some caller
  left        \* events still to come

table == <<routes, paired>>
files == <<permit, streams>>
stopping == <<stopped, signal, shutdown, returned>>
vars == <<inner, table, stopping, session, call, files, driver, left>>

Idle == [at |-> "idle", route |-> None, node |-> None, serial |-> 0, held |-> {}]
CallStates == {"idle", "dialling", "using", "streaming", "pairing", "paired", "install", "closing",
               "stop", "drain", "settle", "quiesce", "wipe"}
NoRoute == [node |-> None, serial |-> 0, session |-> NoSession]
Unused == [state |-> "none", node |-> None]

TypeOK ==
  /\ inner \in Callers \cup {None} /\ shutdown \in Callers \cup {None}
  /\ routes \in [Routes -> [node : Nodes \cup {None}, serial : 0..MaxSerial,
                            session : 0..MaxSessions]]
  /\ stopped \in BOOLEAN /\ signal \in BOOLEAN
  /\ paired \subseteq Nodes
  /\ session \in [Sessions -> [state : {"none", "up", "told", "closed"},
                               node : Nodes \cup {None}]]
  /\ call \in [Callers -> [at : CallStates, route : Routes \cup {None},
                           node : Nodes \cup {None}, serial : 0..MaxSerial,
                           held : SUBSET Sessions]]
  /\ permit \in Callers \cup {None} /\ streams \in Nat
  /\ driver \in [{Home} \cup Nodes -> {"none", "running", "told", "finished"}]
  /\ returned \in SUBSET {"stop", "wipe"} /\ left \in 0..MaxEvents

\* Engine::start with its configured routes; two ids may name one peer.
Init ==
  /\ routes \in [Routes -> {NoRoute} \cup {[NoRoute EXCEPT !.node = n, !.serial = 1] : n \in Nodes}]
  /\ paired = {routes[r].node : r \in Routes} \ {None}
  /\ inner = None /\ shutdown = None /\ stopped = FALSE /\ signal = FALSE /\ returned = {}
  /\ session = [s \in Sessions |-> Unused]
  /\ call = [c \in Callers |-> Idle]
  /\ permit = None /\ streams = 0 /\ left = MaxEvents
  /\ driver = [d \in {Home} \cup Nodes |-> IF d = Home THEN "running" ELSE "none"]

\* A step of a call in progress, or one more event.
GoesOn == UNCHANGED left
Happens == left > 0 /\ left' = left - 1

Installed(r) == routes[r].node # None
Live(s) == s # NoSession /\ session[s].state \in {"up", "told"}
Closed(held) == [s \in Sessions |-> IF s \in held THEN [session[s] EXCEPT !.state = "closed"]
                                    ELSE session[s]]
Goes(c, at) == call' = [call EXCEPT ![c].at = at]
Returns(c) == call' = [call EXCEPT ![c] = Idle]

(***************************************************************************)
(* The relay pool.  A peer whose card has relay hints gets a driver of its *)
(* own while there is room; home serves the rest.  close and driver_for    *)
(* hold the same lock, so each is one step.                                *)
(***************************************************************************)
Extra == {n \in Nodes : driver[n] # "none"}

DriverFor_Unchecked(n) ==
  IF driver[n] = "none" /\ Cardinality(Extra) < MaxExtra
  THEN driver' = [driver EXCEPT ![n] = "running"]
  ELSE UNCHANGED driver

DriverFor(n) ==
  IF driver[Home] = "running" /\ driver[n] = "none" /\ Cardinality(Extra) < MaxExtra
  THEN driver' = [driver EXCEPT ![n] = "running"]
  ELSE UNCHANGED driver

PoolClose ==
  driver' = [d \in DOMAIN driver |-> IF driver[d] = "running" THEN "told" ELSE driver[d]]

DriverEnds(d) ==
  /\ GoesOn /\ driver[d] = "told"
  /\ driver' = [driver EXCEPT ![d] = "finished"]
  /\ UNCHANGED <<inner, table, stopping, session, call, files>>

PoolClosed == \A d \in DOMAIN driver : driver[d] \in {"none", "finished"}

(***************************************************************************)
(* Calls that need a session: open_socket, request_json, and delete_route  *)
(* behind retire_route and finalize_route.                                 *)
(***************************************************************************)
CanDial == \E s \in Sessions : session[s] = Unused

\* The endpoint has one session per peer: connect takes the peer's slot, whose
\* older session is told, and the peer's relay driver.
TakesSlot(n) ==
  /\ DriverFor(n)
  /\ session' = [s \in Sessions |-> IF session[s] = [state |-> "up", node |-> n]
                                    THEN [state |-> "told", node |-> n] ELSE session[s]]

StartDial_Unlocked(c, r) ==
  /\ CanDial
  /\ call' = [call EXCEPT ![c] = [Idle EXCEPT !.at = "dialling", !.route = r]]
  /\ IF routes[r].node \in paired THEN TakesSlot(routes[r].node) ELSE UNCHANGED <<driver, session>>
  /\ UNCHANGED inner

\* connect first refuses a peer whose secret is not in the book.
StartDial(c, r) ==
  /\ CanDial
  /\ inner' = c
  /\ call' = [call EXCEPT ![c] = [Idle EXCEPT !.at = "dialling", !.route = r]]
  /\ IF routes[r].node \in paired THEN TakesSlot(routes[r].node) ELSE UNCHANGED <<driver, session>>

UseSession(c, s) ==
  /\ call' = [call EXCEPT ![c] = [Idle EXCEPT !.at = "using", !.held = {s}]]
  /\ UNCHANGED <<inner, driver, session>>

OpenSession(c, r) ==
  /\ Happens /\ call[c].at = "idle" /\ inner = None
  /\ ~stopped /\ Installed(r)
  /\ IF Live(routes[r].session) THEN UseSession(c, routes[r].session) ELSE StartDial(c, r)
  /\ UNCHANGED <<table, stopping, files>>

\* delete_route does not ask whether the cached session is closed.
DeleteRoute(c, r) ==
  /\ Happens /\ call[c].at = "idle" /\ inner = None
  /\ ~stopped /\ Installed(r)
  /\ IF routes[r].session # NoSession THEN UseSession(c, routes[r].session) ELSE StartDial(c, r)
  /\ UNCHANGED <<table, stopping, files>>

\* unless_stopped polls the signal first.
DialSucceeds(c) ==
  /\ GoesOn /\ call[c].at = "dialling" /\ ~signal
  /\ routes[call[c].route].node \in paired
  /\ \E s \in Sessions :
       /\ session[s] = Unused /\ \A t \in 1..(s - 1) : session[t] # Unused
       /\ session' = [session EXCEPT ![s] = [state |-> "up", node |-> routes[call[c].route].node]]
       /\ routes' = [routes EXCEPT ![call[c].route].session = s]
       /\ call' = [call EXCEPT ![c] = [Idle EXCEPT !.at = "using", !.held = {s}]]
  /\ inner' = None
  /\ UNCHANGED <<paired, stopping, files, driver>>

\* The dial fails, times out, or its caller is cancelled.
DialFails(c) ==
  /\ GoesOn /\ call[c].at = "dialling"
  /\ Returns(c) /\ inner' = None
  /\ UNCHANGED <<table, stopping, session, files, driver>>

DialGivesWay_Deaf(c) ==
  /\ GoesOn /\ call[c].at = "dialling" /\ signal /\ FALSE
  /\ Returns(c) /\ inner' = None
  /\ UNCHANGED <<table, stopping, session, files, driver>>

DialGivesWay(c) ==
  /\ GoesOn /\ call[c].at = "dialling" /\ signal
  /\ Returns(c) /\ inner' = None
  /\ UNCHANGED <<table, stopping, session, files, driver>>

\* The call ends: answered, failed, timed out or cancelled.
EndUse(c) ==
  /\ GoesOn /\ call[c].at \in {"using", "streaming"}
  /\ Returns(c)
  /\ permit' = IF permit = c THEN None ELSE permit
  /\ UNCHANGED <<inner, table, stopping, session, streams, driver>>

(***************************************************************************)
(* File requests.  The reservation's guard is shared by the caller and by  *)
(* the task that drives the stream; the gate reopens when both are gone.   *)
(***************************************************************************)
GateOpen_CallerOnly == permit = None
GateOpen == permit = None /\ streams = 0

ReserveFile(c) ==
  /\ Happens /\ call[c].at = "idle" /\ ~signal
  /\ GateOpen
  /\ permit' = c
  /\ UNCHANGED <<inner, table, stopping, session, call, streams, driver>>

DropPermit(c) ==
  /\ GoesOn /\ permit = c /\ call[c].at = "idle"
  /\ permit' = None
  /\ UNCHANGED <<inner, table, stopping, session, call, streams, driver>>

FileStream(c) ==
  /\ GoesOn /\ permit = c /\ call[c].at = "using" /\ ~signal
  /\ Goes(c, "streaming")
  /\ streams' = streams + 1
  /\ UNCHANGED <<inner, table, stopping, session, permit, driver>>

\* The connection ends, its caller is gone, or the engine stops.
FileStreamEnds ==
  /\ GoesOn /\ streams > 0
  /\ streams' = streams - 1
  /\ UNCHANGED <<inner, table, stopping, session, call, permit, driver>>

(***************************************************************************)
(* Changes of the route table.  The session a change displaces is closed   *)
(* after the lock is released.                                             *)
(***************************************************************************)
Displaces(c, r) ==
  call' = [call EXCEPT ![c] = IF routes[r].session = NoSession THEN Idle
                              ELSE [Idle EXCEPT !.at = "closing", !.held = {routes[r].session}]]

Sets(r, n, serial) ==
  routes' = [routes EXCEPT ![r] = [node |-> n, serial |-> serial, session |-> NoSession]]

UpsertRoute_KeepsOldNode(c, r, n, serial) ==
  /\ Happens /\ call[c].at = "idle" /\ inner = None
  /\ ~stopped /\ (Installed(r) => serial > routes[r].serial)
  /\ paired' = paired \cup {n}
  /\ Sets(r, n, serial) /\ Displaces(c, r)
  /\ UNCHANGED <<inner, stopping, session, files, driver>>

UpsertRoute(c, r, n, serial) ==
  /\ Happens /\ call[c].at = "idle" /\ inner = None
  /\ ~stopped /\ (Installed(r) => serial > routes[r].serial)
  /\ paired' = (paired \ {routes[r].node}) \cup {n}
  /\ Sets(r, n, serial) /\ Displaces(c, r)
  /\ UNCHANGED <<inner, stopping, session, files, driver>>

RemoveRoute(c, r) ==
  /\ Happens /\ call[c].at = "idle" /\ inner = None
  /\ ~stopped /\ Installed(r)
  /\ paired' = paired \ {routes[r].node}
  /\ routes' = [routes EXCEPT ![r] = NoRoute] /\ Displaces(c, r)
  /\ UNCHANGED <<inner, stopping, session, files, driver>>

CloseDisplaced(c) ==
  /\ GoesOn /\ call[c].at = "closing"
  /\ session' = Closed(call[c].held)
  /\ Returns(c)
  /\ UNCHANGED <<inner, table, stopping, files, driver>>

\* pair_route: the check under the lock ...
PairRoute(c, r, n) ==
  /\ Happens /\ call[c].at = "idle" /\ inner = None
  /\ ~stopped /\ ~signal /\ routes[r].node \in {None, n}
  /\ call' = [call EXCEPT ![c] = [Idle EXCEPT !.at = "pairing", !.route = r, !.node = n]]
  /\ UNCHANGED <<inner, table, stopping, session, files, driver>>

\* ... connect_pairing outside it, which takes the peer's slot too; a poll that
\* began before the stop signal may still run ...
ConnectPairing(c) ==
  /\ GoesOn /\ call[c].at = "pairing"
  /\ Goes(c, "paired")
  /\ TakesSlot(call[c].node)
  /\ UNCHANGED <<inner, table, stopping, files>>

\* ... the server's answer with the card to keep, or an error or the signal ...
PairingAnswered(c, serial) ==
  /\ GoesOn /\ call[c].at = "paired" /\ ~signal
  /\ call' = [call EXCEPT ![c].at = "install", ![c].serial = serial]
  /\ UNCHANGED <<inner, table, stopping, session, files, driver>>

PairingFails(c) ==
  /\ GoesOn /\ call[c].at \in {"pairing", "paired"}
  /\ Returns(c)
  /\ UNCHANGED <<inner, table, stopping, session, files, driver>>

\* ... and the installation, under the lock again.
InstallPaired(c) ==
  /\ GoesOn /\ call[c].at = "install" /\ inner = None
  /\ LET r == call[c].route
         n == call[c].node IN
     IF ~stopped /\ routes[r].node \in {None, n} /\ call[c].serial >= routes[r].serial
     THEN /\ paired' = paired \cup {n}
          /\ Sets(r, n, call[c].serial) /\ Displaces(c, r)
     ELSE Returns(c) /\ UNCHANGED table
  /\ UNCHANGED <<inner, stopping, session, files, driver>>

(***************************************************************************)
(* stop and wipe: the signal, the shutdown lock, the sessions under the    *)
(* engine lock, then the sessions' and the endpoint's close.               *)
(***************************************************************************)
StopCall(c) ==
  /\ Happens /\ call[c].at = "idle"
  /\ signal' = TRUE
  /\ Goes(c, "stop")
  /\ UNCHANGED <<inner, table, stopped, shutdown, returned, session, files, driver>>

\* The caller waits for the shutdown lock, then for the engine lock.
TakeSessions(c) ==
  /\ GoesOn /\ call[c].at = "stop" /\ shutdown = None /\ inner = None
  /\ shutdown' = c /\ stopped' = TRUE
  /\ routes' = [r \in Routes |-> [routes[r] EXCEPT !.session = NoSession]]
  /\ call' = [call EXCEPT ![c].at = "drain", ![c].held = {routes[r].session : r \in Routes} \ {NoSession}]
  /\ UNCHANGED <<inner, paired, signal, returned, session, files, driver>>

\* The sessions' closes, then endpoint.close: the QUIC endpoint closes every
\* connection at once and is waited for, the relays still up to carry that, ...
CloseConnections(c) ==
  /\ GoesOn /\ call[c].at = "drain"
  /\ session' = Closed({s \in Sessions : session[s].state # "none"})
  /\ Goes(c, "settle")
  /\ UNCHANGED <<inner, table, stopping, files, driver>>

\* ... and then the pool.
ClosePool(c) ==
  /\ GoesOn /\ call[c].at = "settle"
  /\ PoolClose
  /\ Goes(c, "quiesce")
  /\ UNCHANGED <<inner, table, stopping, session, files>>

StopReturns(c) ==
  /\ GoesOn /\ call[c].at = "quiesce" /\ PoolClosed
  /\ shutdown' = None /\ returned' = returned \cup {"stop"}
  /\ \E at \in {"idle", "wipe"} : call' = [call EXCEPT ![c] = [Idle EXCEPT !.at = at]]
  /\ UNCHANGED <<inner, table, stopped, signal, session, files, driver>>

\* A stop future dropped at an await: inside endpoint.close its CloseRelays
\* guard closes the pool.
StopCancelled_NoGuard(c) ==
  /\ GoesOn /\ call[c].at \in {"stop", "drain", "settle", "quiesce"}
  /\ Returns(c)
  /\ shutdown' = IF shutdown = c THEN None ELSE shutdown
  /\ UNCHANGED <<inner, table, stopped, signal, returned, session, files, driver>>

StopCancelled(c) ==
  /\ GoesOn /\ call[c].at \in {"stop", "drain", "settle", "quiesce"}
  /\ IF call[c].at = "settle" THEN PoolClose ELSE UNCHANGED driver
  /\ Returns(c)
  /\ shutdown' = IF shutdown = c THEN None ELSE shutdown
  /\ UNCHANGED <<inner, table, stopped, signal, returned, session, files>>

WipeRoutes(c) ==
  /\ GoesOn /\ call[c].at = "wipe" /\ inner = None
  /\ paired' = paired \ {routes[r].node : r \in Routes}
  /\ routes' = [r \in Routes |-> NoRoute]
  /\ returned' = returned \cup {"wipe"}
  /\ Returns(c)
  /\ UNCHANGED <<inner, stopped, signal, shutdown, session, files, driver>>

(***************************************************************************)
(* The world: a session's path fails, its peer restarts, or a pairing took *)
(* its slot while it was dialled.  The drive task of a session that was    *)
(* told closes it.                                                         *)
(***************************************************************************)
SessionEnds(s) ==
  /\ Happens /\ Live(s)
  /\ session' = [session EXCEPT ![s].state = "closed"]
  /\ UNCHANGED <<inner, table, stopping, call, files, driver>>

SupersededCloses(s) ==
  /\ GoesOn /\ session[s].state = "told"
  /\ session' = [session EXCEPT ![s].state = "closed"]
  /\ UNCHANGED <<inner, table, stopping, call, files, driver>>

StopGoesOn(c) ==
  TakeSessions(c) \/ CloseConnections(c) \/ ClosePool(c) \/ StopReturns(c)

Step(c) ==
  \/ \E r \in Routes : \/ OpenSession(c, r) \/ DeleteRoute(c, r) \/ RemoveRoute(c, r)
                       \/ \E n \in Nodes : \/ PairRoute(c, r, n)
                                           \/ \E i \in 1..MaxSerial : UpsertRoute(c, r, n, i)
  \/ DialSucceeds(c) \/ DialFails(c) \/ DialGivesWay(c) \/ EndUse(c)
  \/ ReserveFile(c) \/ DropPermit(c) \/ FileStream(c)
  \/ CloseDisplaced(c) \/ ConnectPairing(c) \/ PairingFails(c) \/ InstallPaired(c)
  \/ \E i \in 1..MaxSerial : PairingAnswered(c, i)
  \/ StopCall(c) \/ StopGoesOn(c)
  \/ StopCancelled(c) \/ WipeRoutes(c)

Next ==
  \/ \E c \in Callers : Step(c)
  \/ FileStreamEnds
  \/ \E s \in Sessions : SessionEnds(s) \/ SupersededCloses(s)
  \/ \E d \in DOMAIN driver : DriverEnds(d)

Spec == Init /\ [][Next]_vars

\* A dial that sees the signal gives way; the shutdown and engine locks are
\* fair; a driver told to stop ends.  One caller dials at a time and a pool
\* told to close takes no driver, so fairness for some caller and for some
\* driver is enough.  Nothing makes a peer answer.
Fairness ==
  /\ \A c \in Callers : SF_vars(StopGoesOn(c))
  /\ WF_vars(\E c \in Callers : DialGivesWay(c))
  /\ WF_vars(\E d \in {Home} \cup Nodes : DriverEnds(d))
FairSpec == Spec /\ Fairness

(***************************************************************************)
(* Properties.                                                             *)
(***************************************************************************)

\* A paired secret is in the rendezvous book only for the node of an installed
\* route: no replacement, removal, pairing or wipe leaves one behind.
SecretsBacked == paired \subseteq {routes[r].node : r \in Routes}

\* A dial for a route never replaces a session of the route that is still up:
\* callers that find it missing at the same time share one dial, because the
\* engine lock is held from the check to the installation.
RouteCoalesces ==
  [][\A c \in Callers : DialSucceeds(c) => ~Live(routes[call[c].route].session)]_vars

\* At most one file stream is driven at a time, whoever gave up on an earlier
\* one: the driver keeps the reservation until its stream has ended.
OneFileStream == streams <= 1

\* An end is final under calls that were already past their checks: once a stop
\* has returned, every session is closed and none is cached and every relay
\* driver has finished; once a wipe has returned, no route and no paired secret
\* comes back, not even from a pairing that was answered before the stop
\* (Engine::stop, Engine::wipe, driver_for).
EndIsFinal ==
  /\ "stop" \in returned =>
       /\ \A s \in Sessions : ~Live(s)
       /\ \A r \in Routes : routes[r].session = NoSession
       /\ PoolClosed
  /\ "wipe" \in returned => paired = {} /\ \A r \in Routes : routes[r] = NoRoute

\* stop never waits behind a dial: it returns or is cancelled, though no peer
\* ever answers; and once it closes the endpoint every relay driver ends, also
\* when the stop is dropped there (Engine::stop, Endpoint::close).
StopEnds ==
  /\ \A c \in Callers : (call[c].at = "stop") ~> (call[c].at \in {"idle", "wipe"})
  /\ (\E c \in Callers : call[c].at = "settle") ~> PoolClosed

=============================================================================
