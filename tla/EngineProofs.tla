---------------------------- MODULE EngineProofs -----------------------------
(***************************************************************************)
(* What the engine keeps for any callers, routes, peers and sessions.      *)
(***************************************************************************)
EXTENDS Engine, TLAPS

CallSet == [at : CallStates, route : Routes \cup {None}, node : Nodes \cup {None},
            serial : 0..MaxSerial, held : SUBSET Sessions]
RouteSet == [node : Nodes \cup {None}, serial : 0..MaxSerial, session : 0..MaxSessions]
SessionSet == [state : {"none", "up", "told", "closed"}, node : Nodes \cup {None}]
DriverSet == [{Home} \cup Nodes -> {"none", "running", "told", "finished"}]

LEMMA Ranges ==
  /\ Sessions \subseteq Nat /\ 0..MaxSessions = Sessions \cup {0} /\ 0 \notin Sessions
  /\ 1..MaxSerial \subseteq 0..MaxSerial /\ 0 \in 0..MaxSerial
BY EngineBounds DEF Sessions

LEMMA IdleType == Idle \in CallSet
BY ZenonT(60), Ranges DEF Idle, CallSet, CallStates

\* A caller's record with another place, and with a session to use or close.
LEMMA CallAt ==
  ASSUME NEW q \in CallSet, NEW at \in CallStates
  PROVE  [q EXCEPT !.at = at] \in CallSet /\ [q EXCEPT !.at = at].at = at
BY ZenonT(60) DEF CallSet

LEMMA IdleAt ==
  ASSUME NEW at \in CallStates, NEW held \in SUBSET Sessions
  PROVE  /\ [Idle EXCEPT !.at = at, !.held = held] \in CallSet
         /\ [Idle EXCEPT !.at = at, !.held = held].at = at
BY ZenonT(60), IdleType DEF CallSet

LEMMA IdleFor ==
  ASSUME NEW at \in CallStates, NEW r \in Routes, NEW n \in Nodes \cup {None}
  PROVE  /\ [Idle EXCEPT !.at = at, !.route = r, !.node = n] \in CallSet
         /\ [Idle EXCEPT !.at = at, !.route = r] \in CallSet
         /\ [Idle EXCEPT !.at = at, !.route = r].route = r
         /\ [Idle EXCEPT !.at = at, !.route = r].at = at
         /\ [Idle EXCEPT !.at = at, !.route = r, !.node = n].at = at
BY ZenonT(60), IdleType DEF CallSet

\* One caller moves: the rest stay where they are.
Moved(c, q) ==
  /\ q \in CallSet
  /\ call' = [call EXCEPT ![c] = q]

LEMMA MovedFacts ==
  ASSUME TypeOK, NEW c \in Callers, NEW q, Moved(c, q)
  PROVE  /\ call' \in [Callers -> CallSet] /\ call'[c] = q
         /\ \A b \in Callers \ {c} : call'[b] = call[b]
BY ZenonT(60) DEF Moved, TypeOK, CallSet

LEMMA GoesMoved ==
  ASSUME TypeOK, NEW c \in Callers, NEW at \in CallStates, Goes(c, at)
  PROVE  Moved(c, [call[c] EXCEPT !.at = at]) /\ [call[c] EXCEPT !.at = at].at = at
<1>1. call[c] \in CallSet
  BY ZenonT(60) DEF TypeOK, CallSet
<1>2. [call[c] EXCEPT !.at = at] \in CallSet /\ [call[c] EXCEPT !.at = at].at = at
  BY ZenonT(60), <1>1, CallAt
<1> QED BY ZenonT(60), <1>2 DEF Goes, Moved

LEMMA ReturnsMoved == ASSUME NEW c, Returns(c) PROVE Moved(c, Idle)
BY ZenonT(60), IdleType DEF Returns, Moved

LEMMA DisplacesMoved ==
  ASSUME TypeOK, NEW c \in Callers, NEW r \in Routes, Displaces(c, r)
  PROVE  \E q : Moved(c, q) /\ q.at \in {"idle", "closing"}
<1> DEFINE q == IF routes[r].session = NoSession THEN Idle
                ELSE [Idle EXCEPT !.at = "closing", !.held = {routes[r].session}]
<1>1. routes[r].session # NoSession => {routes[r].session} \in SUBSET Sessions
  BY ZenonT(60), Ranges DEF TypeOK, NoSession
<1>2. q \in CallSet /\ q.at \in {"idle", "closing"}
  <2>1. CASE routes[r].session = NoSession
    BY ZenonT(60), <2>1, IdleType DEF Idle
  <2>2. CASE routes[r].session # NoSession
    <3>1. "closing" \in CallStates
      BY ZenonT(60) DEF CallStates
    <3> QED BY ZenonT(60), <1>1, <2>2, <3>1, IdleAt
  <2> QED BY ZenonT(60), <2>1, <2>2
<1>3. call' = [call EXCEPT ![c] = q]
  BY ZenonT(60) DEF Displaces
<1> QED BY ZenonT(60), <1>2, <1>3 DEF Moved

-----------------------------------------------------------------------------
(* What each operation does to the callers: one caller moves, from a place *)
(* to a place.                                                             *)
Moves(c, from, to) ==
  /\ call[c].at \in from
  /\ \E q : Moved(c, q) /\ q.at \in to

LEMMA MovesFacts ==
  ASSUME TypeOK, NEW c \in Callers, NEW from, NEW to, Moves(c, from, to)
  PROVE  /\ call' \in [Callers -> CallSet] /\ call[c].at \in from /\ call'[c].at \in to
         /\ \A b \in Callers \ {c} : call'[b] = call[b]
<1>1. PICK q : Moved(c, q) /\ q.at \in to
  BY ZenonT(60) DEF Moves
<1> QED BY ZenonT(60), <1>1, MovedFacts DEF Moves

LEMMA ReturnsMoves ==
  ASSUME NEW c, NEW from, call[c].at \in from, Returns(c) PROVE Moves(c, from, {"idle"})
BY ReturnsMoved DEF Moves, Idle

LEMMA GoesMoves ==
  ASSUME TypeOK, NEW c \in Callers, NEW from, call[c].at \in from, NEW at \in CallStates,
         Goes(c, at)
  PROVE  Moves(c, from, {at})
BY ZenonT(60), GoesMoved DEF Moves

LEMMA UseMoves ==
  ASSUME NEW c \in Callers, NEW from, call[c].at \in from, NEW s \in Sessions,
         call' = [call EXCEPT ![c] = [Idle EXCEPT !.at = "using", !.held = {s}]]
  PROVE  Moves(c, from, {"using"})
<1>1. /\ [Idle EXCEPT !.at = "using", !.held = {s}] \in CallSet
      /\ [Idle EXCEPT !.at = "using", !.held = {s}].at = "using"
  <2>1. "using" \in CallStates /\ {s} \in SUBSET Sessions
    BY ZenonT(60) DEF CallStates
  <2> QED BY ZenonT(60), <2>1, IdleAt
<1> QED BY ZenonT(60), <1>1 DEF Moves, Moved

LEMMA DialMoves ==
  ASSUME NEW c \in Callers, NEW r \in Routes, call[c].at = "idle", StartDial(c, r)
  PROVE  Moves(c, {"idle"}, {"dialling"})
<1>1. /\ [Idle EXCEPT !.at = "dialling", !.route = r] \in CallSet
      /\ [Idle EXCEPT !.at = "dialling", !.route = r].at = "dialling"
  <2>1. "dialling" \in CallStates
    BY ZenonT(60) DEF CallStates
  <2> QED BY ZenonT(60), <2>1, IdleFor
<1> QED BY ZenonT(60), <1>1 DEF Moves, Moved, StartDial

LEMMA SessionMoves ==
  ASSUME TypeOK, NEW c \in Callers, NEW r \in Routes, OpenSession(c, r) \/ DeleteRoute(c, r)
  PROVE  \/ /\ Moves(c, {"idle"}, {"using"}) /\ UNCHANGED <<inner, driver, session>>
         \/ /\ Moves(c, {"idle"}, {"dialling"}) /\ StartDial(c, r)
            /\ inner = None /\ ~Live(routes[r].session)
<1>0. call[c].at = "idle" /\ inner = None
  BY ZenonT(60) DEF OpenSession, DeleteRoute
<1>1. \/ UseSession(c, routes[r].session) /\ routes[r].session # NoSession
      \/ StartDial(c, r) /\ ~Live(routes[r].session)
  BY ZenonT(60) DEF OpenSession, DeleteRoute, Live
<1>2. CASE UseSession(c, routes[r].session) /\ routes[r].session # NoSession
  <2>1. routes[r].session \in Sessions
    BY ZenonT(60), <1>2, Ranges DEF TypeOK, NoSession
  <2> QED BY ZenonT(60), <1>0, <1>2, <2>1, UseMoves DEF UseSession
<1>3. CASE StartDial(c, r) /\ ~Live(routes[r].session)
  BY ZenonT(60), <1>0, <1>3, DialMoves
<1> QED BY ZenonT(60), <1>1, <1>2, <1>3

LEMMA TableMoves ==
  ASSUME TypeOK, NEW c \in Callers, NEW r \in Routes
  PROVE  /\ \A n \in Nodes, i \in 1..MaxSerial :
              UpsertRoute(c, r, n, i) => Moves(c, {"idle"}, {"idle", "closing"})
         /\ RemoveRoute(c, r) => Moves(c, {"idle"}, {"idle", "closing"})
         /\ \A n \in Nodes : PairRoute(c, r, n) => Moves(c, {"idle"}, {"pairing"})
<1>1. ASSUME call[c].at = "idle", Displaces(c, r) PROVE Moves(c, {"idle"}, {"idle", "closing"})
  BY ZenonT(60), <1>1, DisplacesMoved DEF Moves
<1>2. ASSUME NEW n \in Nodes, PairRoute(c, r, n) PROVE Moves(c, {"idle"}, {"pairing"})
  <2>1. "pairing" \in CallStates
    BY ZenonT(60) DEF CallStates
  <2>2. /\ [Idle EXCEPT !.at = "pairing", !.route = r, !.node = n] \in CallSet
        /\ [Idle EXCEPT !.at = "pairing", !.route = r, !.node = n].at = "pairing"
    BY ZenonT(60), <2>1, IdleFor
  <2> QED BY ZenonT(60), <1>2, <2>2 DEF PairRoute, Moves, Moved
<1> QED BY ZenonT(60), <1>1, <1>2 DEF UpsertRoute, RemoveRoute

LEMMA CallMoves ==
  ASSUME TypeOK, NEW c \in Callers
  PROVE  /\ DialSucceeds(c) => Moves(c, {"dialling"}, {"using"})
         /\ DialFails(c) \/ DialGivesWay(c) => Moves(c, {"dialling"}, {"idle"})
         /\ EndUse(c) => Moves(c, {"using", "streaming"}, {"idle"})
         /\ FileStream(c) => Moves(c, {"using"}, {"streaming"})
         /\ CloseDisplaced(c) => Moves(c, {"closing"}, {"idle"})
<1>1. DialSucceeds(c) => Moves(c, {"dialling"}, {"using"})
  BY ZenonT(60), UseMoves DEF DialSucceeds
<1>2. DialFails(c) \/ DialGivesWay(c) => Moves(c, {"dialling"}, {"idle"})
  BY ZenonT(60), ReturnsMoves DEF DialFails, DialGivesWay
<1>3. EndUse(c) => Moves(c, {"using", "streaming"}, {"idle"})
  BY ZenonT(60), ReturnsMoves DEF EndUse
<1>4. FileStream(c) => Moves(c, {"using"}, {"streaming"})
  BY ZenonT(60), GoesMoves DEF FileStream, CallStates
<1>5. CloseDisplaced(c) => Moves(c, {"closing"}, {"idle"})
  BY ZenonT(60), ReturnsMoves DEF CloseDisplaced
<1> QED BY ZenonT(60), <1>1, <1>2, <1>3, <1>4, <1>5

LEMMA PairingMoves ==
  ASSUME TypeOK, NEW c \in Callers
  PROVE  /\ ConnectPairing(c) => Moves(c, {"pairing"}, {"paired"})
         /\ \A i \in 1..MaxSerial : PairingAnswered(c, i) => Moves(c, {"paired"}, {"install"})
         /\ PairingFails(c) => Moves(c, {"pairing", "paired"}, {"idle"})
         /\ InstallPaired(c) /\ call[c].route \in Routes
              => Moves(c, {"install"}, {"idle", "closing"})
<1>1. ConnectPairing(c) => Moves(c, {"pairing"}, {"paired"})
  BY ZenonT(60), GoesMoves DEF ConnectPairing, CallStates
<1>2. ASSUME NEW i \in 1..MaxSerial, PairingAnswered(c, i)
      PROVE  Moves(c, {"paired"}, {"install"})
  <2> DEFINE q == [call[c] EXCEPT !.at = "install", !.serial = i]
  <2>1. call[c] \in CallSet /\ call \in [Callers -> CallSet]
    BY ZenonT(60) DEF TypeOK, CallSet
  <2>2. q \in CallSet /\ q.at = "install"
    BY ZenonT(60), <2>1, Ranges DEF CallSet, CallStates
  <2>3. call' = [call EXCEPT ![c] = q]
    BY ZenonT(60), <1>2, <2>1 DEF PairingAnswered
  <2> QED BY ZenonT(60), <1>2, <2>2, <2>3 DEF Moves, Moved, PairingAnswered
<1>3. PairingFails(c) => Moves(c, {"pairing", "paired"}, {"idle"})
  BY ZenonT(60), ReturnsMoves DEF PairingFails
<1>4. ASSUME InstallPaired(c), call[c].route \in Routes
      PROVE  Moves(c, {"install"}, {"idle", "closing"})
  <2>1. call[c].at = "install" /\ (Returns(c) \/ Displaces(c, call[c].route))
    BY ZenonT(60), <1>4 DEF InstallPaired
  <2>2. CASE Returns(c)
    BY <2>1, <2>2, ReturnsMoved DEF Moves, Idle
  <2>3. CASE Displaces(c, call[c].route)
    BY ZenonT(60), <1>4, <2>1, <2>3, DisplacesMoved DEF Moves
  <2> QED BY ZenonT(60), <2>1, <2>2, <2>3
<1> QED BY ZenonT(60), <1>1, <1>2, <1>3, <1>4

LEMMA StopMoves ==
  ASSUME TypeOK, NEW c \in Callers
  PROVE  /\ StopCall(c) => Moves(c, {"idle"}, {"stop"})
         /\ TakeSessions(c) => Moves(c, {"stop"}, {"drain"})
         /\ CloseConnections(c) => Moves(c, {"drain"}, {"settle"})
         /\ ClosePool(c) => Moves(c, {"settle"}, {"quiesce"})
         /\ StopReturns(c) => Moves(c, {"quiesce"}, {"idle", "wipe"})
         /\ StopCancelled(c) => Moves(c, {"stop", "drain", "settle", "quiesce"}, {"idle"})
         /\ WipeRoutes(c) => Moves(c, {"wipe"}, {"idle"})
<1>1. StopCall(c) => Moves(c, {"idle"}, {"stop"})
  BY ZenonT(60), GoesMoves DEF StopCall, CallStates
<1>2. ASSUME TakeSessions(c) PROVE Moves(c, {"stop"}, {"drain"})
  <2> DEFINE held == {routes[r].session : r \in Routes} \ {NoSession}
  <2> DEFINE q == [call[c] EXCEPT !.at = "drain", !.held = held]
  <2>1. call[c] \in CallSet /\ call \in [Callers -> CallSet]
    BY ZenonT(60) DEF TypeOK, CallSet
  <2>2. held \in SUBSET Sessions
    <3>1. \A r \in Routes : routes[r].session \in Sessions \cup {NoSession}
      BY ZenonT(60), Ranges DEF TypeOK, NoSession
    <3> QED BY ZenonT(60), <3>1
  <2>3. q \in CallSet /\ q.at = "drain"
    BY ZenonT(60), <2>1, <2>2 DEF CallSet, CallStates
  <2>4. call' = [call EXCEPT ![c] = q]
    BY ZenonT(60), <1>2, <2>1 DEF TakeSessions
  <2> QED BY ZenonT(60), <1>2, <2>3, <2>4 DEF Moves, Moved, TakeSessions
<1>3. /\ CloseConnections(c) => Moves(c, {"drain"}, {"settle"})
      /\ ClosePool(c) => Moves(c, {"settle"}, {"quiesce"})
  BY ZenonT(60), GoesMoves DEF CloseConnections, ClosePool, CallStates
<1>4. ASSUME StopReturns(c) PROVE Moves(c, {"quiesce"}, {"idle", "wipe"})
  <2>1. PICK at \in {"idle", "wipe"} : call' = [call EXCEPT ![c] = [Idle EXCEPT !.at = at]]
    BY ZenonT(60), <1>4 DEF StopReturns
  <2>2. [Idle EXCEPT !.at = at] \in CallSet /\ [Idle EXCEPT !.at = at].at = at
    <3>1. at \in CallStates
      BY ZenonT(60) DEF CallStates
    <3> QED BY ZenonT(60), <3>1, IdleType, CallAt
  <2> QED BY ZenonT(60), <1>4, <2>1, <2>2 DEF StopReturns, Moves, Moved
<1>5. StopCancelled(c) => Moves(c, {"stop", "drain", "settle", "quiesce"}, {"idle"})
  BY ZenonT(60), ReturnsMoves DEF StopCancelled
<1>6. WipeRoutes(c) => Moves(c, {"wipe"}, {"idle"})
  BY ZenonT(60), ReturnsMoves DEF WipeRoutes
<1> QED BY ZenonT(60), <1>1, <1>2, <1>3, <1>4, <1>5, <1>6

-----------------------------------------------------------------------------
(* The inductive invariant.                                                *)

\* A pairing names a route and a peer.
PairsNamed ==
  \A c \in Callers : call[c].at \in {"pairing", "paired", "install"} =>
    call[c].route \in Routes /\ call[c].node \in Nodes

Backed == paired \subseteq {routes[r].node : r \in Routes}

\* A reservation whose stream is driven is that of the caller it serves.
OneStream ==
  /\ streams \in {0, 1}
  /\ \A c \in Callers : permit = c /\ streams # 0 => call[c].at = "streaming"

\* A dial holds the engine lock, and its route has no session that is up.
DialsHold ==
  \A c \in Callers : call[c].at = "dialling" =>
    /\ inner = c /\ call[c].route \in Routes
    /\ ~Live(routes[call[c].route].session)

\* No session is up; and no relay driver runs.
Hushed == \A s \in Sessions : ~Live(s)
Quiet == /\ Hushed
         /\ \A d \in {Home} \cup Nodes : driver[d] # "running"

StopsHold ==
  /\ stopped => signal /\ \A r \in Routes : routes[r].session = NoSession
  /\ \A c \in Callers : /\ call[c].at \in {"stop", "drain", "settle", "quiesce"} => signal
                        /\ call[c].at \in {"drain", "settle", "quiesce", "wipe"} => stopped
                        /\ call[c].at = "settle" => Hushed
                        /\ call[c].at = "quiesce" => Quiet
  /\ "stop" \in returned => stopped /\ Quiet /\ PoolClosed
  /\ "wipe" \in returned => stopped /\ paired = {} /\ \A r \in Routes : routes[r] = NoRoute

EInv == TypeOK /\ PairsNamed /\ Backed /\ OneStream /\ DialsHold /\ StopsHold

\* Every caller stays or goes to one of the places in to.
Shift(to) == /\ call' \in [Callers -> CallSet]
             /\ \A b \in Callers : call'[b] = call[b] \/ call'[b].at \in to

LEMMA MovesShift ==
  ASSUME TypeOK, NEW c \in Callers, NEW from, NEW to, Moves(c, from, to) PROVE Shift(to)
BY ZenonT(60), MovesFacts DEF Shift

LEMMA NobodyMoves == ASSUME TypeOK, UNCHANGED call PROVE Shift({})
BY ZenonT(60) DEF Shift, TypeOK, CallSet

LEMMA PairsMove ==
  ASSUME TypeOK, PairsNamed, NEW c \in Callers, NEW from, NEW to, Moves(c, from, to),
         call'[c].at \in {"pairing", "paired", "install"} =>
           call'[c].route \in Routes /\ call'[c].node \in Nodes
  PROVE  PairsNamed'
BY ZenonT(60), MovesFacts DEF PairsNamed

LEMMA StreamMove ==
  ASSUME TypeOK, OneStream, NEW c \in Callers, NEW from, NEW to, Moves(c, from, to),
         "streaming" \notin from, UNCHANGED files
  PROVE  OneStream'
BY ZenonT(60), MovesFacts DEF OneStream, files

\* A step whose caller finds the engine lock free, or releases it, leaves no dial.
LEMMA NoDialMove ==
  ASSUME TypeOK, DialsHold, NEW c \in Callers, NEW from, NEW to, Moves(c, from, to),
         "dialling" \notin to, inner \in {None, c}
  PROVE  DialsHold'
<1>1. ASSUME NEW b \in Callers, call'[b].at = "dialling" PROVE FALSE
  <2>1. b # c /\ call[b].at = "dialling"
    BY <1>1, MovesFacts
  <2>2. inner = b
    BY ZenonT(60), <2>1 DEF DialsHold
  <2> QED BY ZenonT(60), <2>1, <2>2, EngineBounds
<1> QED BY ZenonT(60), <1>1 DEF DialsHold

LessLive == \A s \in Sessions :
              session'[s].state \in {"up", "told"} => session[s].state \in {"up", "told"}

\* A step of another kind leaves the dial in progress alone.
LEMMA DialKept ==
  ASSUME TypeOK, DialsHold, NEW to, Shift(to), "dialling" \notin to, LessLive,
         UNCHANGED <<inner, routes>>
  PROVE  DialsHold'
<1> SUFFICES ASSUME NEW b \in Callers, call'[b].at = "dialling"
             PROVE  /\ inner' = b /\ call'[b].route \in Routes
                    /\ ~Live(routes[call[b].route].session)'
  BY ZenonT(60) DEF DialsHold
<1>1. call'[b] = call[b]
  BY ZenonT(60) DEF Shift
<1>2. inner = b /\ call[b].route \in Routes /\ ~Live(routes[call[b].route].session)
  BY ZenonT(60), <1>1 DEF DialsHold
<1>3. routes[call[b].route].session \in Sessions \cup {NoSession}
  BY ZenonT(60), <1>2, Ranges DEF TypeOK, NoSession
<1> QED BY ZenonT(60), <1>1, <1>2, <1>3 DEF LessLive, Live, NoSession

\* The pool starts no driver once home has been told.
CalmPool ==
  /\ \A d \in {Home} \cup Nodes : driver'[d] = "running" =>
       driver[d] = "running" \/ driver[Home] = "running"
  /\ PoolClosed => PoolClosed'

LEMMA HushedKept == ASSUME Hushed, LessLive PROVE Hushed'
<1>1. \A s \in Sessions : s # NoSession
  BY ZenonT(60), Ranges DEF NoSession
<1> QED BY ZenonT(60), <1>1 DEF Hushed, Live, LessLive

LEMMA QuietKept == ASSUME Quiet, LessLive, CalmPool PROVE Quiet'
<1>1. \A d \in {Home} \cup Nodes : driver'[d] # "running"
  BY ZenonT(60) DEF Quiet, CalmPool
<1> QED BY ZenonT(60), <1>1, HushedKept DEF Quiet

\* A step that is not one of stop's own.
LEMMA StopsKept ==
  ASSUME TypeOK, StopsHold, NEW to, Shift(to),
         \A at \in {"stop", "drain", "settle", "quiesce", "wipe"} : at \notin to,
         UNCHANGED <<stopped, signal, returned>>, signal => LessLive, CalmPool,
         stopped => UNCHANGED table
  PROVE  StopsHold'
<1>1. \A b \in Callers : \/ call'[b].at \notin {"stop", "drain", "settle", "quiesce", "wipe"}
                         \/ call'[b] = call[b]
  BY ZenonT(60) DEF Shift
<1>2. stopped => signal
  BY ZenonT(60) DEF StopsHold
<1>3. (signal /\ Quiet => Quiet') /\ (signal /\ Hushed => Hushed')
  BY ZenonT(60), QuietKept, HushedKept
<1>4. stopped' => signal' /\ \A r \in Routes : routes'[r].session = NoSession
  BY ZenonT(60) DEF StopsHold, table
<1>5. ASSUME NEW b \in Callers
      PROVE  /\ call'[b].at \in {"stop", "drain", "settle", "quiesce"} => signal'
             /\ call'[b].at \in {"drain", "settle", "quiesce", "wipe"} => stopped'
             /\ call'[b].at = "settle" => Hushed'
             /\ call'[b].at = "quiesce" => Quiet'
  BY ZenonT(60), <1>1, <1>2, <1>3 DEF StopsHold
<1>6. "stop" \in returned' => stopped' /\ Quiet' /\ PoolClosed'
  BY ZenonT(60), <1>2, <1>3 DEF StopsHold, CalmPool
<1>7. "wipe" \in returned' => stopped' /\ paired' = {} /\ \A r \in Routes : routes'[r] = NoRoute
  BY ZenonT(60) DEF StopsHold, table
<1> QED BY ZenonT(60), <1>4, <1>5, <1>6, <1>7 DEF StopsHold

LEMMA DriverForCalm ==
  ASSUME TypeOK, NEW n \in Nodes \cup {None}, DriverFor(n)
  PROVE  CalmPool /\ driver' \in DriverSet
<1>1. driver \in DriverSet /\ DOMAIN driver = {Home} \cup Nodes
  BY ZenonT(60) DEF TypeOK, DriverSet
<1>2. CASE UNCHANGED driver
  BY ZenonT(60), <1>1, <1>2 DEF CalmPool, PoolClosed
<1>3. CASE driver[Home] = "running" /\ driver' = [driver EXCEPT ![n] = "running"]
  <2>1. ~PoolClosed
    BY ZenonT(60), <1>1, <1>3 DEF PoolClosed
  <2>2. driver' \in DriverSet
    BY ZenonT(60), <1>1, <1>3 DEF DriverSet
  <2> QED BY ZenonT(60), <1>3, <2>1, <2>2 DEF CalmPool
<1> QED BY ZenonT(60), <1>2, <1>3 DEF DriverFor

LEMMA PoolCloseCalm ==
  ASSUME TypeOK, PoolClose
  PROVE  /\ CalmPool /\ driver' \in DriverSet
         /\ \A d \in {Home} \cup Nodes : driver'[d] # "running"
<1>1. driver \in DriverSet /\ DOMAIN driver = {Home} \cup Nodes
  BY ZenonT(60) DEF TypeOK, DriverSet
<1>2. driver' = [d \in {Home} \cup Nodes |-> IF driver[d] = "running" THEN "told" ELSE driver[d]]
  BY ZenonT(60), <1>1 DEF PoolClose
<1>3. driver' \in DriverSet /\ DOMAIN driver' = {Home} \cup Nodes
  BY ZenonT(60), <1>1, <1>2 DEF DriverSet
<1> QED BY ZenonT(60), <1>1, <1>2, <1>3 DEF CalmPool, PoolClosed

LEMMA CalmSame == ASSUME UNCHANGED driver PROVE CalmPool
BY ZenonT(60) DEF CalmPool, PoolClosed

LEMMA ClosedLessLive ==
  ASSUME TypeOK, NEW held, session' = Closed(held)
  PROVE  LessLive /\ session' \in [Sessions -> SessionSet]
<1>1. session \in [Sessions -> SessionSet]
  BY ZenonT(60) DEF TypeOK, SessionSet
<1>2. \A s \in Sessions : \/ session'[s] = session[s]
                           \/ session'[s] = [session[s] EXCEPT !.state = "closed"]
  BY ZenonT(60) DEF Closed
<1>3. \A s \in Sessions : /\ [session[s] EXCEPT !.state = "closed"] \in SessionSet
                          /\ [session[s] EXCEPT !.state = "closed"].state = "closed"
  BY ZenonT(60), <1>1 DEF SessionSet
<1>4. session' = [s \in Sessions |-> session'[s]]
  BY ZenonT(60) DEF Closed
<1> QED BY ZenonT(60), <1>1, <1>2, <1>3, <1>4 DEF LessLive

\* Taking a peer's slot tells its session, which stays live until it closes.
LEMMA ToldLessLive ==
  ASSUME TypeOK, NEW n, TakesSlot(n)
  PROVE  LessLive /\ session' \in [Sessions -> SessionSet]
<1>1. session \in [Sessions -> SessionSet]
  BY ZenonT(60) DEF TypeOK, SessionSet
<1>2. ASSUME NEW s \in Sessions
      PROVE  session'[s] \in SessionSet
             /\ (session'[s].state \in {"up", "told"} => session[s].state \in {"up", "told"})
  <2>1. session[s] \in SessionSet
    BY ZenonT(60), <1>1
  <2>2. CASE session[s] = [state |-> "up", node |-> n]
    <3>1. session'[s] = [state |-> "told", node |-> n]
      BY ZenonT(60), <2>2 DEF TakesSlot
    <3>2. session[s].node \in Nodes \cup {None}
      BY ZenonT(60), <2>1 DEF SessionSet
    <3>3. session[s].node = n /\ session[s].state = "up"
      BY <2>2
    <3>4. [state |-> "told", node |-> n] \in SessionSet
      BY ZenonT(60), <3>2, <3>3 DEF SessionSet
    <3> QED BY ZenonT(60), <3>1, <3>3, <3>4
  <2>3. CASE session[s] # [state |-> "up", node |-> n]
    <3>1. session'[s] = session[s]
      BY ZenonT(60), <2>3 DEF TakesSlot
    <3> QED BY ZenonT(60), <2>1, <3>1
  <2> QED BY ZenonT(60), <2>2, <2>3
<1>3. session' = [s \in Sessions |-> session'[s]]
  BY ZenonT(60) DEF TakesSlot
<1> QED BY ZenonT(60), <1>2, <1>3 DEF LessLive

-----------------------------------------------------------------------------
(* Types.                                                                  *)

LEMMA RouteChange ==
  ASSUME TypeOK, NEW r \in Routes, NEW n \in Nodes \cup {None}, NEW i \in 0..MaxSerial
  PROVE  /\ NoRoute \in RouteSet /\ routes \in [Routes -> RouteSet]
         /\ [node |-> n, serial |-> i, session |-> NoSession] \in RouteSet
         /\ \A s \in Sessions \cup {NoSession} : [routes[r] EXCEPT !.session = s] \in RouteSet
<1>1. 0 \in 0..MaxSerial /\ NoSession \in 0..MaxSessions
  BY EngineBounds DEF NoSession
<1>2. routes \in [Routes -> RouteSet]
  BY ZenonT(60) DEF TypeOK, RouteSet
<1>3. NoRoute \in RouteSet /\ [node |-> n, serial |-> i, session |-> NoSession] \in RouteSet
  BY ZenonT(60), <1>1 DEF NoRoute, RouteSet
<1>4. \A s \in Sessions \cup {NoSession} : [routes[r] EXCEPT !.session = s] \in RouteSet
  <2>1. Sessions \cup {NoSession} = 0..MaxSessions
    BY ZenonT(60), Ranges DEF NoSession
  <2> QED BY ZenonT(60), <1>2, <2>1 DEF RouteSet
<1> QED BY ZenonT(60), <1>2, <1>3, <1>4

\* TypeOK from the parts a step changes.
LEMMA TypeFrom ==
  ASSUME TypeOK, GoesOn \/ Happens,
         call' \in [Callers -> CallSet], routes' \in [Routes -> RouteSet], paired' \subseteq Nodes,
         session' \in [Sessions -> SessionSet], driver' \in DriverSet,
         inner' \in Callers \cup {None}, shutdown' \in Callers \cup {None},
         stopped' \in BOOLEAN, signal' \in BOOLEAN, returned' \in SUBSET {"stop", "wipe"},
         permit' \in Callers \cup {None}, streams' \in Nat
  PROVE  TypeOK'
<1>1. left' \in 0..MaxEvents
  BY EngineBounds DEF TypeOK, GoesOn, Happens
<1> QED BY ZenonT(60), <1>1 DEF TypeOK, CallSet, RouteSet, SessionSet, DriverSet

LEMMA TypeParts ==
  ASSUME TypeOK
  PROVE  /\ call \in [Callers -> CallSet] /\ routes \in [Routes -> RouteSet] /\ paired \subseteq Nodes
         /\ session \in [Sessions -> SessionSet] /\ driver \in DriverSet
         /\ inner \in Callers \cup {None} /\ shutdown \in Callers \cup {None}
         /\ stopped \in BOOLEAN /\ signal \in BOOLEAN /\ returned \in SUBSET {"stop", "wipe"}
         /\ permit \in Callers \cup {None} /\ streams \in Nat
BY ZenonT(60) DEF TypeOK, CallSet, RouteSet, SessionSet, DriverSet

-----------------------------------------------------------------------------
(* The steps, one lemma per group of operations.                           *)

\* A step of a call that leaves the tables, the lock and the stop flags alone.
LEMMA PlainStep ==
  ASSUME EInv, GoesOn \/ Happens, NEW to, Shift(to), OneStream', PairsNamed',
         "dialling" \notin to, \A at \in {"stop", "drain", "settle", "quiesce", "wipe"} : at \notin to,
         UNCHANGED <<inner, table, stopped, signal, returned>>, shutdown' \in Callers \cup {None},
         LessLive, session' \in [Sessions -> SessionSet], CalmPool, driver' \in DriverSet,
         permit' \in Callers \cup {None}, streams' \in Nat
  PROVE  EInv'
<1>1. TypeOK /\ PairsNamed /\ Backed /\ OneStream /\ DialsHold /\ StopsHold
  BY ZenonT(60) DEF EInv
<1>2. UNCHANGED <<routes, paired>>
  BY ZenonT(60) DEF table
<1>3. call' \in [Callers -> CallSet]
  BY ZenonT(60) DEF Shift
<1>4. TypeOK'
  BY ZenonT(60), <1>1, <1>2, <1>3, TypeParts, TypeFrom
<1>5. DialsHold'
  BY ZenonT(60), <1>1, <1>2, DialKept
<1>6. StopsHold'
  BY ZenonT(60), <1>1, StopsKept
<1>7. Backed'
  BY ZenonT(60), <1>1, <1>2 DEF Backed
<1> QED BY ZenonT(60), <1>4, <1>5, <1>6, <1>7 DEF EInv

LEMMA SameSessions == ASSUME TypeOK, UNCHANGED session PROVE LessLive /\ session' \in [Sessions -> SessionSet]
BY ZenonT(60), TypeParts DEF LessLive

LEMMA SameDriver == ASSUME TypeOK, UNCHANGED driver PROVE CalmPool /\ driver' \in DriverSet
BY ZenonT(60), CalmSame, TypeParts

LEMMA PairsElse ==
  ASSUME TypeOK, PairsNamed, NEW c \in Callers, NEW from, NEW to, Moves(c, from, to),
         \A at \in {"pairing", "paired", "install"} : at \notin to
  PROVE  PairsNamed'
BY ZenonT(60), MovesFacts DEF PairsNamed

LEMMA EndUseStep == ASSUME EInv, NEW c \in Callers, EndUse(c) PROVE EInv'
<1>1. TypeOK /\ OneStream /\ PairsNamed
  BY ZenonT(60) DEF EInv
<1>2. Moves(c, {"using", "streaming"}, {"idle"})
  BY ZenonT(60), <1>1, CallMoves
<1>s. Shift({"idle"})
  BY ZenonT(60), <1>1, <1>2, MovesShift
<1>3. OneStream'
  BY ZenonT(60), <1>1, <1>2, MovesFacts, EngineBounds DEF OneStream, EndUse
<1>4. PairsNamed'
  BY ZenonT(60), <1>1, <1>2, PairsElse
<1>5. permit' \in Callers \cup {None} /\ streams' \in Nat
  BY ZenonT(60), <1>1, TypeParts DEF EndUse, files
<1>6. LessLive /\ session' \in [Sessions -> SessionSet]
  BY ZenonT(60), <1>1, SameSessions DEF EndUse
<1>7. CalmPool /\ driver' \in DriverSet
  BY ZenonT(60), <1>1, SameDriver DEF EndUse
<1>8. UNCHANGED <<inner, table, stopped, signal, returned>> /\ shutdown' \in Callers \cup {None}
  BY ZenonT(60), <1>1, TypeParts DEF EndUse, stopping
<1>9. GoesOn \/ Happens
  BY ZenonT(60) DEF EndUse
<1> QED BY ZenonT(60), <1>s, <1>3, <1>4, <1>5, <1>6, <1>7, <1>8, <1>9, PlainStep

LEMMA ReserveFileStep == ASSUME EInv, NEW c \in Callers, ReserveFile(c) PROVE EInv'
<1>1. TypeOK /\ OneStream /\ PairsNamed
  BY ZenonT(60) DEF EInv
<1>2. UNCHANGED call
  BY ZenonT(60), <1>1, Zenon DEF ReserveFile
<1>s. Shift({})
  BY ZenonT(60), <1>1, <1>2, NobodyMoves
<1>3. OneStream'
  BY ZenonT(60), <1>1, EngineBounds DEF OneStream, ReserveFile, GateOpen
<1>4. PairsNamed'
  BY ZenonT(60), <1>1, <1>2 DEF PairsNamed
<1>5. permit' \in Callers \cup {None} /\ streams' \in Nat
  BY ZenonT(60), <1>1, TypeParts DEF ReserveFile, files
<1>6. LessLive /\ session' \in [Sessions -> SessionSet]
  BY ZenonT(60), <1>1, SameSessions DEF ReserveFile
<1>7. CalmPool /\ driver' \in DriverSet
  BY ZenonT(60), <1>1, SameDriver DEF ReserveFile
<1>8. UNCHANGED <<inner, table, stopped, signal, returned>> /\ shutdown' \in Callers \cup {None}
  BY ZenonT(60), <1>1, TypeParts DEF ReserveFile, stopping
<1>9. GoesOn \/ Happens
  BY ZenonT(60) DEF ReserveFile
<1> QED BY ZenonT(60), <1>s, <1>3, <1>4, <1>5, <1>6, <1>7, <1>8, <1>9, PlainStep

LEMMA DropPermitStep == ASSUME EInv, NEW c \in Callers, DropPermit(c) PROVE EInv'
<1>1. TypeOK /\ OneStream /\ PairsNamed
  BY ZenonT(60) DEF EInv
<1>2. UNCHANGED call
  BY ZenonT(60), <1>1, Zenon DEF DropPermit
<1>s. Shift({})
  BY ZenonT(60), <1>1, <1>2, NobodyMoves
<1>3. OneStream'
  BY ZenonT(60), <1>1, EngineBounds DEF OneStream, DropPermit, GateOpen
<1>4. PairsNamed'
  BY ZenonT(60), <1>1, <1>2 DEF PairsNamed
<1>5. permit' \in Callers \cup {None} /\ streams' \in Nat
  BY ZenonT(60), <1>1, TypeParts DEF DropPermit, files
<1>6. LessLive /\ session' \in [Sessions -> SessionSet]
  BY ZenonT(60), <1>1, SameSessions DEF DropPermit
<1>7. CalmPool /\ driver' \in DriverSet
  BY ZenonT(60), <1>1, SameDriver DEF DropPermit
<1>8. UNCHANGED <<inner, table, stopped, signal, returned>> /\ shutdown' \in Callers \cup {None}
  BY ZenonT(60), <1>1, TypeParts DEF DropPermit, stopping
<1>9. GoesOn \/ Happens
  BY ZenonT(60) DEF DropPermit
<1> QED BY ZenonT(60), <1>s, <1>3, <1>4, <1>5, <1>6, <1>7, <1>8, <1>9, PlainStep

LEMMA FileStreamStep == ASSUME EInv, NEW c \in Callers, FileStream(c) PROVE EInv'
<1>1. TypeOK /\ OneStream /\ PairsNamed
  BY ZenonT(60) DEF EInv
<1>2. Moves(c, {"using"}, {"streaming"})
  BY ZenonT(60), <1>1, CallMoves
<1>s. Shift({"streaming"})
  BY ZenonT(60), <1>1, <1>2, MovesShift
<1>3. OneStream'
  BY SMTT(30), <1>1, <1>2, MovesFacts DEF OneStream, FileStream
<1>4. PairsNamed'
  BY ZenonT(60), <1>1, <1>2, PairsElse
<1>5. permit' \in Callers \cup {None} /\ streams' \in Nat
  BY <1>1, TypeParts DEF FileStream, files
<1>6. LessLive /\ session' \in [Sessions -> SessionSet]
  BY ZenonT(60), <1>1, SameSessions DEF FileStream
<1>7. CalmPool /\ driver' \in DriverSet
  BY ZenonT(60), <1>1, SameDriver DEF FileStream
<1>8. UNCHANGED <<inner, table, stopped, signal, returned>> /\ shutdown' \in Callers \cup {None}
  BY ZenonT(60), <1>1, TypeParts DEF FileStream, stopping
<1>9. GoesOn \/ Happens
  BY ZenonT(60) DEF FileStream
<1> QED BY ZenonT(60), <1>s, <1>3, <1>4, <1>5, <1>6, <1>7, <1>8, <1>9, PlainStep

LEMMA CloseDisplacedStep == ASSUME EInv, NEW c \in Callers, CloseDisplaced(c) PROVE EInv'
<1>1. TypeOK /\ OneStream /\ PairsNamed
  BY ZenonT(60) DEF EInv
<1>2. Moves(c, {"closing"}, {"idle"})
  BY ZenonT(60), <1>1, CallMoves
<1>s. Shift({"idle"})
  BY ZenonT(60), <1>1, <1>2, MovesShift
<1>3. OneStream'
  BY ZenonT(60), <1>1, <1>2, StreamMove DEF CloseDisplaced
<1>4. PairsNamed'
  BY ZenonT(60), <1>1, <1>2, PairsElse
<1>5. permit' \in Callers \cup {None} /\ streams' \in Nat
  BY ZenonT(60), <1>1, TypeParts DEF CloseDisplaced, files
<1>6. LessLive /\ session' \in [Sessions -> SessionSet]
  BY ZenonT(60), <1>1, ClosedLessLive DEF CloseDisplaced
<1>7. CalmPool /\ driver' \in DriverSet
  BY ZenonT(60), <1>1, SameDriver DEF CloseDisplaced
<1>8. UNCHANGED <<inner, table, stopped, signal, returned>> /\ shutdown' \in Callers \cup {None}
  BY ZenonT(60), <1>1, TypeParts DEF CloseDisplaced, stopping
<1>9. GoesOn \/ Happens
  BY ZenonT(60) DEF CloseDisplaced
<1> QED BY ZenonT(60), <1>s, <1>3, <1>4, <1>5, <1>6, <1>7, <1>8, <1>9, PlainStep

LEMMA ConnectPairingStep == ASSUME EInv, NEW c \in Callers, ConnectPairing(c) PROVE EInv'
<1>1. TypeOK /\ OneStream /\ PairsNamed
  BY ZenonT(60) DEF EInv
<1>2. Moves(c, {"pairing"}, {"paired"})
  BY ZenonT(60), <1>1, PairingMoves
<1>s. Shift({"paired"})
  BY ZenonT(60), <1>1, <1>2, MovesShift
<1>3. OneStream'
  BY ZenonT(60), <1>1, <1>2, StreamMove DEF ConnectPairing
<1>4. PairsNamed'
  <2>1. call[c].route \in Routes /\ call[c].node \in Nodes /\ call \in [Callers -> CallSet]
    BY ZenonT(60), <1>1, TypeParts DEF PairsNamed, ConnectPairing
  <2>2. call'[c].route = call[c].route /\ call'[c].node = call[c].node
    BY ZenonT(60), <2>1 DEF ConnectPairing, Goes, CallSet
  <2> QED BY ZenonT(60), <1>1, <1>2, <2>1, <2>2, PairsMove
<1>5. permit' \in Callers \cup {None} /\ streams' \in Nat
  BY ZenonT(60), <1>1, TypeParts DEF ConnectPairing, files
<1>6. LessLive /\ session' \in [Sessions -> SessionSet]
  BY ZenonT(60), <1>1, ToldLessLive DEF ConnectPairing
<1>7. CalmPool /\ driver' \in DriverSet
  <2>1. call[c].node \in Nodes \cup {None}
    BY ZenonT(60), <1>1 DEF TypeOK
  <2> QED BY ZenonT(60), <1>1, <2>1, DriverForCalm DEF ConnectPairing, TakesSlot
<1>8. UNCHANGED <<inner, table, stopped, signal, returned>> /\ shutdown' \in Callers \cup {None}
  BY ZenonT(60), <1>1, TypeParts DEF ConnectPairing, stopping
<1>9. GoesOn \/ Happens
  BY ZenonT(60) DEF ConnectPairing
<1> QED BY ZenonT(60), <1>s, <1>3, <1>4, <1>5, <1>6, <1>7, <1>8, <1>9, PlainStep

LEMMA PairingAnsweredStep == ASSUME EInv, NEW c \in Callers, NEW i \in 1..MaxSerial,
                                   PairingAnswered(c, i) PROVE EInv'
<1>1. TypeOK /\ OneStream /\ PairsNamed
  BY ZenonT(60) DEF EInv
<1>2. Moves(c, {"paired"}, {"install"})
  BY ZenonT(60), <1>1, PairingMoves
<1>s. Shift({"install"})
  BY ZenonT(60), <1>1, <1>2, MovesShift
<1>3. OneStream'
  BY ZenonT(60), <1>1, <1>2, StreamMove DEF PairingAnswered
<1>4. PairsNamed'
  <2>1. call[c].route \in Routes /\ call[c].node \in Nodes /\ call \in [Callers -> CallSet]
    BY ZenonT(60), <1>1, TypeParts DEF PairsNamed, PairingAnswered
  <2>2. call'[c].route = call[c].route /\ call'[c].node = call[c].node
    BY ZenonT(60), <2>1 DEF PairingAnswered, CallSet
  <2> QED BY ZenonT(60), <1>1, <1>2, <2>1, <2>2, PairsMove
<1>5. permit' \in Callers \cup {None} /\ streams' \in Nat
  BY ZenonT(60), <1>1, TypeParts DEF PairingAnswered, files
<1>6. LessLive /\ session' \in [Sessions -> SessionSet]
  BY ZenonT(60), <1>1, SameSessions DEF PairingAnswered
<1>7. CalmPool /\ driver' \in DriverSet
  BY ZenonT(60), <1>1, SameDriver DEF PairingAnswered
<1>8. UNCHANGED <<inner, table, stopped, signal, returned>> /\ shutdown' \in Callers \cup {None}
  BY ZenonT(60), <1>1, TypeParts DEF PairingAnswered, stopping
<1>9. GoesOn \/ Happens
  BY ZenonT(60) DEF PairingAnswered
<1> QED BY ZenonT(60), <1>s, <1>3, <1>4, <1>5, <1>6, <1>7, <1>8, <1>9, PlainStep

LEMMA PairingFailsStep == ASSUME EInv, NEW c \in Callers, PairingFails(c) PROVE EInv'
<1>1. TypeOK /\ OneStream /\ PairsNamed
  BY ZenonT(60) DEF EInv
<1>2. Moves(c, {"pairing", "paired"}, {"idle"})
  BY ZenonT(60), <1>1, PairingMoves
<1>s. Shift({"idle"})
  BY ZenonT(60), <1>1, <1>2, MovesShift
<1>3. OneStream'
  BY ZenonT(60), <1>1, <1>2, StreamMove DEF PairingFails
<1>4. PairsNamed'
  BY ZenonT(60), <1>1, <1>2, PairsElse
<1>5. permit' \in Callers \cup {None} /\ streams' \in Nat
  BY ZenonT(60), <1>1, TypeParts DEF PairingFails, files
<1>6. LessLive /\ session' \in [Sessions -> SessionSet]
  BY ZenonT(60), <1>1, SameSessions DEF PairingFails
<1>7. CalmPool /\ driver' \in DriverSet
  BY ZenonT(60), <1>1, SameDriver DEF PairingFails
<1>8. UNCHANGED <<inner, table, stopped, signal, returned>> /\ shutdown' \in Callers \cup {None}
  BY ZenonT(60), <1>1, TypeParts DEF PairingFails, stopping
<1>9. GoesOn \/ Happens
  BY ZenonT(60) DEF PairingFails
<1> QED BY ZenonT(60), <1>s, <1>3, <1>4, <1>5, <1>6, <1>7, <1>8, <1>9, PlainStep

LEMMA StopCancelledStep == ASSUME EInv, NEW c \in Callers, StopCancelled(c) PROVE EInv'
<1>1. TypeOK /\ OneStream /\ PairsNamed
  BY ZenonT(60) DEF EInv
<1>2. Moves(c, {"stop", "drain", "settle", "quiesce"}, {"idle"})
  BY ZenonT(60), <1>1, StopMoves
<1>s. Shift({"idle"})
  BY ZenonT(60), <1>1, <1>2, MovesShift
<1>3. OneStream'
  BY ZenonT(60), <1>1, <1>2, StreamMove DEF StopCancelled
<1>4. PairsNamed'
  BY ZenonT(60), <1>1, <1>2, PairsElse
<1>5. permit' \in Callers \cup {None} /\ streams' \in Nat
  BY ZenonT(60), <1>1, TypeParts DEF StopCancelled, files
<1>6. LessLive /\ session' \in [Sessions -> SessionSet]
  BY ZenonT(60), <1>1, SameSessions DEF StopCancelled
<1>7. CalmPool /\ driver' \in DriverSet
  <2>1. CASE PoolClose
    BY ZenonT(60), <1>1, <2>1, PoolCloseCalm
  <2>2. CASE UNCHANGED driver
    BY ZenonT(60), <1>1, <2>2, SameDriver
  <2> QED BY ZenonT(60), <2>1, <2>2 DEF StopCancelled
<1>8. UNCHANGED <<inner, table, stopped, signal, returned>> /\ shutdown' \in Callers \cup {None}
  BY ZenonT(60), <1>1, TypeParts DEF StopCancelled, stopping
<1>9. GoesOn \/ Happens
  BY ZenonT(60) DEF StopCancelled
<1> QED BY ZenonT(60), <1>s, <1>3, <1>4, <1>5, <1>6, <1>7, <1>8, <1>9, PlainStep

LEMMA FileStreamEndsStep == ASSUME EInv, FileStreamEnds PROVE EInv'
<1>1. TypeOK /\ OneStream /\ PairsNamed
  BY ZenonT(60) DEF EInv
<1>2. UNCHANGED call
  BY ZenonT(60), <1>1, Zenon DEF FileStreamEnds
<1>s. Shift({})
  BY ZenonT(60), <1>1, <1>2, NobodyMoves
<1>3. OneStream'
  BY <1>1 DEF OneStream, FileStreamEnds
<1>4. PairsNamed'
  BY ZenonT(60), <1>1, <1>2 DEF PairsNamed
<1>5. permit' \in Callers \cup {None} /\ streams' \in Nat
  BY <1>1, TypeParts DEF FileStreamEnds, files
<1>6. LessLive /\ session' \in [Sessions -> SessionSet]
  BY ZenonT(60), <1>1, SameSessions DEF FileStreamEnds
<1>7. CalmPool /\ driver' \in DriverSet
  BY ZenonT(60), <1>1, SameDriver DEF FileStreamEnds
<1>8. UNCHANGED <<inner, table, stopped, signal, returned>> /\ shutdown' \in Callers \cup {None}
  BY ZenonT(60), <1>1, TypeParts DEF FileStreamEnds, stopping
<1>9. GoesOn \/ Happens
  BY ZenonT(60) DEF FileStreamEnds
<1> QED BY ZenonT(60), <1>s, <1>3, <1>4, <1>5, <1>6, <1>7, <1>8, <1>9, PlainStep

LEMMA SessionEndsStep == ASSUME EInv, NEW s \in Sessions, SessionEnds(s) \/ SupersededCloses(s) PROVE EInv'
<1>1. TypeOK /\ OneStream /\ PairsNamed
  BY ZenonT(60) DEF EInv
<1>2. UNCHANGED call
  BY ZenonT(60), <1>1, Zenon DEF SessionEnds, SupersededCloses
<1>s. Shift({})
  BY ZenonT(60), <1>1, <1>2, NobodyMoves
<1>3. OneStream'
  BY ZenonT(60), <1>1, <1>2 DEF OneStream, SessionEnds, SupersededCloses, files
<1>4. PairsNamed'
  BY ZenonT(60), <1>1, <1>2 DEF PairsNamed
<1>5. permit' \in Callers \cup {None} /\ streams' \in Nat
  BY ZenonT(60), <1>1, TypeParts DEF SessionEnds, SupersededCloses, files
<1>6. LessLive /\ session' \in [Sessions -> SessionSet]
  <2>1. session \in [Sessions -> SessionSet]
    BY ZenonT(60), <1>1, TypeParts
  <2>2. session' = [session EXCEPT ![s].state = "closed"]
    BY ZenonT(60) DEF SessionEnds, SupersededCloses
  <2>3. [session[s] EXCEPT !.state = "closed"] \in SessionSet
        /\ [session[s] EXCEPT !.state = "closed"].state = "closed"
    BY ZenonT(60), <2>1 DEF SessionSet
  <2>4. \A t \in Sessions : session'[t] = IF t = s THEN [session[s] EXCEPT !.state = "closed"]
                                          ELSE session[t]
    BY ZenonT(60), <2>1, <2>2
  <2>5. session' \in [Sessions -> SessionSet]
    BY ZenonT(60), <2>1, <2>2, <2>3
  <2>6. LessLive
    BY ZenonT(60), <2>3, <2>4 DEF LessLive
  <2> QED BY ZenonT(60), <2>5, <2>6
<1>7. CalmPool /\ driver' \in DriverSet
  BY ZenonT(60), <1>1, SameDriver DEF SessionEnds, SupersededCloses
<1>8. UNCHANGED <<inner, table, stopped, signal, returned>> /\ shutdown' \in Callers \cup {None}
  BY ZenonT(60), <1>1, TypeParts DEF SessionEnds, SupersededCloses, stopping
<1>9. GoesOn \/ Happens
  BY ZenonT(60) DEF SessionEnds, SupersededCloses
<1> QED BY ZenonT(60), <1>s, <1>3, <1>4, <1>5, <1>6, <1>7, <1>8, <1>9, PlainStep

LEMMA DriverEndsStep == ASSUME EInv, NEW d \in DOMAIN driver, DriverEnds(d) PROVE EInv'
<1>1. TypeOK /\ OneStream /\ PairsNamed
  BY ZenonT(60) DEF EInv
<1>2. UNCHANGED call
  BY ZenonT(60), <1>1, Zenon DEF DriverEnds
<1>s. Shift({})
  BY ZenonT(60), <1>1, <1>2, NobodyMoves
<1>3. OneStream'
  BY ZenonT(60), <1>1, <1>2 DEF OneStream, DriverEnds, files
<1>4. PairsNamed'
  BY ZenonT(60), <1>1, <1>2 DEF PairsNamed
<1>5. permit' \in Callers \cup {None} /\ streams' \in Nat
  BY ZenonT(60), <1>1, TypeParts DEF DriverEnds, files
<1>6. LessLive /\ session' \in [Sessions -> SessionSet]
  BY ZenonT(60), <1>1, SameSessions DEF DriverEnds
<1>7. CalmPool /\ driver' \in DriverSet
  <2>1. driver \in DriverSet /\ d \in {Home} \cup Nodes /\ DOMAIN driver = {Home} \cup Nodes
    BY ZenonT(60), <1>1, TypeParts DEF DriverSet
  <2>2. driver' \in DriverSet /\ DOMAIN driver' = {Home} \cup Nodes
    BY ZenonT(60), <2>1 DEF DriverEnds, DriverSet
  <2>3. \A b \in {Home} \cup Nodes : driver'[b] = driver[b] \/ driver'[b] = "finished"
    BY ZenonT(60), <2>1 DEF DriverEnds, DriverSet
  <2> QED BY ZenonT(60), <2>1, <2>2, <2>3 DEF CalmPool, PoolClosed
<1>8. UNCHANGED <<inner, table, stopped, signal, returned>> /\ shutdown' \in Callers \cup {None}
  BY ZenonT(60), <1>1, TypeParts DEF DriverEnds, stopping
<1>9. GoesOn \/ Happens
  BY ZenonT(60) DEF DriverEnds
<1> QED BY ZenonT(60), <1>s, <1>3, <1>4, <1>5, <1>6, <1>7, <1>8, <1>9, PlainStep

LEMMA PairRouteStep ==
  ASSUME EInv, NEW c \in Callers, NEW r \in Routes, NEW n \in Nodes, PairRoute(c, r, n)
  PROVE  EInv'
<1>1. TypeOK /\ OneStream /\ PairsNamed
  BY ZenonT(60) DEF EInv
<1>2. Moves(c, {"idle"}, {"pairing"})
  BY ZenonT(60), <1>1, TableMoves
<1>3. Shift({"pairing"})
  BY ZenonT(60), <1>1, <1>2, MovesShift
<1>4. OneStream'
  BY ZenonT(60), <1>1, <1>2, StreamMove DEF PairRoute
<1>5. PairsNamed'
  <2>1. call'[c].route = r /\ call'[c].node = n
    BY ZenonT(60), <1>1, TypeParts DEF PairRoute, Idle, CallSet
  <2> QED BY ZenonT(60), <1>1, <1>2, <2>1, PairsMove
<1>6. permit' \in Callers \cup {None} /\ streams' \in Nat
  BY ZenonT(60), <1>1, TypeParts DEF PairRoute, files
<1>7. LessLive /\ session' \in [Sessions -> SessionSet] /\ CalmPool /\ driver' \in DriverSet
  BY ZenonT(60), <1>1, SameSessions, SameDriver DEF PairRoute
<1>8. UNCHANGED <<inner, table, stopped, signal, returned>> /\ shutdown' \in Callers \cup {None}
  BY ZenonT(60), <1>1, TypeParts DEF PairRoute, stopping
<1>9. GoesOn \/ Happens
  BY ZenonT(60) DEF PairRoute
<1> QED BY ZenonT(60), <1>3, <1>4, <1>5, <1>6, <1>7, <1>8, <1>9, PlainStep

\* A step that found the engine lock free, or held it and releases it.
LEMMA LockedStep ==
  ASSUME EInv, GoesOn \/ Happens, NEW c \in Callers, NEW from, NEW to, Moves(c, from, to),
         "streaming" \notin from, "dialling" \notin to,
         \A at \in {"pairing", "paired", "install"} : at \notin to,
         \A at \in {"stop", "drain", "settle", "quiesce", "wipe"} : at \notin to,
         inner \in {None, c}, inner' \in {inner, None}, UNCHANGED <<files, stopping>>,
         signal => LessLive, session' \in [Sessions -> SessionSet],
         CalmPool, driver' \in DriverSet,
         routes' \in [Routes -> RouteSet], paired' \subseteq Nodes, Backed',
         stopped => UNCHANGED table
  PROVE  EInv'
<1>1. TypeOK /\ PairsNamed /\ Backed /\ OneStream /\ DialsHold /\ StopsHold
  BY ZenonT(60) DEF EInv
<1>2. Shift(to)
  BY ZenonT(60), <1>1, MovesShift
<1>3. OneStream' /\ PairsNamed' /\ DialsHold'
  BY ZenonT(60), <1>1, StreamMove, PairsElse, NoDialMove
<1>4. UNCHANGED <<stopped, signal, returned, shutdown, permit, streams>>
  BY ZenonT(60) DEF stopping, files
<1>5. StopsHold'
  BY ZenonT(60), <1>1, <1>2, <1>4, StopsKept
<1>6. TypeOK'
  <2>1. call' \in [Callers -> CallSet] /\ inner' \in Callers \cup {None}
    BY ZenonT(60), <1>1, <1>2, TypeParts DEF Shift
  <2> QED BY ZenonT(60), <1>1, <1>4, <2>1, TypeParts, TypeFrom
<1> QED BY ZenonT(60), <1>3, <1>5, <1>6 DEF EInv

\* The secrets' backing after one route changes.
LEMMA BackedChange ==
  ASSUME TypeOK, Backed, NEW r \in Routes, NEW q \in RouteSet, routes' = [routes EXCEPT ![r] = q],
         \A p \in paired' : p = q.node \/ (p \in paired /\ (routes[r].node = p => q.node = p))
  PROVE  Backed'
<1>1. routes \in [Routes -> RouteSet]
  BY ZenonT(60), TypeParts
<1>2. ASSUME NEW p \in paired' PROVE \E t \in Routes : routes'[t].node = p
  <2>1. CASE p = q.node
    BY ZenonT(60), <1>1, <2>1
  <2>2. CASE p \in paired /\ (routes[r].node = p => q.node = p)
    <3>1. PICK t \in Routes : routes[t].node = p
      BY ZenonT(60), <2>2 DEF Backed
    <3>2. CASE t = r
      BY ZenonT(60), <1>1, <2>2, <3>1, <3>2
    <3>3. CASE t # r
      BY ZenonT(60), <1>1, <3>1, <3>3
    <3> QED BY ZenonT(60), <3>2, <3>3
  <2> QED BY ZenonT(60), <1>2, <2>1, <2>2
<1> QED BY ZenonT(60), <1>2 DEF Backed

LEMMA UpsertStep ==
  ASSUME EInv, NEW c \in Callers, NEW r \in Routes, NEW n \in Nodes, NEW i \in 1..MaxSerial,
         UpsertRoute(c, r, n, i)
  PROVE  EInv'
<1>1. TypeOK /\ Backed
  BY ZenonT(60) DEF EInv
<1>2. Moves(c, {"idle"}, {"idle", "closing"})
  BY ZenonT(60), <1>1, TableMoves
<1> DEFINE q == [node |-> n, serial |-> i, session |-> NoSession]
<1>3. q \in RouteSet /\ q.node = n /\ routes \in [Routes -> RouteSet]
  BY ZenonT(60), <1>1, RouteChange, Ranges
<1>4. routes' = [routes EXCEPT ![r] = q] /\ paired' = (paired \ {routes[r].node}) \cup {n}
  BY ZenonT(60) DEF UpsertRoute, Sets
<1>5. routes' \in [Routes -> RouteSet] /\ paired' \subseteq Nodes
  BY ZenonT(60), <1>1, <1>3, <1>4, TypeParts
<1>6. Backed'
  <2>1. \A p \in paired' : p = q.node \/ (p \in paired /\ (routes[r].node = p => q.node = p))
    BY ZenonT(60), <1>3, <1>4
  <2> QED BY ZenonT(60), <1>1, <1>3, <1>4, <2>1, BackedChange
<1>7. /\ inner = None /\ UNCHANGED <<inner, files, stopping, session, driver>> /\ ~stopped
      /\ Happens
  BY ZenonT(60) DEF UpsertRoute
<1>8. LessLive /\ session' \in [Sessions -> SessionSet] /\ CalmPool /\ driver' \in DriverSet
  BY ZenonT(60), <1>1, <1>7, SameSessions, SameDriver
<1> QED BY ZenonT(60), <1>2, <1>5, <1>6, <1>7, <1>8, LockedStep

LEMMA RemoveStep ==
  ASSUME EInv, NEW c \in Callers, NEW r \in Routes, RemoveRoute(c, r) PROVE EInv'
<1>1. TypeOK /\ Backed
  BY ZenonT(60) DEF EInv
<1>2. Moves(c, {"idle"}, {"idle", "closing"})
  BY ZenonT(60), <1>1, TableMoves
<1>3. NoRoute \in RouteSet /\ routes \in [Routes -> RouteSet]
  BY ZenonT(60), <1>1, RouteChange, Ranges
<1>4. routes' = [routes EXCEPT ![r] = NoRoute] /\ paired' = paired \ {routes[r].node}
  BY ZenonT(60) DEF RemoveRoute
<1>5. routes' \in [Routes -> RouteSet] /\ paired' \subseteq Nodes
  BY ZenonT(60), <1>1, <1>3, <1>4, TypeParts
<1>6. Backed'
  <2>1. \A p \in paired' : p \in paired /\ routes[r].node # p
    BY ZenonT(60), <1>4
  <2> QED BY ZenonT(60), <1>1, <1>3, <1>4, <2>1, BackedChange
<1>7. /\ inner = None /\ UNCHANGED <<inner, files, stopping, session, driver>> /\ ~stopped
      /\ Happens
  BY ZenonT(60) DEF RemoveRoute
<1>8. LessLive /\ session' \in [Sessions -> SessionSet] /\ CalmPool /\ driver' \in DriverSet
  BY ZenonT(60), <1>1, <1>7, SameSessions, SameDriver
<1> QED BY ZenonT(60), <1>2, <1>5, <1>6, <1>7, <1>8, LockedStep

LEMMA InstallStep == ASSUME EInv, NEW c \in Callers, InstallPaired(c) PROVE EInv'
<1>1. TypeOK /\ Backed /\ PairsNamed
  BY ZenonT(60) DEF EInv
<1> DEFINE r == call[c].route
<1> DEFINE n == call[c].node
<1> DEFINE q == [node |-> n, serial |-> call[c].serial, session |-> NoSession]
<1>2. r \in Routes /\ n \in Nodes /\ call[c].serial \in 0..MaxSerial
  BY ZenonT(60), <1>1 DEF PairsNamed, InstallPaired, TypeOK
<1>3. Moves(c, {"install"}, {"idle", "closing"})
  BY ZenonT(60), <1>1, <1>2, PairingMoves
<1>4. q \in RouteSet /\ q.node = n /\ routes \in [Routes -> RouteSet] /\ n # None
  BY ZenonT(60), <1>1, <1>2, RouteChange, EngineBounds
<1>5. \/ UNCHANGED table
      \/ /\ ~stopped /\ routes[r].node \in {None, n} /\ paired' = paired \cup {n}
         /\ routes' = [routes EXCEPT ![r] = q]
  BY ZenonT(60) DEF InstallPaired, Sets
<1>6. routes' \in [Routes -> RouteSet] /\ paired' \subseteq Nodes
  BY ZenonT(60), <1>1, <1>2, <1>4, <1>5, TypeParts DEF table
<1>7. Backed'
  <2>1. CASE UNCHANGED table
    BY ZenonT(60), <1>1, <2>1 DEF table, Backed
  <2>2. CASE /\ ~stopped /\ routes[r].node \in {None, n} /\ paired' = paired \cup {n}
             /\ routes' = [routes EXCEPT ![r] = q]
    <3>1. None \notin paired
      BY ZenonT(60), <1>1, TypeParts, EngineBounds
    <3>2. \A p \in paired' : p = q.node \/ (p \in paired /\ (routes[r].node = p => q.node = p))
      BY ZenonT(60), <1>4, <2>2, <3>1
    <3> QED BY ZenonT(60), <1>1, <1>2, <1>4, <2>2, <3>2, BackedChange
  <2> QED BY ZenonT(60), <1>5, <2>1, <2>2
<1>8. /\ inner = None /\ UNCHANGED <<inner, files, stopping, session, driver>> /\ GoesOn
  BY ZenonT(60) DEF InstallPaired
<1>9. LessLive /\ session' \in [Sessions -> SessionSet] /\ CalmPool /\ driver' \in DriverSet
  BY ZenonT(60), <1>1, <1>8, SameSessions, SameDriver
<1> QED BY ZenonT(60), <1>3, <1>5, <1>6, <1>7, <1>8, <1>9, LockedStep

-----------------------------------------------------------------------------
(* Dials.                                                                  *)

LEMMA DialEndsStep ==
  ASSUME EInv, NEW c \in Callers, DialFails(c) \/ DialGivesWay(c) PROVE EInv'
<1>1. TypeOK /\ Backed /\ DialsHold
  BY ZenonT(60) DEF EInv
<1>2. Moves(c, {"dialling"}, {"idle"})
  BY ZenonT(60), <1>1, CallMoves
<1>3. /\ call[c].at = "dialling" /\ inner' = None /\ GoesOn
      /\ UNCHANGED <<table, stopping, session, files, driver>>
  BY ZenonT(60) DEF DialFails, DialGivesWay
<1>4. inner = c
  BY ZenonT(60), <1>1, <1>3 DEF DialsHold
<1>5. routes' \in [Routes -> RouteSet] /\ paired' \subseteq Nodes /\ Backed'
  BY ZenonT(60), <1>1, <1>3, TypeParts DEF table, Backed
<1>6. LessLive /\ session' \in [Sessions -> SessionSet] /\ CalmPool /\ driver' \in DriverSet
  BY ZenonT(60), <1>1, <1>3, SameSessions, SameDriver
<1> QED BY ZenonT(60), <1>2, <1>3, <1>4, <1>5, <1>6, LockedStep

LEMMA DialSucceedsStep == ASSUME EInv, NEW c \in Callers, DialSucceeds(c) PROVE EInv'
<1>1. TypeOK /\ Backed /\ DialsHold /\ StopsHold
  BY ZenonT(60) DEF EInv
<1> DEFINE r == call[c].route
<1>2. Moves(c, {"dialling"}, {"using"})
  BY ZenonT(60), <1>1, CallMoves
<1>3. /\ call[c].at = "dialling" /\ ~signal /\ inner' = None /\ GoesOn
      /\ UNCHANGED <<paired, stopping, files, driver>>
  BY ZenonT(60) DEF DialSucceeds
<1>4. inner = c /\ r \in Routes
  BY ZenonT(60), <1>1, <1>3 DEF DialsHold
<1>5. PICK s \in Sessions : /\ session' = [session EXCEPT ![s] = [state |-> "up", node |-> routes[r].node]]
                            /\ routes' = [routes EXCEPT ![r].session = s]
  BY ZenonT(60) DEF DialSucceeds
<1>6. routes \in [Routes -> RouteSet] /\ [routes[r] EXCEPT !.session = s] \in RouteSet
  BY ZenonT(60), <1>1, <1>4, RouteChange, Ranges
<1>7. /\ routes' \in [Routes -> RouteSet] /\ paired' \subseteq Nodes
      /\ routes' = [routes EXCEPT ![r] = [routes[r] EXCEPT !.session = s]]
  BY ZenonT(60), <1>1, <1>3, <1>4, <1>5, <1>6, TypeParts
<1>8. Backed'
  <2>1. [routes[r] EXCEPT !.session = s].node = routes[r].node
    BY ZenonT(60), <1>4, <1>6 DEF RouteSet
  <2>2. \A p \in paired' : p \in paired
    BY ZenonT(60), <1>3
  <2> DEFINE q == [routes[r] EXCEPT !.session = s]
  <2>3. \A p \in paired' : p = q.node \/ (p \in paired /\ (routes[r].node = p => q.node = p))
    BY ZenonT(60), <2>1, <2>2
  <2>4. q \in RouteSet /\ routes' = [routes EXCEPT ![r] = q]
    BY ZenonT(60), <1>6, <1>7
  <2> HIDE DEF q
  <2> QED BY ZenonT(60), <1>1, <1>4, <2>3, <2>4, BackedChange
<1>9. session' \in [Sessions -> SessionSet]
  <2>1. session \in [Sessions -> SessionSet] /\ routes[r].node \in Nodes \cup {None}
    BY ZenonT(60), <1>1, <1>4, <1>6, TypeParts DEF RouteSet
  <2>2. [state |-> "up", node |-> routes[r].node] \in SessionSet
    BY ZenonT(60), <2>1 DEF SessionSet
  <2> QED BY ZenonT(60), <1>5, <2>1, <2>2
<1>10. CalmPool /\ driver' \in DriverSet
  BY ZenonT(60), <1>1, <1>3, SameDriver
<1>11. ~stopped
  BY ZenonT(60), <1>1, <1>3 DEF StopsHold
<1> QED BY ZenonT(60), <1>2, <1>3, <1>4, <1>7, <1>8, <1>9, <1>10, <1>11, LockedStep

LEMMA OpenStep ==
  ASSUME EInv, NEW c \in Callers, NEW r \in Routes, OpenSession(c, r) \/ DeleteRoute(c, r)
  PROVE  EInv'
<1>1. TypeOK /\ Backed /\ DialsHold /\ StopsHold /\ OneStream /\ PairsNamed
  BY ZenonT(60) DEF EInv
<1>2. /\ inner = None /\ ~stopped /\ Happens /\ UNCHANGED <<table, stopping, files>>
      /\ call[c].at = "idle"
  BY ZenonT(60) DEF OpenSession, DeleteRoute
<1>3. routes' \in [Routes -> RouteSet] /\ paired' \subseteq Nodes /\ Backed'
  BY ZenonT(60), <1>1, <1>2, TypeParts DEF table, Backed
<1>5. CASE Moves(c, {"idle"}, {"using"}) /\ UNCHANGED <<inner, driver, session>>
  <2>1. /\ CalmPool /\ driver' \in DriverSet
        /\ LessLive /\ session' \in [Sessions -> SessionSet]
    BY ZenonT(60), <1>1, <1>5, SameDriver, SameSessions
  <2> QED BY ZenonT(60), <1>2, <1>3, <1>5, <2>1, LockedStep
<1>6. CASE Moves(c, {"idle"}, {"dialling"}) /\ StartDial(c, r) /\ ~Live(routes[r].session)
  <2>1. inner' = c /\ (TakesSlot(routes[r].node) \/ UNCHANGED <<driver, session>>)
    BY ZenonT(60), <1>6 DEF StartDial
  <2>2. routes[r].node \in Nodes \cup {None}
    BY ZenonT(60), <1>1 DEF TypeOK
  <2>3. /\ CalmPool /\ driver' \in DriverSet
        /\ LessLive /\ session' \in [Sessions -> SessionSet]
    <3>1. CASE UNCHANGED <<driver, session>>
      BY ZenonT(60), <1>1, <3>1, SameDriver, SameSessions
    <3>2. CASE TakesSlot(routes[r].node)
      BY ZenonT(60), <1>1, <2>2, <3>2, DriverForCalm, ToldLessLive DEF TakesSlot
    <3> QED BY ZenonT(60), <2>1, <3>1, <3>2
  <2>4. Shift({"dialling"})
    BY ZenonT(60), <1>1, <1>6, MovesShift
  <2>5. OneStream' /\ PairsNamed'
    BY ZenonT(60), <1>1, <1>2, <1>6, StreamMove, PairsElse
  <2>6. UNCHANGED <<stopped, signal, returned, shutdown, permit, streams, routes>>
    BY ZenonT(60), <1>2 DEF stopping, files, table
  <2>7. StopsHold'
    BY ZenonT(60), <1>1, <1>2, <2>3, <2>4, <2>6, StopsKept
  <2>8. DialsHold'
    <3> SUFFICES ASSUME NEW b \in Callers, call'[b].at = "dialling"
                 PROVE  /\ inner' = b /\ call'[b].route \in Routes
                        /\ ~Live(routes[call[b].route].session)'
      BY ZenonT(60) DEF DialsHold
    <3>1. b = c
      <4>1. b # c => call[b].at = "dialling"
        BY ZenonT(60), <1>1, <1>6, MovesFacts
      <4> QED BY ZenonT(60), <1>1, <1>2, <4>1, EngineBounds DEF DialsHold
    <3>2. call'[c].route = r
      BY ZenonT(60), <1>1, <1>6, TypeParts DEF StartDial, Idle
    <3>3. routes[r].session \in Sessions \cup {NoSession}
      BY ZenonT(60), <1>1, Ranges DEF TypeOK, NoSession
    <3>4. routes'[r].session = NoSession \/ session'[routes'[r].session].state \notin {"up", "told"}
      BY ZenonT(60), <1>6, <2>3, <2>6, <3>3 DEF Live, LessLive
    <3> QED BY ZenonT(60), <2>1, <3>1, <3>2, <3>4 DEF Live
  <2>9. TypeOK'
    <3>1. call' \in [Callers -> CallSet] /\ inner' \in Callers \cup {None}
      BY ZenonT(60), <2>1, <2>4 DEF Shift
    <3> QED BY ZenonT(60), <1>1, <1>2, <1>3, <2>3, <2>6, <3>1, TypeParts, TypeFrom
  <2> QED BY ZenonT(60), <1>3, <2>5, <2>7, <2>8, <2>9 DEF EInv
<1> QED BY ZenonT(60), <1>1, <1>5, <1>6, SessionMoves

-----------------------------------------------------------------------------
(* stop and wipe.                                                          *)

\* The parts stop leaves alone.
LEMMA StopStep ==
  ASSUME EInv, GoesOn \/ Happens, NEW c \in Callers, NEW from, NEW to, Moves(c, from, to),
         "streaming" \notin from, UNCHANGED files,
         \A at \in {"pairing", "paired", "install"} : at \notin to,
         DialsHold', StopsHold', Backed',
         routes' \in [Routes -> RouteSet], paired' \subseteq Nodes,
         session' \in [Sessions -> SessionSet], driver' \in DriverSet, UNCHANGED inner,
         shutdown' \in Callers \cup {None}, stopped' \in BOOLEAN, signal' \in BOOLEAN,
         returned' \in SUBSET {"stop", "wipe"}
  PROVE  EInv'
<1>1. TypeOK /\ PairsNamed /\ OneStream
  BY ZenonT(60) DEF EInv
<1>2. OneStream' /\ PairsNamed'
  BY ZenonT(60), <1>1, StreamMove, PairsElse
<1>3. call' \in [Callers -> CallSet] /\ UNCHANGED <<permit, streams>>
  BY ZenonT(60), <1>1, MovesFacts DEF files
<1>4. TypeOK'
  BY ZenonT(60), <1>1, <1>3, TypeParts, TypeFrom
<1> QED BY ZenonT(60), <1>2, <1>4 DEF EInv

LEMMA StopCallStep == ASSUME EInv, NEW c \in Callers, StopCall(c) PROVE EInv'
<1>1. TypeOK /\ Backed /\ DialsHold /\ StopsHold
  BY ZenonT(60) DEF EInv
<1>2. Moves(c, {"idle"}, {"stop"})
  BY ZenonT(60), <1>1, StopMoves
<1>3. /\ signal' = TRUE /\ Happens
      /\ UNCHANGED <<inner, routes, paired, stopped, shutdown, returned, session, files, driver>>
  BY ZenonT(60) DEF StopCall, table
<1>4. Shift({"stop"})
  BY ZenonT(60), <1>1, <1>2, MovesShift
<1>5. DialsHold'
  BY ZenonT(60), <1>1, <1>3, <1>4, SameSessions, DialKept
<1>6. StopsHold'
  <2>1. (Quiet' <=> Quiet) /\ (Hushed' <=> Hushed)
    BY ZenonT(60), <1>3 DEF Quiet, Hushed, Live
  <2>2. PoolClosed' <=> PoolClosed
    BY ZenonT(60), <1>3 DEF PoolClosed
  <2>3. \A b \in Callers : call'[b].at \in {"drain", "settle", "quiesce", "wipe"} => call'[b] = call[b]
    BY ZenonT(60), <1>4 DEF Shift
  <2> QED BY ZenonT(60), <1>1, <1>3, <2>1, <2>2, <2>3 DEF StopsHold
<1>7. Backed'
  BY ZenonT(60), <1>1, <1>3 DEF Backed
<1> QED BY ZenonT(60), <1>1, <1>2, <1>3, <1>5, <1>6, <1>7, TypeParts, StopStep

LEMMA TakeSessionsStep == ASSUME EInv, NEW c \in Callers, TakeSessions(c) PROVE EInv'
<1>1. TypeOK /\ Backed /\ DialsHold /\ StopsHold
  BY ZenonT(60) DEF EInv
<1>2. Moves(c, {"stop"}, {"drain"})
  BY ZenonT(60), <1>1, StopMoves
<1>3. /\ shutdown' = c /\ stopped' = TRUE /\ GoesOn /\ inner = None /\ call[c].at = "stop"
      /\ routes' = [r \in Routes |-> [routes[r] EXCEPT !.session = NoSession]]
      /\ UNCHANGED <<inner, paired, signal, returned, session, files, driver>>
  BY ZenonT(60) DEF TakeSessions
<1>4. Shift({"drain"})
  BY ZenonT(60), <1>1, <1>2, MovesShift
<1>5. DialsHold'
  BY ZenonT(60), <1>1, <1>2, <1>3, NoDialMove
<1>6. /\ \A r \in Routes : /\ routes'[r].session = NoSession /\ routes'[r].node = routes[r].node
                           /\ routes[r] = NoRoute => routes'[r] = NoRoute
      /\ routes' \in [Routes -> RouteSet]
  <2>1. routes \in [Routes -> RouteSet]
    BY ZenonT(60), <1>1, TypeParts
  <2>2. \A r \in Routes : [routes[r] EXCEPT !.session = NoSession] \in RouteSet
    BY ZenonT(60), <1>1, RouteChange, Ranges
  <2>3. \A r \in Routes : /\ [routes[r] EXCEPT !.session = NoSession].session = NoSession
                          /\ [routes[r] EXCEPT !.session = NoSession].node = routes[r].node
    BY ZenonT(60), <2>1 DEF RouteSet
  <2>4. [NoRoute EXCEPT !.session = NoSession] = NoRoute
    BY DEF NoRoute
  <2> QED BY ZenonT(60), <1>3, <2>2, <2>3, <2>4
<1>7. StopsHold'
  <2>1. (Quiet' <=> Quiet) /\ (Hushed' <=> Hushed)
    BY ZenonT(60), <1>3 DEF Quiet, Hushed, Live
  <2>2. PoolClosed' <=> PoolClosed
    BY ZenonT(60), <1>3 DEF PoolClosed
  <2>3. signal
    BY ZenonT(60), <1>1, <1>3 DEF StopsHold
  <2>4. \A b \in Callers : call'[b].at \in {"settle", "quiesce"} => call'[b] = call[b]
    BY ZenonT(60), <1>4 DEF Shift
  <2>5. \A b \in Callers : /\ call'[b].at = "settle" => Hushed'
                           /\ call'[b].at = "quiesce" => Quiet'
    BY ZenonT(60), <1>1, <2>1, <2>4 DEF StopsHold
  <2> QED BY ZenonT(60), <1>1, <1>3, <1>6, <2>1, <2>2, <2>3, <2>5 DEF StopsHold
<1>8. Backed'
  BY <1>1, <1>3, <1>6 DEF Backed
<1> QED BY ZenonT(60), <1>1, <1>2, <1>3, <1>5, <1>6, <1>7, <1>8, TypeParts, StopStep

LEMMA CloseConnectionsStep == ASSUME EInv, NEW c \in Callers, CloseConnections(c) PROVE EInv'
<1>1. TypeOK /\ Backed /\ DialsHold /\ StopsHold
  BY ZenonT(60) DEF EInv
<1>2. Moves(c, {"drain"}, {"settle"})
  BY ZenonT(60), <1>1, StopMoves
<1> DEFINE held == {s \in Sessions : session[s].state # "none"}
<1>3. /\ session' = Closed(held) /\ GoesOn /\ call[c].at = "drain"
      /\ UNCHANGED <<inner, routes, paired, stopped, signal, shutdown, returned, files, driver>>
  BY ZenonT(60) DEF CloseConnections, table, stopping
<1>4. Shift({"settle"})
  BY ZenonT(60), <1>1, <1>2, MovesShift
<1>5. LessLive /\ session' \in [Sessions -> SessionSet]
  BY ZenonT(60), <1>1, <1>3, ClosedLessLive
<1>6. DialsHold'
  BY ZenonT(60), <1>1, <1>3, <1>4, <1>5, DialKept
<1>7. Hushed'
  <2>1. ASSUME NEW s \in Sessions PROVE session'[s].state \notin {"up", "told"}
    <3>1. session \in [Sessions -> SessionSet]
      BY ZenonT(60), <1>1, TypeParts
    <3>2. CASE session[s].state = "none"
      BY ZenonT(60), <1>3, <3>2 DEF Closed
    <3>3. CASE session[s].state # "none"
      <4>1. session'[s] = [session[s] EXCEPT !.state = "closed"]
        BY ZenonT(60), <1>3, <3>3 DEF Closed
      <4> QED BY ZenonT(60), <3>1, <4>1 DEF SessionSet
    <3> QED BY ZenonT(60), <3>2, <3>3
  <2> QED BY ZenonT(60), <2>1 DEF Hushed, Live
<1>8. StopsHold'
  <2>1. signal /\ stopped
    BY ZenonT(60), <1>1, <1>3 DEF StopsHold
  <2>2. (Quiet => Quiet') /\ (PoolClosed' <=> PoolClosed)
    BY ZenonT(60), <1>3, <1>7 DEF Quiet, PoolClosed
  <2>3. \A b \in Callers : call'[b].at = "quiesce" => call'[b] = call[b]
    BY ZenonT(60), <1>4 DEF Shift
  <2>4. \A b \in Callers : call'[b].at = "quiesce" => Quiet'
    BY ZenonT(60), <1>1, <2>2, <2>3 DEF StopsHold
  <2> QED BY ZenonT(60), <1>1, <1>3, <1>7, <2>1, <2>2, <2>4 DEF StopsHold
<1>9. Backed'
  BY ZenonT(60), <1>1, <1>3 DEF Backed
<1> QED BY ZenonT(60), <1>1, <1>2, <1>3, <1>5, <1>6, <1>8, <1>9, TypeParts, StopStep

LEMMA ClosePoolStep == ASSUME EInv, NEW c \in Callers, ClosePool(c) PROVE EInv'
<1>1. TypeOK /\ Backed /\ DialsHold /\ StopsHold
  BY ZenonT(60) DEF EInv
<1>2. Moves(c, {"settle"}, {"quiesce"})
  BY ZenonT(60), <1>1, StopMoves
<1>3. /\ PoolClose /\ GoesOn /\ call[c].at = "settle"
      /\ UNCHANGED <<inner, routes, paired, stopped, signal, shutdown, returned, session, files>>
  BY ZenonT(60) DEF ClosePool, table, stopping
<1>4. Shift({"quiesce"})
  BY ZenonT(60), <1>1, <1>2, MovesShift
<1>5. DialsHold'
  BY ZenonT(60), <1>1, <1>3, <1>4, SameSessions, DialKept
<1>6. /\ driver' \in DriverSet /\ \A d \in {Home} \cup Nodes : driver'[d] # "running"
      /\ CalmPool
  BY ZenonT(60), <1>1, <1>3, PoolCloseCalm
<1>7. StopsHold'
  <2>1. signal /\ stopped /\ Hushed
    BY ZenonT(60), <1>1, <1>3 DEF StopsHold
  <2>2. Hushed' /\ Quiet'
    BY ZenonT(60), <1>3, <1>6, <2>1 DEF Hushed, Quiet, Live
  <2>3. "stop" \in returned => PoolClosed'
    BY ZenonT(60), <1>1, <1>6 DEF StopsHold, CalmPool
  <2> QED BY ZenonT(60), <1>1, <1>3, <2>1, <2>2, <2>3 DEF StopsHold
<1>8. Backed'
  BY ZenonT(60), <1>1, <1>3 DEF Backed
<1> QED BY ZenonT(60), <1>1, <1>2, <1>3, <1>5, <1>6, <1>7, <1>8, TypeParts, StopStep

LEMMA StopReturnsStep == ASSUME EInv, NEW c \in Callers, StopReturns(c) PROVE EInv'
<1>1. TypeOK /\ Backed /\ DialsHold /\ StopsHold
  BY ZenonT(60) DEF EInv
<1>2. Moves(c, {"quiesce"}, {"idle", "wipe"})
  BY ZenonT(60), <1>1, StopMoves
<1>3. /\ shutdown' = None /\ returned' = returned \cup {"stop"} /\ GoesOn /\ PoolClosed
      /\ call[c].at = "quiesce"
      /\ UNCHANGED <<inner, routes, paired, stopped, signal, session, files, driver>>
  BY ZenonT(60) DEF StopReturns, table
<1>4. Shift({"idle", "wipe"})
  BY ZenonT(60), <1>1, <1>2, MovesShift
<1>5. DialsHold'
  BY ZenonT(60), <1>1, <1>3, <1>4, SameSessions, DialKept
<1>6. StopsHold'
  <2>1. signal /\ stopped /\ Quiet
    BY ZenonT(60), <1>1, <1>3 DEF StopsHold
  <2>2. Quiet' /\ Hushed' /\ PoolClosed'
    BY ZenonT(60), <1>3, <2>1 DEF Quiet, Hushed, Live, PoolClosed
  <2> QED BY ZenonT(60), <1>1, <1>3, <2>1, <2>2 DEF StopsHold
<1>7. Backed'
  BY ZenonT(60), <1>1, <1>3 DEF Backed
<1> QED BY ZenonT(60), <1>1, <1>2, <1>3, <1>5, <1>6, <1>7, TypeParts, StopStep

LEMMA WipeStep == ASSUME EInv, NEW c \in Callers, WipeRoutes(c) PROVE EInv'
<1>1. TypeOK /\ Backed /\ DialsHold /\ StopsHold
  BY ZenonT(60) DEF EInv
<1>2. Moves(c, {"wipe"}, {"idle"})
  BY ZenonT(60), <1>1, StopMoves
<1>3. /\ returned' = returned \cup {"wipe"} /\ GoesOn /\ inner = None /\ call[c].at = "wipe"
      /\ routes' = [r \in Routes |-> NoRoute]
      /\ paired' = paired \ {routes[r].node : r \in Routes}
      /\ UNCHANGED <<inner, stopped, signal, shutdown, session, files, driver>>
  BY ZenonT(60) DEF WipeRoutes
<1>4. Shift({"idle"})
  BY ZenonT(60), <1>1, <1>2, MovesShift
<1>5. DialsHold'
  BY ZenonT(60), <1>1, <1>2, <1>3, NoDialMove
<1>6. paired' = {} /\ \A r \in Routes : routes'[r] = NoRoute
  BY ZenonT(60), <1>1, <1>3 DEF Backed
<1>7. routes' \in [Routes -> RouteSet]
  <2>1. NoRoute \in RouteSet
    BY SMTT(30), EngineBounds DEF NoRoute, NoSession, RouteSet
  <2> QED BY ZenonT(60), <1>3, <2>1
<1>8. StopsHold'
  <2>1. stopped /\ signal
    BY ZenonT(60), <1>1, <1>3 DEF StopsHold
  <2>2. (Quiet' <=> Quiet) /\ (Hushed' <=> Hushed) /\ (PoolClosed' <=> PoolClosed)
    BY ZenonT(60), <1>3 DEF Quiet, Hushed, Live, PoolClosed
  <2>3. \A r \in Routes : routes'[r].session = NoSession
    BY SMTT(30), <1>6 DEF NoRoute
  <2>4. \A b \in Callers : call'[b].at \in {"settle", "quiesce"} => call'[b] = call[b]
    BY ZenonT(60), <1>4 DEF Shift
  <2>5. \A b \in Callers : /\ call'[b].at = "settle" => Hushed'
                           /\ call'[b].at = "quiesce" => Quiet'
    BY ZenonT(60), <1>1, <2>2, <2>4 DEF StopsHold
  <2> QED BY ZenonT(60), <1>1, <1>3, <1>6, <2>1, <2>2, <2>3, <2>5 DEF StopsHold
<1>9. Backed'
  BY ZenonT(60), <1>6 DEF Backed
<1> QED BY ZenonT(60), <1>1, <1>2, <1>3, <1>5, <1>6, <1>7, <1>8, <1>9, TypeParts, StopStep

-----------------------------------------------------------------------------
LEMMA EngineInit == Init => EInv
<1> SUFFICES ASSUME Init PROVE EInv
  BY ZenonT(60)
<1> DEFINE Some == {[NoRoute EXCEPT !.node = n, !.serial = 1] : n \in Nodes}
<1>0. /\ routes \in [Routes -> {NoRoute} \cup Some]
      /\ paired = {routes[r].node : r \in Routes} \ {None}
      /\ inner = None /\ shutdown = None /\ stopped = FALSE /\ signal = FALSE /\ returned = {}
      /\ session = [s \in Sessions |-> Unused] /\ call = [c \in Callers |-> Idle]
      /\ permit = None /\ streams = 0 /\ left = MaxEvents
      /\ driver = [d \in {Home} \cup Nodes |-> IF d = Home THEN "running" ELSE "none"]
  BY Zenon DEF Init
<1>1. Some \subseteq RouteSet /\ NoRoute \in RouteSet
  <2>1. 0 \in 0..MaxSerial /\ 1 \in 0..MaxSerial /\ NoSession \in 0..MaxSessions
    BY SMTT(30), EngineBounds DEF NoSession
  <2>2. NoRoute \in RouteSet
    BY ZenonT(60), <2>1 DEF NoRoute, RouteSet
  <2>3. \A n \in Nodes : [NoRoute EXCEPT !.node = n, !.serial = 1] \in RouteSet
    BY ZenonT(60), <2>1, <2>2 DEF RouteSet
  <2> QED BY ZenonT(60), <2>2, <2>3
<1> HIDE DEF Some
<1>2. routes \in [Routes -> RouteSet]
  BY ZenonT(60), <1>0, <1>1
<1>3. \A c \in Callers : call[c].at = "idle"
  BY ZenonT(60), <1>0 DEF Idle
<1>4. PairsNamed /\ DialsHold
  BY ZenonT(60), <1>3 DEF PairsNamed, DialsHold
<1>5. OneStream /\ StopsHold
  BY ZenonT(60), <1>0, <1>3 DEF OneStream, StopsHold
<1>6. Backed
  BY ZenonT(60), <1>0 DEF Backed
<1>7. TypeOK
  <2>1. call \in [Callers -> CallSet]
    BY ZenonT(60), <1>0, IdleType
  <2>2. session \in [Sessions -> SessionSet] /\ driver \in DriverSet
    BY ZenonT(60), <1>0 DEF Unused, SessionSet, DriverSet
  <2>3. paired \subseteq Nodes
    <3>1. \A r \in Routes : routes[r].node \in Nodes \cup {None}
      BY ZenonT(60), <1>2 DEF RouteSet
    <3> QED BY ZenonT(60), <1>0, <3>1
  <2>4. /\ inner \in Callers \cup {None} /\ shutdown \in Callers \cup {None}
        /\ stopped \in BOOLEAN /\ signal \in BOOLEAN /\ returned \in SUBSET {"stop", "wipe"}
        /\ permit \in Callers \cup {None} /\ streams \in Nat
    BY ZenonT(60), <1>0
  <2>5. left \in 0..MaxEvents
    BY SMTT(30), <1>0, EngineBounds
  <2> QED BY ZenonT(60), <1>2, <2>1, <2>2, <2>3, <2>4, <2>5
          DEF TypeOK, CallSet, RouteSet, SessionSet, DriverSet
<1> QED BY ZenonT(60), <1>4, <1>5, <1>6, <1>7 DEF EInv

LEMMA EngineStep == EInv /\ [Next]_vars => EInv'
<1> SUFFICES ASSUME EInv, [Next]_vars PROVE EInv'
  BY ZenonT(60)
<1>1. CASE UNCHANGED vars
  <2>1. /\ UNCHANGED <<inner, routes, paired, session, call, driver, left>>
        /\ UNCHANGED <<stopped, signal, shutdown, returned, permit, streams>>
    BY ZenonT(60), <1>1 DEF vars, table, stopping, files
  <2>2. TypeOK'
    BY ZenonT(60), <2>1 DEF EInv, TypeOK
  <2>3. PairsNamed' /\ Backed'
    BY ZenonT(60), <2>1 DEF EInv, PairsNamed, Backed
  <2>4. OneStream'
    BY ZenonT(60), <2>1 DEF EInv, OneStream
  <2>5. DialsHold'
    BY ZenonT(60), <2>1 DEF EInv, DialsHold, Live
  <2>6. StopsHold'
    BY ZenonT(60), <2>1 DEF EInv, StopsHold, Quiet, Hushed, Live, PoolClosed
  <2> QED BY ZenonT(60), <2>2, <2>3, <2>4, <2>5, <2>6 DEF EInv
<1>2. ASSUME NEW c \in Callers, Step(c) PROVE EInv'
  BY ZenonT(60), <1>2, ZenonT(60), OpenStep, RemoveStep, PairRouteStep, UpsertStep, DialSucceedsStep, DialEndsStep,
     EndUseStep, ReserveFileStep, DropPermitStep, FileStreamStep, CloseDisplacedStep,
     ConnectPairingStep, PairingFailsStep, InstallStep, PairingAnsweredStep, StopCallStep,
     TakeSessionsStep, CloseConnectionsStep, ClosePoolStep, StopReturnsStep, StopCancelledStep,
     WipeStep DEF Step, StopGoesOn
<1> QED BY ZenonT(60), <1>1, <1>2, FileStreamEndsStep, SessionEndsStep, DriverEndsStep DEF Next

LEMMA EngineInvariant == Spec => []EInv
BY EngineInit, EngineStep, PTL DEF Spec

\* Every variable stays in its range (Engine, RelayClient).
THEOREM TypeCorrect == Spec => []TypeOK
<1>1. EInv => TypeOK
  BY ZenonT(60) DEF EInv
<1> QED BY <1>1, EngineInvariant, PTL

\* For any callers, routes and peers, no replacement, removal, pairing or wipe
\* leaves a paired secret whose route is gone (upsert_route, remove_route,
\* pair_route, wipe).
THEOREM SecretsBackedCorrect == Spec => []SecretsBacked
<1>1. EInv => SecretsBacked
  BY ZenonT(60) DEF EInv, Backed, SecretsBacked
<1> QED BY <1>1, EngineInvariant, PTL

\* For any callers, at most one file stream is driven at a time: the permit is
\* shared by the caller and by the driver's task (FileRequestPermit).
THEOREM OneFileStreamCorrect == Spec => []OneFileStream
<1>1. EInv => OneFileStream
  BY DEF EInv, OneStream, OneFileStream
<1> QED BY <1>1, EngineInvariant, PTL

\* Once a stop or a wipe has returned to any caller, nothing it ended comes back,
\* whatever calls were in flight (Engine::stop, Engine::wipe, RelayClient::close).
THEOREM EndIsFinalCorrect == Spec => []EndIsFinal
<1>1. EInv => EndIsFinal
  BY ZenonT(60) DEF EInv, StopsHold, Quiet, Hushed, EndIsFinal
<1> QED BY <1>1, EngineInvariant, PTL

\* A dial that succeeds never replaces a session of its route that is up: the
\* engine lock is held from the check to the installation (open_socket,
\* request_json_reserved).
THEOREM RouteCoalescesCorrect == Spec => RouteCoalesces
<1>1. EInv /\ [Next]_vars =>
        [\A c \in Callers : DialSucceeds(c) => ~Live(routes[call[c].route].session)]_vars
  BY ZenonT(60) DEF EInv, DialsHold, DialSucceeds
<1> QED BY <1>1, EngineInvariant, PTL DEF Spec, RouteCoalesces
=============================================================================
