-------------------------------- MODULE Paths --------------------------------
(***************************************************************************)
(* What one endpoint knows about the paths to its peers: the table behind  *)
(* Paths in crates/link-endpoint/src/path_socket.rs, the task that receives *)
(* on the UDP socket, and the sessions that share the table: how connect   *)
(* and accept_any take the slot of a peer, how Session::start gives the    *)
(* peer a probe key and how drive, the state machine of a session, gives   *)
(* both back.                                                              *)
(*                                                                         *)
(* A session is an element of Session, used once, and names its probe key. *)
(*   idle     not dialed or accepted yet                                   *)
(*   begun    has the slot, the relay or the QUIC handshake is awaited     *)
(*   opening  the key is registered, the control stream is being opened    *)
(*   up       drive is running, its status Relayed or Probing              *)
(*   direct   drive is running, its status Direct                          *)
(*   dropping drive found no fresh proof and is about to call drop_direct  *)
(*   done     drive returned, or the handshake failed                      *)
(*   failed   drive returned because the relay driver gave up              *)
(*   dropped  the caller dropped the attempt before drive was spawned      *)
(* The peers are the environment: they answer pings, ping, and send their  *)
(* candidates.  A step is what a task does under one acquisition of the    *)
(* table's lock.  Clocks are nondeterministic: a proof may turn stale, and *)
(* a pending probe or a learnt address may be past its time, at any point. *)
(***************************************************************************)
EXTENDS Naturals, FiniteSets, Sequences

CONSTANTS
  Session, Peer, Addr,
  PeerOf,     \* the peer each session is with
  Reach,      \* the addresses packets of a peer can arrive from
  MaxPings,   \* bound on the pings sent; an address is skipped past it
  None

ASSUME SetsAssumption == None \notin Session /\ None \notin Peer /\ None \notin Addr
ASSUME NoneAssumption == \A a \in Addr, n \in 1..MaxPings : [addr |-> a, nonce |-> n] # None
ASSUME PeerOfAssumption == PeerOf \in [Session -> Peer]
\* An address is one UDP socket, and a socket is one node's.
ASSUME ReachAssumption ==
  /\ Reach \in [Peer -> SUBSET Addr]
  /\ \A p, q \in Peer : p # q => Reach[p] \cap Reach[q] = {}
ASSUME BoundAssumption == MaxPings \in Nat

VARIABLES
  phase,       \* where each session is
  conn,        \* its QUIC connection: none, open or closed
  told,        \* a permit is stored in its superseded Notify
  targets,     \* the addresses its send_probes has still to ping
  slot,        \* Inner.sessions
  begun,       \* the session begun last with each peer (observer)
  key,         \* Peer.probe_key
  byKey,       \* Inner.by_key_id
  candidates,  \* Peer.candidates
  learned,     \* Peer.learned
  pending,     \* Peer.pending: nonces, as indices of pings
  direct,      \* Peer.direct: the address and the nonce that proved it
  fresh,       \* the proof is younger than DIRECT_FRESH
  byDirect,    \* Inner.by_direct
  pings,       \* every ping sent: key, peer, and begun[peer] (observer)
  hand         \* the probe the receive task looked up and has not handled

session == <<phase, conn, told, targets>>
keys == <<key, byKey>>
proof == <<direct, fresh, byDirect>>
vars == <<phase, conn, told, targets, slot, begun, key, byKey, candidates,
          learned, pending, direct, fresh, byDirect, pings, hand>>

Phases == {"idle", "begun", "opening", "up", "direct", "dropping", "done",
           "failed", "dropped"}
Running(s) == phase[s] \in {"begun", "opening", "up", "direct", "dropping"}

Init ==
  /\ phase = [s \in Session |-> "idle"]
  /\ conn = [s \in Session |-> "none"]
  /\ told = [s \in Session |-> FALSE]
  /\ targets = [s \in Session |-> {}]
  /\ slot = [p \in Peer |-> None]
  /\ begun = [p \in Peer |-> None]
  /\ key = [p \in Peer |-> None]
  /\ byKey = [s \in Session |-> None]
  /\ candidates = [p \in Peer |-> {}]
  /\ learned = [p \in Peer |-> {}]
  /\ pending = [p \in Peer |-> {}]
  /\ direct = [p \in Peer |-> None]
  /\ fresh = [p \in Peer |-> FALSE]
  /\ byDirect = [a \in Addr |-> None]
  /\ pings = <<>>
  /\ hand = None

-----------------------------------------------------------------------------
(* The slot of a peer.                                                     *)

\* direct.take() and, for what it took, by_direct.remove(addr).
ForgetProof(p) ==
  /\ direct' = [direct EXCEPT ![p] = None]
  /\ fresh' = [fresh EXCEPT ![p] = FALSE]
  /\ byDirect' = IF direct[p] = None THEN byDirect
                 ELSE [byDirect EXCEPT ![direct[p].addr] = None]

BeginSession_NotifyWaiters(s) ==
  LET p == PeerOf[s] IN
  /\ phase[s] = "idle"
  /\ phase' = [phase EXCEPT ![s] = "begun"]
  /\ slot' = [slot EXCEPT ![p] = s]
  /\ begun' = [begun EXCEPT ![p] = s]
  /\ told' = IF slot[p] = None \/ phase[slot[p]] \notin {"up", "direct"} THEN told
             ELSE [told EXCEPT ![slot[p]] = TRUE]
  /\ candidates' = [candidates EXCEPT ![p] = {}]
  /\ learned' = [learned EXCEPT ![p] = {}]
  /\ pending' = [pending EXCEPT ![p] = {}]
  /\ ForgetProof(p)
  /\ UNCHANGED <<conn, targets, keys, pings, hand>>

\* begin_session, which connect and accept_any call before the handshake.  It
\* clears the path state of the peer but leaves its probe key.
BeginSession(s) ==
  LET p == PeerOf[s] IN
  /\ phase[s] = "idle"
  /\ phase' = [phase EXCEPT ![s] = "begun"]
  /\ slot' = [slot EXCEPT ![p] = s]
  /\ begun' = [begun EXCEPT ![p] = s]
  /\ told' = IF slot[p] = None THEN told ELSE [told EXCEPT ![slot[p]] = TRUE]
  /\ candidates' = [candidates EXCEPT ![p] = {}]
  /\ learned' = [learned EXCEPT ![p] = {}]
  /\ pending' = [pending EXCEPT ![p] = {}]
  /\ ForgetProof(p)
  /\ UNCHANGED <<conn, targets, keys, pings, hand>>

EndSession_Unchecked(s) == slot' = [slot EXCEPT ![PeerOf[s]] = None]

\* end_session: frees the slot only if the session still has it.
EndSession(s) ==
  slot' = IF slot[PeerOf[s]] = s THEN [slot EXCEPT ![PeerOf[s]] = None] ELSE slot

\* No relay, or the handshake fails.
HandshakeFails(s) ==
  /\ phase[s] = "begun"
  /\ phase' = [phase EXCEPT ![s] = "done"]
  /\ EndSession(s)
  /\ UNCHANGED <<conn, told, targets, begun, keys, candidates, learned, pending,
                 proof, pings, hand>>

\* The caller drops the connect future while it waits, or a TLS configuration
\* cannot be built: the connection goes, the slot and the key stay.
Abandon(s) ==
  /\ phase[s] \in {"begun", "opening"}
  /\ phase' = [phase EXCEPT ![s] = "dropped"]
  /\ conn' = [conn EXCEPT ![s] = "closed"]
  /\ UNCHANGED <<told, targets, slot, begun, keys, candidates, learned, pending,
                 proof, pings, hand>>

\* register_probe_key: the key of an earlier session is replaced.
RegisterProbeKey(s) ==
  LET p == PeerOf[s] IN
  /\ key' = [key EXCEPT ![p] = s]
  /\ byKey' = [k \in Session |-> IF k = s THEN p
                                 ELSE IF k = key[p] THEN None
                                 ELSE byKey[k]]

\* unregister_probe_key: the key id goes, and the peer's key if it is this one.
UnregisterProbeKey(s) ==
  /\ byKey' = [byKey EXCEPT ![s] = None]
  /\ key' = IF byKey[s] # None /\ key[byKey[s]] = s
            THEN [key EXCEPT ![byKey[s]] = None] ELSE key

\* The handshake is done; Session::start exports the probe key, or fails to.
Start(s) ==
  /\ phase[s] = "begun"
  /\ phase' = [phase EXCEPT ![s] = "opening"]
  /\ conn' = [conn EXCEPT ![s] = "open"]
  /\ RegisterProbeKey(s) \/ UNCHANGED keys
  /\ UNCHANGED <<told, targets, slot, begun, candidates, learned, pending, proof,
                 pings, hand>>

\* The control stream is open, or the connection ended: drive is spawned.
Spawn(s) ==
  /\ phase[s] = "opening"
  /\ phase' = [phase EXCEPT ![s] = "up"]
  /\ UNCHANGED <<conn, told, targets, slot, begun, keys, candidates, learned,
                 pending, proof, pings, hand>>

\* The peer or the application closes the connection, or it idles out.
CloseConnection(s) ==
  /\ conn[s] = "open"
  /\ conn' = [conn EXCEPT ![s] = "closed"]
  /\ UNCHANGED <<phase, told, targets, slot, begun, keys, candidates, learned,
                 pending, proof, pings, hand>>

-----------------------------------------------------------------------------
(* drive, the task of a session.                                           *)

\* drive is at its select, not inside send_probes.
Driving(s) == phase[s] \in {"up", "direct"} /\ targets[s] = {}

DriveSuperseded(s) ==
  /\ Driving(s)
  /\ told[s]
  /\ phase' = [phase EXCEPT ![s] = "done"]
  /\ told' = [told EXCEPT ![s] = FALSE]
  /\ conn' = [conn EXCEPT ![s] = "closed"]
  /\ UnregisterProbeKey(s)
  /\ UNCHANGED <<targets, slot, begun, candidates, learned, pending, proof, pings,
                 hand>>

DriveClosed(s) ==
  /\ Driving(s)
  /\ conn[s] = "closed"
  /\ phase' = [phase EXCEPT ![s] = "done"]
  /\ UnregisterProbeKey(s)
  /\ EndSession(s)
  /\ UNCHANGED <<conn, told, targets, begun, candidates, learned, pending, proof,
                 pings, hand>>

\* The relay driver was superseded or failed: the session reports Failed and
\* its task returns.
DriveRelayLost(s) ==
  /\ Driving(s)
  /\ phase' = [phase EXCEPT ![s] = "failed"]
  /\ UNCHANGED <<conn, told, targets, slot, begun, keys, candidates, learned,
                 pending, proof, pings, hand>>

\* send_probes up to its list of targets: what is past its time is forgotten,
\* then the targets are read.
SendProbes(s) ==
  LET p == PeerOf[s] IN
  /\ Driving(s)
  /\ \E kept \in SUBSET pending[p] : pending' = [pending EXCEPT ![p] = kept]
  /\ \E young \in SUBSET learned[p] :
       /\ learned' = [learned EXCEPT ![p] = young]
       /\ targets' = [targets EXCEPT ![s] = candidates[p] \cup young]
  /\ UNCHANGED <<phase, conn, told, slot, begun, keys, candidates, proof, pings,
                 hand>>

\* send_ping: under whatever key the peer has now, and not at all without one.
SendPing(p) ==
  IF key[p] = None \/ Len(pings) >= MaxPings
  THEN UNCHANGED <<pings, pending>>
  ELSE /\ pings' = Append(pings, [key |-> key[p], peer |-> p, era |-> begun[p]])
       /\ pending' = [pending EXCEPT ![p] = @ \cup {Len(pings) + 1}]

PingTarget(s, a) ==
  /\ a \in targets[s]
  /\ targets' = [targets EXCEPT ![s] = @ \ {a}]
  /\ SendPing(PeerOf[s])
  /\ UNCHANGED <<phase, conn, told, slot, begun, keys, candidates, learned, proof,
                 hand>>

\* The report follows the socket: a fresh proof makes the status Direct.
GoDirect(s) ==
  /\ Driving(s)
  /\ phase[s] = "up"
  /\ fresh[PeerOf[s]]
  /\ phase' = [phase EXCEPT ![s] = "direct"]
  /\ UNCHANGED <<conn, told, targets, slot, begun, keys, candidates, learned,
                 pending, proof, pings, hand>>

\* In Direct, drive reads the proof and finds it missing or stale, ...
FindProofLost(s) ==
  /\ Driving(s)
  /\ phase[s] = "direct"
  /\ ~fresh[PeerOf[s]]
  /\ phase' = [phase EXCEPT ![s] = "dropping"]
  /\ UNCHANGED <<conn, told, targets, slot, begun, keys, candidates, learned,
                 pending, proof, pings, hand>>

DropDirect_Unchecked(s) ==
  /\ phase[s] = "dropping"
  /\ phase' = [phase EXCEPT ![s] = "up"]
  /\ ForgetProof(PeerOf[s])
  /\ UNCHANGED <<conn, told, targets, slot, begun, keys, candidates, learned,
                 pending, pings, hand>>

\* ... and then calls drop_direct, which has no effect unless the session has
\* the slot.  A pong handled in between is dropped with the old proof.
DropDirect(s) ==
  /\ phase[s] = "dropping"
  /\ phase' = [phase EXCEPT ![s] = "up"]
  /\ IF slot[PeerOf[s]] = s THEN ForgetProof(PeerOf[s]) ELSE UNCHANGED proof
  /\ UNCHANGED <<conn, told, targets, slot, begun, keys, candidates, learned,
                 pending, pings, hand>>

\* A candidate list on the control stream, whose reader lives as long as the
\* connection, not as long as drive.
SetPeerCandidates(s, list) ==
  /\ phase[s] \in {"up", "direct", "dropping", "failed"}
  /\ conn[s] = "open"
  /\ candidates' = [candidates EXCEPT ![PeerOf[s]] = list]
  /\ UNCHANGED <<session, slot, begun, keys, learned, pending, proof, pings, hand>>

-----------------------------------------------------------------------------
(* The receive task of the UDP socket.                                     *)

\* The peer whose key id is k, if the probe opens under that peer's key.
ProbeSession(k) == IF byKey[k] # None /\ key[byKey[k]] = k THEN byKey[k] ELSE None

\* A ping of the session named by k.
ReceivePing(k, from) ==
  /\ hand = None
  /\ ProbeSession(k) # None
  /\ from \in Reach[ProbeSession(k)]
  /\ hand' = [kind |-> "ping", peer |-> ProbeSession(k), from |-> from]
  /\ UNCHANGED <<session, slot, begun, keys, candidates, learned, pending, proof,
                 pings>>

\* A pong for any ping ever sent, however late and however often.
ReceivePong(n, from) ==
  LET p == ProbeSession(pings[n].key) IN
  /\ hand = None
  /\ p # None
  /\ from \in Reach[p]
  /\ hand' = [kind |-> "pong", peer |-> p, from |-> from, nonce |-> n]
  /\ UNCHANGED <<session, slot, begun, keys, candidates, learned, pending, proof,
                 pings>>

\* A ping is answered, its address remembered, and pinged back unless it is
\* freshly proved or was pinged within the last second.
HandlePing ==
  LET p == hand.peer IN
  /\ hand # None /\ hand.kind = "ping"
  /\ learned' = IF hand.from \in candidates[p] THEN learned
                ELSE [learned EXCEPT ![p] = @ \cup {hand.from}]
  /\ \/ hand' = None
     \/ /\ ~(direct[p] # None /\ direct[p].addr = hand.from /\ fresh[p])
        /\ hand' = [hand EXCEPT !.kind = "back"]
  /\ UNCHANGED <<session, slot, begun, keys, candidates, pending, proof, pings>>

ProbeBack ==
  /\ hand # None /\ hand.kind = "back"
  /\ SendPing(hand.peer)
  /\ hand' = None
  /\ UNCHANGED <<session, slot, begun, keys, candidates, learned, proof>>

\* A pong proves the address it came from, for a nonce still pending.
HandlePong ==
  LET p == hand.peer IN
  /\ hand # None /\ hand.kind = "pong"
  /\ hand' = None
  /\ IF hand.nonce \in pending[p]
     THEN /\ pending' = [pending EXCEPT ![p] = @ \ {hand.nonce}]
          /\ direct' = [direct EXCEPT ![p] = [addr |-> hand.from,
                                              nonce |-> hand.nonce]]
          /\ fresh' = [fresh EXCEPT ![p] = TRUE]
          /\ learned' = [learned EXCEPT ![p] = @ \ {hand.from}]
          /\ byDirect' = [byDirect EXCEPT ![hand.from] = p]
     ELSE UNCHANGED <<pending, learned, proof>>
  /\ UNCHANGED <<session, slot, begun, keys, candidates, pings>>

\* Fifteen seconds pass since the proof.
ProofAges(p) ==
  /\ fresh[p]
  /\ fresh' = [fresh EXCEPT ![p] = FALSE]
  /\ UNCHANGED <<session, slot, begun, keys, candidates, learned, pending, direct,
                 byDirect, pings, hand>>

-----------------------------------------------------------------------------
Quiet ==
  /\ \A s \in Session : phase[s] \in {"done", "failed", "dropped"}
  /\ UNCHANGED vars

SessionStep(s) ==
  \/ BeginSession(s) \/ HandshakeFails(s) \/ Abandon(s) \/ Start(s) \/ Spawn(s)
  \/ CloseConnection(s) \/ DriveSuperseded(s) \/ DriveClosed(s)
  \/ DriveRelayLost(s) \/ SendProbes(s) \/ GoDirect(s) \/ FindProofLost(s)
  \/ DropDirect(s)
  \/ \E a \in Addr : PingTarget(s, a)
  \/ \E list \in SUBSET Reach[PeerOf[s]] : SetPeerCandidates(s, list)

ReceiveStep ==
  \/ \E k \in Session, from \in Addr : ReceivePing(k, from)
  \/ \E n \in 1..Len(pings), from \in Addr : ReceivePong(n, from)
  \/ HandlePing \/ ProbeBack \/ HandlePong

Next ==
  \/ \E s \in Session : SessionStep(s)
  \/ ReceiveStep
  \/ \E p \in Peer : ProofAges(p)
  \/ Quiet

Spec == Init /\ [][Next]_vars

\* The tasks run, the QUIC handshake ends one way or another (it has an idle
\* timeout) and so does the opening of the control stream.  select! picks a
\* ready arm at random, hence strong fairness for drive's superseded arm.
FairSpec ==
  /\ Spec
  /\ \A s \in Session :
       /\ WF_vars(HandshakeFails(s) \/ Abandon(s) \/ Start(s))
       /\ WF_vars(Spawn(s) \/ Abandon(s))
       /\ WF_vars(\E a \in Addr : PingTarget(s, a))
       /\ WF_vars(DropDirect(s))
       /\ SF_vars(DriveSuperseded(s))

-----------------------------------------------------------------------------
(* Properties.                                                             *)

Pings == [key : Session, peer : Peer, era : Session \cup {None}]
Probes == [kind : {"ping", "back"}, peer : Peer, from : Addr]
Pongs == [kind : {"pong"}, peer : Peer, from : Addr, nonce : 1..MaxPings]

\* Every variable stays in its range, and a pending nonce is one that was
\* really sent.
TypeOK ==
  /\ phase \in [Session -> Phases]
  /\ conn \in [Session -> {"none", "open", "closed"}]
  /\ told \in [Session -> BOOLEAN]
  /\ targets \in [Session -> SUBSET Addr]
  /\ slot \in [Peer -> Session \cup {None}]
  /\ begun \in [Peer -> Session \cup {None}]
  /\ key \in [Peer -> Session \cup {None}]
  /\ byKey \in [Session -> Peer \cup {None}]
  /\ candidates \in [Peer -> SUBSET Addr]
  /\ learned \in [Peer -> SUBSET Addr]
  /\ pings \in Seq(Pings)
  /\ Len(pings) <= MaxPings
  /\ pending \in [Peer -> SUBSET (1..Len(pings))]
  /\ direct \in [Peer -> [addr : Addr, nonce : 1..Len(pings)] \cup {None}]
  /\ fresh \in [Peer -> BOOLEAN]
  /\ byDirect \in [Addr -> Peer \cup {None}]
  /\ hand \in Probes \cup Pongs \cup {None}

\* by_key_id and the peers' probe keys are inverse to each other, so a key id
\* never names a peer that has moved on to another key.
KeyTables == \A k \in Session, p \in Peer : byKey[k] = p <=> key[p] = k

\* begin_session starts clean: a direct proof answers a ping this endpoint
\* sent to that peer since the latest session with it began, however late
\* the pongs of earlier sessions arrive.
ProofIsOwed ==
  \A p \in Peer : direct[p] # None =>
    /\ pings[direct[p].nonce].peer = p
    /\ pings[direct[p].nonce].era = begun[p]

\* Spec 4.1 inbound: what arrives from the address a peer is reached at
\* directly is attributed to that peer.
ProvenIsRouted ==
  \A p \in Peer : direct[p] # None => byDirect[direct[p].addr] = p

\* Newest wins and nobody is lost: a session still running has the slot of its
\* peer, or the news that it was superseded is stored for it.
RunningHasSlotOrNotice ==
  \A s \in Session : Running(s) => slot[PeerOf[s]] = s \/ told[s]

\* A session whose task ended through its own epilogue left neither a key nor
\* a slot behind.
EndedLeavesNothing ==
  \A s \in Session : phase[s] = "done" => byKey[s] = None /\ slot[PeerOf[s]] # s

\* A proof is forgotten only by a new session with the peer, or by drop_direct
\* of the session that has the slot.
ProofKept ==
  [][\A p \in Peer : direct[p] # None /\ direct'[p] = None =>
       \/ begun'[p] # begun[p]
       \/ /\ slot[p] # None
          /\ phase[slot[p]] = "dropping"
          /\ phase'[slot[p]] = "up"]_vars

\* A session that lost its slot comes to an end, although the notice may come
\* before its task exists.
SupersededEnds ==
  \A s \in Session : (Running(s) /\ slot[PeerOf[s]] # s) ~> ~Running(s)

\* However two sessions with a peer overlap, the table stays coherent: the key
\* tables invert each other, a running session has its slot or its notice, one
\* that ended its own way left nothing, and a proof answers a ping of the
\* peer's latest session and routes what arrives from it (begin_session,
\* end_session, register_probe_key, handle_probe, drop_direct).
PathsCoherent ==
  /\ TypeOK /\ KeyTables /\ RunningHasSlotOrNotice /\ EndedLeavesNothing
  /\ ProofIsOwed /\ ProvenIsRouted

====
