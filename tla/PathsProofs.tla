----------------------------- MODULE PathsProofs -----------------------------
(***************************************************************************)
(* Proofs about Paths, for any sessions, peers and addresses and any bound *)
(* on the pings; and about the address cards that paths are opened with,   *)
(* for any clock skew and any lifetimes.                                   *)
(***************************************************************************)
EXTENDS Paths, Cards, FiniteSetTheorems, TLAPS

\* The session in a slot is one with that peer that has begun and has not
\* ended, and a session is told only once another one has its slot.
SlotShape ==
  /\ \A p \in Peer : slot[p] # None =>
       PeerOf[slot[p]] = p /\ phase[slot[p]] \notin {"idle", "done"}
  /\ \A s \in Session : told[s] =>
       phase[s] # "idle" /\ slot[PeerOf[s]] # s

\* The session begun last has begun.
BegunShape == \A p \in Peer : begun[p] # None => phase[begun[p]] # "idle"

\* A key is that of a started session, for its own peer, and leaves with it.
KeyShape ==
  \A s \in Session : byKey[s] # None =>
    byKey[s] = PeerOf[s] /\ phase[s] \notin {"idle", "begun", "done"}

\* A pending nonce was sent to that peer since its latest session began.
PendingShape ==
  \A p \in Peer : \A n \in pending[p] : pings[n].peer = p /\ pings[n].era = begun[p]

\* What is in hand, and what is proved, came from an address of the peer.
ReachShape ==
  /\ hand # None => hand.from \in Reach[hand.peer]
  /\ \A p \in Peer : direct[p] # None => direct[p].addr \in Reach[p]

IInv ==
  /\ TypeOK
  /\ SlotShape /\ RunningHasSlotOrNotice /\ BegunShape
  /\ KeyShape /\ KeyTables
  /\ PendingShape /\ ProofIsOwed
  /\ ReachShape /\ ProvenIsRouted

LEMMA InitInvariant == Init => IInv
<1> SUFFICES ASSUME Init PROVE IInv
  BY ZenonT(60)
<1> USE SetsAssumption, PeerOfAssumption, ReachAssumption, BoundAssumption DEF Init
<1>1. TypeOK
  <2>1. phase \in [Session -> Phases] /\ conn \in [Session -> {"none", "open", "closed"}]
    BY ZenonT(60) DEF Phases
  <2>2. pings \in Seq(Pings)
        /\ Len(pings) = 0
    OBVIOUS
  <2> QED BY <2>1, <2>2 DEF TypeOK
<1>2. SlotShape /\ RunningHasSlotOrNotice /\ BegunShape /\ KeyShape /\ KeyTables
  BY ZenonT(60) DEF SlotShape, BegunShape, RunningHasSlotOrNotice, Running, KeyShape, KeyTables
<1>3. PendingShape /\ ProofIsOwed /\ ReachShape /\ ProvenIsRouted
  BY ZenonT(60) DEF PendingShape, ProofIsOwed, ReachShape, ProvenIsRouted
<1> QED BY ZenonT(60), <1>1, <1>2, <1>3 DEF IInv

-----------------------------------------------------------------------------
(* Type correctness.                                                       *)

LEMMA ForgetProofType ==
  ASSUME TypeOK, NEW p \in Peer, ForgetProof(p)
  PROVE  /\ direct' \in [Peer -> [addr : Addr, nonce : 1..Len(pings)] \cup {None}]
         /\ fresh' \in [Peer -> BOOLEAN]
         /\ byDirect' \in [Addr -> Peer \cup {None}]
BY ZenonT(60) DEF TypeOK, ForgetProof

LEMMA KeysType ==
  ASSUME TypeOK, NEW s \in Session, RegisterProbeKey(s) \/ UnregisterProbeKey(s)
  PROVE  key' \in [Peer -> Session \cup {None}] /\ byKey' \in [Session -> Peer \cup {None}]
<1>1. CASE RegisterProbeKey(s)
  <2>1. PeerOf[s] \in Peer
    BY ZenonT(60), PeerOfAssumption
  <2>2. key' \in [Peer -> Session \cup {None}]
    BY ZenonT(60), <1>1, <2>1 DEF TypeOK, RegisterProbeKey
  <2>3. \A k \in Session : byKey'[k] \in Peer \cup {None}
    BY ZenonT(60), <1>1, <2>1 DEF TypeOK, RegisterProbeKey
  <2> QED BY ZenonT(60), <1>1, <2>2, <2>3 DEF RegisterProbeKey
<1>2. CASE UnregisterProbeKey(s)
  BY ZenonT(60), <1>2 DEF TypeOK, UnregisterProbeKey
<1> QED BY ZenonT(60), <1>1, <1>2

LEMMA EndSessionType ==
  ASSUME TypeOK, NEW s \in Session, EndSession(s)
  PROVE  slot' \in [Peer -> Session \cup {None}]
BY ZenonT(60), PeerOfAssumption DEF TypeOK, EndSession

LEMMA SendPingType ==
  ASSUME TypeOK, NEW p \in Peer, SendPing(p)
  PROVE  /\ pings' \in Seq(Pings)
         /\ Len(pings') <= MaxPings
         /\ Len(pings) <= Len(pings')
         /\ \A n \in 1..Len(pings) : pings'[n] = pings[n]
         /\ pending' \in [Peer -> SUBSET (1..Len(pings'))]
<1>1. CASE UNCHANGED <<pings, pending>>
  BY <1>1 DEF TypeOK
<1>2. CASE ~(key[p] = None \/ Len(pings) >= MaxPings)
  <2> DEFINE e == [key |-> key[p], peer |-> p, era |-> begun[p]]
  <2>1. e \in Pings
    BY ZenonT(60), <1>2 DEF TypeOK, Pings
  <2>2. pings' = Append(pings, e)
        /\ pending' = [pending EXCEPT ![p] = @ \cup {Len(pings) + 1}]
    BY ZenonT(60), <1>2 DEF SendPing
  <2>3. pings \in Seq(Pings)
        /\ Len(pings) \in Nat /\ Len(pings) < MaxPings
    BY <1>2, BoundAssumption DEF TypeOK
  <2> HIDE DEF e
  <2>4. /\ pings' \in Seq(Pings)
        /\ Len(pings') = Len(pings) + 1
        /\ \A n \in 1..Len(pings) : pings'[n] = pings[n]
    BY <2>1, <2>2, <2>3
  <2>5. pending' \in [Peer -> SUBSET (1..Len(pings'))]
    BY <2>2, <2>3, <2>4 DEF TypeOK
  <2> QED BY <2>3, <2>4, <2>5, BoundAssumption
<1> QED BY ZenonT(60), <1>1, <1>2 DEF SendPing

LEMMA TypeStep == IInv /\ [Next]_vars => TypeOK'
<1> SUFFICES ASSUME IInv, [Next]_vars PROVE TypeOK'
  BY ZenonT(60)
<1> USE SetsAssumption, PeerOfAssumption, BoundAssumption
<1>0. TypeOK
  BY ZenonT(60) DEF IInv
<1>1. CASE UNCHANGED vars \/ Quiet
  BY ZenonT(60), <1>0, <1>1 DEF vars, Quiet, TypeOK
<1>2. ASSUME NEW s \in Session, SessionStep(s) PROVE TypeOK'
  <2>0. PeerOf[s] \in Peer
    BY ZenonT(60)
  <2>1. CASE BeginSession(s)
    <3>1. ForgetProof(PeerOf[s])
      BY ZenonT(60), <2>1 DEF BeginSession
    <3>2. /\ direct' \in [Peer -> [addr : Addr, nonce : 1..Len(pings)] \cup {None}]
          /\ fresh' \in [Peer -> BOOLEAN]
          /\ byDirect' \in [Addr -> Peer \cup {None}]
      BY ZenonT(60), <1>0, <2>0, <3>1, ForgetProofType
    <3> QED BY ZenonT(60), <1>0, <2>0, <2>1, <3>2 DEF BeginSession, TypeOK, Phases, keys
  <2>2. CASE HandshakeFails(s)
    <3>1. slot' \in [Peer -> Session \cup {None}]
      BY ZenonT(60), <1>0, <2>2, EndSessionType DEF HandshakeFails
    <3> QED BY ZenonT(60), <1>0, <2>2, <3>1 DEF HandshakeFails, TypeOK, Phases, keys, proof
  <2>3. CASE Abandon(s) \/ Spawn(s) \/ CloseConnection(s) \/ DriveRelayLost(s)
             \/ GoDirect(s) \/ FindProofLost(s)
    BY ZenonT(60), <1>0, <2>3 DEF Abandon, Spawn, CloseConnection, DriveRelayLost, GoDirect,
                      FindProofLost, TypeOK, Phases, keys, proof
  <2>4. CASE Start(s)
    <3>1. key' \in [Peer -> Session \cup {None}] /\ byKey' \in [Session -> Peer \cup {None}]
      <4>1. CASE RegisterProbeKey(s)
        BY ZenonT(60), <1>0, <4>1, KeysType
      <4>2. CASE UNCHANGED keys
        BY ZenonT(60), <1>0, <4>2 DEF keys, TypeOK
      <4> QED BY ZenonT(60), <2>4, <4>1, <4>2 DEF Start
    <3> QED BY ZenonT(60), <1>0, <2>4, <3>1 DEF Start, TypeOK, Phases, proof
  <2>5. CASE DriveSuperseded(s)
    <3>1. key' \in [Peer -> Session \cup {None}] /\ byKey' \in [Session -> Peer \cup {None}]
      BY ZenonT(60), <1>0, <2>5, KeysType DEF DriveSuperseded
    <3> QED BY ZenonT(60), <1>0, <2>5, <3>1 DEF DriveSuperseded, TypeOK, Phases, proof
  <2>6. CASE DriveClosed(s)
    <3>1. key' \in [Peer -> Session \cup {None}] /\ byKey' \in [Session -> Peer \cup {None}]
      BY ZenonT(60), <1>0, <2>6, KeysType DEF DriveClosed
    <3>2. slot' \in [Peer -> Session \cup {None}]
      BY ZenonT(60), <1>0, <2>6, EndSessionType DEF DriveClosed
    <3> QED BY ZenonT(60), <1>0, <2>6, <3>1, <3>2 DEF DriveClosed, TypeOK, Phases, proof
  <2>7. CASE SendProbes(s)
    BY <1>0, <2>0, <2>7, SMTT(40) DEF SendProbes, TypeOK, keys, proof
  <2>8. CASE DropDirect(s)
    <3>1. /\ direct' \in [Peer -> [addr : Addr, nonce : 1..Len(pings)] \cup {None}]
          /\ fresh' \in [Peer -> BOOLEAN]
          /\ byDirect' \in [Addr -> Peer \cup {None}]
      <4>1. CASE ForgetProof(PeerOf[s])
        BY ZenonT(60), <1>0, <2>0, <4>1, ForgetProofType
      <4>2. CASE UNCHANGED proof
        BY ZenonT(60), <1>0, <4>2 DEF proof, TypeOK
      <4> QED BY ZenonT(60), <2>8, <4>1, <4>2 DEF DropDirect
    <3> QED BY ZenonT(60), <1>0, <2>8, <3>1 DEF DropDirect, TypeOK, Phases, keys
  <2>9. ASSUME NEW a \in Addr, PingTarget(s, a) PROVE TypeOK'
    <3>1. /\ pings' \in Seq(Pings)
          /\ Len(pings') <= MaxPings
          /\ Len(pings) <= Len(pings')
          /\ pending' \in [Peer -> SUBSET (1..Len(pings'))]
      BY ZenonT(60), <1>0, <2>0, <2>9, SendPingType DEF PingTarget
    <3>2. direct' \in [Peer -> [addr : Addr, nonce : 1..Len(pings')] \cup {None}]
      BY <1>0, <2>9, <3>1 DEF PingTarget, proof, TypeOK
    <3> QED BY ZenonT(60), <1>0, <2>9, <3>1, <3>2 DEF PingTarget, TypeOK, keys, proof
  <2>10. ASSUME NEW list \in SUBSET Reach[PeerOf[s]], SetPeerCandidates(s, list)
         PROVE  TypeOK'
    <3>1. list \in SUBSET Addr
      BY ZenonT(60), <2>0, ReachAssumption
    <3> QED BY ZenonT(60), <1>0, <2>0, <2>10, <3>1 DEF SetPeerCandidates, TypeOK, session, keys, proof
  <2> QED BY ZenonT(60), <1>2, <2>1, <2>2, <2>3, <2>4, <2>5, <2>6, <2>7, <2>8, <2>9, <2>10
          DEF SessionStep
<1>3. CASE ReceiveStep
  <2>1. ASSUME NEW k \in Session, NEW from \in Addr, ReceivePing(k, from)
        PROVE  TypeOK'
    <3>1. ProbeSession(k) \in Peer
      BY ZenonT(60), <1>0, <2>1 DEF ReceivePing, ProbeSession, TypeOK
    <3>2. hand' \in Probes
      BY ZenonT(60), <2>1, <3>1 DEF ReceivePing, Probes
    <3> QED BY ZenonT(60), <1>0, <2>1, <3>2 DEF ReceivePing, TypeOK, session, keys, proof
  <2>2. ASSUME NEW n \in 1..Len(pings), NEW from \in Addr, ReceivePong(n, from)
        PROVE  TypeOK'
    <3>0. pings[n] \in Pings
      BY SMTT(30), <1>0 DEF TypeOK
    <3>1. pings[n].key \in Session /\ n \in 1..MaxPings
      BY SMTT(30), <1>0, <3>0 DEF TypeOK, Pings
    <3>2. ProbeSession(pings[n].key) \in Peer
      BY ZenonT(60), <1>0, <2>2, <3>1 DEF ReceivePong, ProbeSession, TypeOK
    <3>3. hand' \in Pongs
      BY ZenonT(60), <2>2, <3>1, <3>2 DEF ReceivePong, Pongs
    <3> QED BY ZenonT(60), <1>0, <2>2, <3>3 DEF ReceivePong, TypeOK, session, keys, proof
  <2>3. CASE HandlePing
    <3>1. hand \in Probes
      BY ZenonT(60), <1>0, <2>3 DEF HandlePing, TypeOK, Pongs
    <3>2. hand' \in Probes \cup {None}
      <4>1. hand' = None \/ hand' = [hand EXCEPT !.kind = "back"]
        BY ZenonT(60), <2>3 DEF HandlePing
      <4>2. [hand EXCEPT !.kind = "back"] \in Probes
        BY ZenonT(60), <3>1 DEF Probes
      <4> QED BY ZenonT(60), <4>1, <4>2
    <3>3. learned' \in [Peer -> SUBSET Addr]
      BY ZenonT(60), <1>0, <2>3, <3>1 DEF HandlePing, Probes, TypeOK
    <3> QED BY ZenonT(60), <1>0, <2>3, <3>2, <3>3 DEF HandlePing, TypeOK, session, keys, proof
  <2>4. CASE ProbeBack
    <3>1. hand.peer \in Peer
      BY ZenonT(60), <1>0, <2>4 DEF ProbeBack, TypeOK, Probes, Pongs
    <3>2. /\ pings' \in Seq(Pings)
          /\ Len(pings') <= MaxPings
          /\ Len(pings) <= Len(pings')
          /\ pending' \in [Peer -> SUBSET (1..Len(pings'))]
      BY ZenonT(60), <1>0, <2>4, <3>1, SendPingType DEF ProbeBack
    <3>3. direct' \in [Peer -> [addr : Addr, nonce : 1..Len(pings')] \cup {None}]
      BY SMTT(30), <1>0, <2>4, <3>2 DEF ProbeBack, proof, TypeOK
    <3> QED BY ZenonT(60), <1>0, <2>4, <3>2, <3>3 DEF ProbeBack, TypeOK, session, keys, proof
  <2>5. CASE HandlePong
    <3>1. hand \in Pongs
      BY ZenonT(60), <1>0, <2>5 DEF HandlePong, TypeOK, Probes
    <3>2. hand.peer \in Peer /\ hand.from \in Addr
      BY ZenonT(60), <3>1 DEF Pongs
    <3>3. CASE hand.nonce \in pending[hand.peer]
      <4>1. hand.nonce \in 1..Len(pings)
        BY ZenonT(60), <1>0, <3>2, <3>3 DEF TypeOK
      <4> DEFINE q == hand.peer
                 d == [addr |-> hand.from, nonce |-> hand.nonce]
      <4>2. d \in [addr : Addr, nonce : 1..Len(pings)]
        BY ZenonT(60), <3>2, <4>1
      <4>3. /\ direct' = [direct EXCEPT ![q] = d]
            /\ pending' = [pending EXCEPT ![q] = @ \ {hand.nonce}]
            /\ fresh' = [fresh EXCEPT ![q] = TRUE]
            /\ learned' = [learned EXCEPT ![q] = @ \ {hand.from}]
            /\ byDirect' = [byDirect EXCEPT ![hand.from] = q]
            /\ hand' = None
            /\ UNCHANGED <<session, slot, begun, keys, candidates, pings>>
        BY ZenonT(60), <2>5, <3>3 DEF HandlePong
      <4> HIDE DEF q, d
      <4>4. direct' \in [Peer -> [addr : Addr, nonce : 1..Len(pings)] \cup {None}]
        BY ZenonT(60), <1>0, <4>2, <4>3 DEF TypeOK
      <4>5. /\ pending' \in [Peer -> SUBSET (1..Len(pings))]
            /\ fresh' \in [Peer -> BOOLEAN]
            /\ learned' \in [Peer -> SUBSET Addr]
        BY ZenonT(60), <1>0, <4>3 DEF TypeOK
      <4>6. byDirect' \in [Addr -> Peer \cup {None}]
        BY ZenonT(60), <1>0, <3>2, <4>3 DEF TypeOK, q
      <4> QED BY ZenonT(60), <1>0, <4>3, <4>4, <4>5, <4>6 DEF TypeOK, session, keys
    <3>4. CASE hand.nonce \notin pending[hand.peer]
      BY ZenonT(60), <1>0, <2>5, <3>4 DEF HandlePong, TypeOK, session, keys, proof
    <3> QED BY ZenonT(60), <3>3, <3>4
  <2> QED BY ZenonT(60), <1>3, <2>1, <2>2, <2>3, <2>4, <2>5 DEF ReceiveStep
<1>4. ASSUME NEW p \in Peer, ProofAges(p) PROVE TypeOK'
  BY ZenonT(60), <1>0, <1>4 DEF ProofAges, TypeOK, session, keys
<1> QED BY ZenonT(60), <1>1, <1>2, <1>3, <1>4 DEF Next

-----------------------------------------------------------------------------
(* The slot and the keys.                                                  *)

LEMMA SlotStep == IInv /\ [Next]_vars => (SlotShape /\ RunningHasSlotOrNotice)'
<1> SUFFICES ASSUME IInv, [Next]_vars PROVE (SlotShape /\ RunningHasSlotOrNotice)'
  BY ZenonT(60)
<1> USE SetsAssumption, PeerOfAssumption DEF SlotShape, RunningHasSlotOrNotice, Running
<1>0. TypeOK /\ SlotShape /\ RunningHasSlotOrNotice
  BY ZenonT(60) DEF IInv
<1>t. /\ phase \in [Session -> Phases] /\ told \in [Session -> BOOLEAN]
      /\ slot \in [Peer -> Session \cup {None}]
  BY ZenonT(60), <1>0 DEF TypeOK
<1>1. CASE UNCHANGED <<phase, told, slot>>
  BY ZenonT(60), <1>0, <1>1
<1>2. ASSUME NEW s \in Session, BeginSession(s)
      PROVE  (SlotShape /\ RunningHasSlotOrNotice)'
  <2>1. /\ phase[s] = "idle" /\ phase' = [phase EXCEPT ![s] = "begun"]
        /\ slot' = [slot EXCEPT ![PeerOf[s]] = s]
        /\ told' = IF slot[PeerOf[s]] = None THEN told
                   ELSE [told EXCEPT ![slot[PeerOf[s]]] = TRUE]
    BY ZenonT(60), <1>2 DEF BeginSession
  <2>2. SlotShape'
    BY <1>0, <1>t, <2>1, SMTT(40)
  <2>3. RunningHasSlotOrNotice'
    BY <1>0, <1>t, <2>1, SMTT(40)
  <2> QED BY ZenonT(60), <2>2, <2>3
<1>3. ASSUME NEW s \in Session, HandshakeFails(s) \/ DriveClosed(s)
      PROVE  (SlotShape /\ RunningHasSlotOrNotice)'
  <2>1. /\ phase' = [phase EXCEPT ![s] = "done"] /\ told' = told
        /\ slot' = IF slot[PeerOf[s]] = s THEN [slot EXCEPT ![PeerOf[s]] = None]
                   ELSE slot
    BY ZenonT(60), <1>3 DEF HandshakeFails, DriveClosed, EndSession
  <2>2. phase[s] # "idle"
    BY ZenonT(60), <1>3 DEF HandshakeFails, DriveClosed, Driving
  <2>3. SlotShape'
    BY SMTT(30), <1>0, <2>1, <2>2 DEF TypeOK
  <2>4. RunningHasSlotOrNotice'
    BY SMTT(30), <1>0, <2>1 DEF TypeOK
  <2> QED BY ZenonT(60), <2>3, <2>4
<1>4. ASSUME NEW s \in Session, DriveSuperseded(s)
      PROVE  (SlotShape /\ RunningHasSlotOrNotice)'
  <2>1. /\ told[s] /\ phase[s] \in {"up", "direct"} /\ slot' = slot
        /\ phase' = [phase EXCEPT ![s] = "done"]
        /\ told' = [told EXCEPT ![s] = FALSE]
    BY ZenonT(60), <1>4 DEF DriveSuperseded, Driving
  <2>2. SlotShape'
    BY <1>0, <1>t, <2>1, SMTT(40)
  <2>3. RunningHasSlotOrNotice'
    BY ZenonT(60), <1>0, <1>t, <2>1, SMTT(40)
  <2> QED BY ZenonT(60), <2>2, <2>3
<1>5. ASSUME NEW s \in Session,
             \/ Abandon(s) \/ Start(s) \/ Spawn(s) \/ DriveRelayLost(s)
             \/ GoDirect(s) \/ FindProofLost(s) \/ DropDirect(s)
      PROVE  (SlotShape /\ RunningHasSlotOrNotice)'
  <2>1. PICK x \in {"opening", "up", "direct", "dropping", "failed", "dropped"} :
          phase' = [phase EXCEPT ![s] = x]
    BY ZenonT(60), <1>5 DEF Abandon, Start, Spawn, DriveRelayLost, GoDirect, FindProofLost,
                DropDirect
  <2>2. UNCHANGED <<slot, told>> /\ Running(s)
    BY ZenonT(60), <1>5 DEF Abandon, Start, Spawn, DriveRelayLost, GoDirect, FindProofLost,
                DropDirect, Driving
  <2>3. SlotShape'
    BY SMTT(30), <1>0, <2>1, <2>2 DEF TypeOK
  <2>4. RunningHasSlotOrNotice'
    BY ZenonT(60), <1>0, <2>1, <2>2 DEF TypeOK
  <2> QED BY ZenonT(60), <2>3, <2>4
<1>6. \/ UNCHANGED <<phase, told, slot>>
      \/ \E s \in Session :
           \/ BeginSession(s) \/ HandshakeFails(s) \/ DriveClosed(s)
           \/ DriveSuperseded(s) \/ Abandon(s) \/ Start(s) \/ Spawn(s)
           \/ DriveRelayLost(s) \/ GoDirect(s) \/ FindProofLost(s) \/ DropDirect(s)
  BY ZenonT(60) DEF Next, SessionStep, ReceiveStep, Quiet, vars, session, CloseConnection,
         SendProbes, PingTarget, SetPeerCandidates, ReceivePing, ReceivePong,
         HandlePing, ProbeBack, HandlePong, ProofAges
<1> QED BY ZenonT(60), <1>1, <1>2, <1>3, <1>4, <1>5, <1>6

LEMMA KeyStep == IInv /\ [Next]_vars => (KeyShape /\ KeyTables)'
<1> SUFFICES ASSUME IInv, [Next]_vars PROVE (KeyShape /\ KeyTables)'
  BY ZenonT(60)
<1> USE SetsAssumption, PeerOfAssumption DEF KeyShape, KeyTables
<1>0. TypeOK /\ KeyShape /\ KeyTables
  BY ZenonT(60) DEF IInv
<1>1. CASE UNCHANGED <<phase, key, byKey>>
  BY <1>0, <1>1
<1>2. ASSUME NEW s \in Session, UNCHANGED keys,
             \/ BeginSession(s) \/ HandshakeFails(s) \/ Abandon(s) \/ Start(s)
             \/ Spawn(s) \/ DriveRelayLost(s) \/ GoDirect(s) \/ FindProofLost(s)
             \/ DropDirect(s)
      PROVE  (KeyShape /\ KeyTables)'
  <2>1. PICK x \in Phases \ {"idle"} : phase' = [phase EXCEPT ![s] = x]
    BY ZenonT(60), <1>2 DEF BeginSession, HandshakeFails, Abandon, Start, Spawn,
       DriveRelayLost, GoDirect, FindProofLost, DropDirect, Phases
  <2>2. x \in {"begun", "done"} => phase[s] \in {"idle", "begun"}
    <3>1. CASE BeginSession(s) \/ HandshakeFails(s)
      BY ZenonT(60), <3>1 DEF BeginSession, HandshakeFails
    <3>2. CASE ~(BeginSession(s) \/ HandshakeFails(s))
      <4>1. phase'[s] \notin {"begun", "done"}
        <5>1. phase \in [Session -> Phases]
          BY ZenonT(60), <1>0 DEF TypeOK
        <5>2. CASE Abandon(s) \/ Start(s) \/ Spawn(s)
          BY ZenonT(60), <5>1, <5>2 DEF Abandon, Start, Spawn
        <5>3. CASE DriveRelayLost(s) \/ GoDirect(s)
          BY ZenonT(60), <5>1, <5>3 DEF DriveRelayLost, GoDirect
        <5>4. CASE FindProofLost(s) \/ DropDirect(s)
          BY ZenonT(60), <5>1, <5>4 DEF FindProofLost, DropDirect
        <5> QED BY ZenonT(60), <1>2, <3>2, <5>2, <5>3, <5>4
      <4> QED BY SMTT(30), <1>0, <2>1, <4>1 DEF TypeOK
    <3> QED BY ZenonT(60), <3>1, <3>2
  <2>3. key' = key /\ byKey' = byKey
    BY ZenonT(60), <1>2 DEF keys
  <2>4. KeyShape'
    BY SMTT(30), <1>0, <2>1, <2>2, <2>3 DEF TypeOK
  <2> QED BY SMTT(30), <1>0, <2>3, <2>4
<1>3. ASSUME NEW s \in Session, Start(s), RegisterProbeKey(s)
      PROVE  (KeyShape /\ KeyTables)'
  <2>1. byKey[s] = None
    BY ZenonT(60), <1>0, <1>3 DEF Start
  <2>2. KeyShape'
    <3>1. /\ phase' = [phase EXCEPT ![s] = "opening"] /\ phase[s] = "begun"
          /\ \A k \in Session : byKey'[k] = IF k = s THEN PeerOf[s]
                                           ELSE IF k = key[PeerOf[s]] THEN None
                                           ELSE byKey[k]
      BY ZenonT(60), <1>3 DEF Start, RegisterProbeKey
    <3>2. phase \in [Session -> Phases]
      BY ZenonT(60), <1>0 DEF TypeOK
    <3> QED BY <1>0, <3>1, <3>2, SMTT(40)
  <2>3. KeyTables'
    <3>1. key \in [Peer -> Session \cup {None}] /\ byKey \in [Session -> Peer \cup {None}]
      BY ZenonT(60), <1>0 DEF TypeOK
    <3>2. /\ key' = [key EXCEPT ![PeerOf[s]] = s]
          /\ \A k \in Session : byKey'[k] = IF k = s THEN PeerOf[s]
                                           ELSE IF k = key[PeerOf[s]] THEN None
                                           ELSE byKey[k]
      BY ZenonT(60), <1>3 DEF RegisterProbeKey
    <3> QED BY SMTT(30), <1>0, <2>1, <3>1, <3>2
  <2> QED BY ZenonT(60), <2>2, <2>3
<1>4. ASSUME NEW s \in Session, DriveSuperseded(s) \/ DriveClosed(s)
      PROVE  (KeyShape /\ KeyTables)'
  <2>1. UnregisterProbeKey(s) /\ phase' = [phase EXCEPT ![s] = "done"]
    BY ZenonT(60), <1>4 DEF DriveSuperseded, DriveClosed
  <2>2. KeyShape'
    BY <1>0, <2>1, SMTT(40) DEF UnregisterProbeKey, TypeOK
  <2>3. KeyTables'
    BY SMTT(30), <1>0, <2>1 DEF UnregisterProbeKey, TypeOK
  <2> QED BY ZenonT(60), <2>2, <2>3
<1>5. \/ UNCHANGED <<phase, key, byKey>>
      \/ \E s \in Session :
           \/ BeginSession(s) \/ HandshakeFails(s) \/ Abandon(s) \/ Spawn(s)
           \/ DriveRelayLost(s) \/ GoDirect(s) \/ FindProofLost(s) \/ DropDirect(s)
           \/ Start(s) \/ DriveSuperseded(s) \/ DriveClosed(s)
  BY ZenonT(60) DEF Next, SessionStep, ReceiveStep, Quiet, vars, session, keys,
         CloseConnection, SendProbes, PingTarget, SetPeerCandidates, ReceivePing,
         ReceivePong, HandlePing, ProbeBack, HandlePong, ProofAges
<1>6. ASSUME NEW s \in Session,
             \/ BeginSession(s) \/ HandshakeFails(s) \/ Abandon(s) \/ Spawn(s)
             \/ DriveRelayLost(s) \/ GoDirect(s) \/ FindProofLost(s) \/ DropDirect(s)
      PROVE  UNCHANGED keys
  BY ZenonT(60), <1>6 DEF BeginSession, HandshakeFails, Abandon, Spawn, DriveRelayLost,
              GoDirect, FindProofLost, DropDirect
<1>7. ASSUME NEW s \in Session, Start(s)
      PROVE  RegisterProbeKey(s) \/ UNCHANGED keys
  BY ZenonT(60), <1>7 DEF Start
<1> QED BY ZenonT(60), <1>1, <1>2, <1>3, <1>4, <1>5, <1>6, <1>7

-----------------------------------------------------------------------------
(* The proofs and the routes.                                              *)

LEMMA BegunStep == IInv /\ [Next]_vars => BegunShape'
<1> SUFFICES ASSUME IInv, [Next]_vars PROVE BegunShape'
  BY ZenonT(60)
<1> USE SetsAssumption, PeerOfAssumption
<1>0. TypeOK /\ BegunShape
  BY ZenonT(60) DEF IInv
<1>1. CASE UNCHANGED <<phase, begun>>
  BY ZenonT(60), <1>0, <1>1 DEF BegunShape
<1>2. ASSUME NEW s \in Session, NEW x \in Phases \ {"idle"},
             phase' = [phase EXCEPT ![s] = x],
             begun' = begun \/ begun' = [begun EXCEPT ![PeerOf[s]] = s]
      PROVE  BegunShape'
  BY SMTT(30), <1>0, <1>2 DEF BegunShape, TypeOK
<1>3. \/ UNCHANGED <<phase, begun>>
      \/ \E s \in Session, x \in Phases \ {"idle"} :
           /\ phase' = [phase EXCEPT ![s] = x]
           /\ begun' = begun \/ begun' = [begun EXCEPT ![PeerOf[s]] = s]
  <2>1. ASSUME NEW s \in Session, SessionStep(s)
        PROVE  \/ UNCHANGED <<phase, begun>>
               \/ \E x \in Phases \ {"idle"} :
                    /\ phase' = [phase EXCEPT ![s] = x]
                    /\ begun' = begun \/ begun' = [begun EXCEPT ![PeerOf[s]] = s]
    BY ZenonT(60), <2>1 DEF SessionStep, Phases, session, BeginSession, HandshakeFails, Abandon,
       Start, Spawn, CloseConnection, DriveSuperseded, DriveClosed, DriveRelayLost,
       SendProbes, PingTarget, GoDirect, FindProofLost, DropDirect, SetPeerCandidates
  <2> QED BY ZenonT(60), <2>1 DEF Next, ReceiveStep, Quiet, vars, session, ReceivePing,
             ReceivePong, HandlePing, ProbeBack, HandlePong, ProofAges
<1> QED BY ZenonT(60), <1>1, <1>2, <1>3

LEMMA SendPingPending ==
  ASSUME TypeOK, PendingShape, NEW p \in Peer, SendPing(p), begun' = begun
  PROVE  PendingShape'
<1>1. /\ Len(pings) \in Nat
      /\ \A n \in 1..Len(pings) : pings'[n] = pings[n]
      /\ \A q \in Peer : pending[q] \in SUBSET (1..Len(pings))
  <2>1. pings \in Seq(Pings) /\ pending \in [Peer -> SUBSET (1..Len(pings))]
    BY ZenonT(60) DEF TypeOK
  <2>2. Len(pings) \in Nat
    BY <2>1
  <2>3. \A n \in 1..Len(pings) : pings'[n] = pings[n]
    BY ZenonT(60), SendPingType
  <2> QED BY ZenonT(60), <2>1, <2>2, <2>3
<1>2. CASE UNCHANGED <<pings, pending>>
  BY ZenonT(60), <1>2 DEF PendingShape
<1>3. CASE ~(key[p] = None \/ Len(pings) >= MaxPings)
  <2> DEFINE e == [key |-> key[p], peer |-> p, era |-> begun[p]]
             m == Len(pings) + 1
  <2>1. pings' = Append(pings, e) /\ pending' = [pending EXCEPT ![p] = @ \cup {m}]
    BY ZenonT(60), <1>3 DEF SendPing
  <2>2. pings'[m] = e
    <3>1. pings \in Seq(Pings) /\ e \in Pings
      BY ZenonT(60), <1>3 DEF TypeOK, Pings
    <3> HIDE DEF e
    <3> QED BY <2>1, <3>1
  <2>3. pings'[m].peer = p /\ pings'[m].era = begun[p]
    <3>1. e.peer = p /\ e.era = begun[p]
      BY ZenonT(60)
    <3> HIDE DEF e, m
    <3> QED BY ZenonT(60), <2>2, <3>1
  <2>4. ASSUME NEW q \in Peer, NEW n \in pending'[q]
        PROVE  pings'[n].peer = q /\ pings'[n].era = begun[q]
    <3>1. n \in pending[q] \/ (q = p /\ n = m)
      BY ZenonT(60), <2>1, <2>4 DEF TypeOK
    <3>2. CASE n \in pending[q]
      BY <1>1, <3>2, ZenonT(60) DEF PendingShape
    <3> HIDE DEF m
    <3> QED BY ZenonT(60), <2>3, <3>1, <3>2
  <2> QED BY ZenonT(60), <2>4 DEF PendingShape
<1> QED BY ZenonT(60), <1>2, <1>3 DEF SendPing

LEMMA SendPingOwed ==
  ASSUME TypeOK, ProofIsOwed, NEW p \in Peer, SendPing(p), UNCHANGED <<begun, direct>>
  PROVE  ProofIsOwed'
<1>1. \A n \in 1..Len(pings) : pings'[n] = pings[n]
  BY ZenonT(60), SendPingType
<1>2. \A q \in Peer : direct[q] # None => direct[q].nonce \in 1..Len(pings)
  BY ZenonT(60) DEF TypeOK
<1> QED BY ZenonT(60), <1>1, <1>2 DEF ProofIsOwed

LEMMA ProofStep == IInv /\ [Next]_vars => (PendingShape /\ ProofIsOwed)'
<1> SUFFICES ASSUME IInv, [Next]_vars PROVE (PendingShape /\ ProofIsOwed)'
  BY ZenonT(60)
<1> USE SetsAssumption, PeerOfAssumption
<1>0. TypeOK /\ PendingShape /\ ProofIsOwed
  BY ZenonT(60) DEF IInv
<1>1. CASE UNCHANGED <<begun, pending, direct, pings>>
  BY ZenonT(60), <1>0, <1>1 DEF PendingShape, ProofIsOwed
<1>2. ASSUME NEW s \in Session, BeginSession(s) PROVE (PendingShape /\ ProofIsOwed)'
  <2>1. /\ pings' = pings
        /\ begun' = [begun EXCEPT ![PeerOf[s]] = s]
        /\ pending' = [pending EXCEPT ![PeerOf[s]] = {}]
        /\ direct' = [direct EXCEPT ![PeerOf[s]] = None]
    BY ZenonT(60), <1>2 DEF BeginSession, ForgetProof
  <2>2. DOMAIN begun = Peer /\ DOMAIN pending = Peer /\ DOMAIN direct = Peer
    BY ZenonT(60), <1>0 DEF TypeOK
  <2>3. PendingShape'
    BY ZenonT(60), <1>0, <2>1, <2>2 DEF PendingShape
  <2>4. ProofIsOwed'
    BY ZenonT(60), <1>0, <2>1, <2>2 DEF ProofIsOwed
  <2> QED BY ZenonT(60), <2>3, <2>4
<1>3. ASSUME NEW s \in Session, SendProbes(s) PROVE (PendingShape /\ ProofIsOwed)'
  <2>1. UNCHANGED <<begun, direct, pings>>
    BY ZenonT(60), <1>3 DEF SendProbes, proof
  <2>2. \A q \in Peer : pending'[q] \in SUBSET pending[q]
    BY ZenonT(60), <1>0, <1>3 DEF SendProbes, TypeOK
  <2> QED BY ZenonT(60), <1>0, <2>1, <2>2 DEF PendingShape, ProofIsOwed
<1>4. ASSUME NEW s \in Session, NEW a \in Addr, PingTarget(s, a)
      PROVE  (PendingShape /\ ProofIsOwed)'
  BY ZenonT(60), <1>0, <1>4, SendPingPending, SendPingOwed DEF PingTarget, proof
<1>5. ASSUME NEW s \in Session, DropDirect(s) PROVE (PendingShape /\ ProofIsOwed)'
  <2>1. UNCHANGED <<begun, pending, pings>>
    BY ZenonT(60), <1>5 DEF DropDirect
  <2>2. \A q \in Peer : direct'[q] = direct[q] \/ direct'[q] = None
    BY ZenonT(60), <1>0, <1>5 DEF DropDirect, ForgetProof, proof, TypeOK
  <2>3. PendingShape'
    BY ZenonT(60), <1>0, <2>1 DEF PendingShape
  <2>4. ProofIsOwed'
    BY ZenonT(60), <1>0, <2>1, <2>2 DEF ProofIsOwed
  <2> QED BY ZenonT(60), <2>3, <2>4
<1>6. CASE ProbeBack
  <2>1. hand.peer \in Peer
    BY ZenonT(60), <1>0, <1>6 DEF ProbeBack, TypeOK, Probes, Pongs
  <2> QED BY ZenonT(60), <1>0, <1>6, <2>1, SendPingPending, SendPingOwed DEF ProbeBack, proof
<1>7. CASE HandlePong
  <2>1. hand.peer \in Peer
    BY ZenonT(60), <1>0, <1>7 DEF HandlePong, TypeOK, Probes, Pongs
  <2>2. CASE hand.nonce \notin pending[hand.peer]
    BY ZenonT(60), <1>0, <1>7, <2>2 DEF HandlePong, PendingShape, ProofIsOwed, proof
  <2>3. CASE hand.nonce \in pending[hand.peer]
    <3> DEFINE q == hand.peer
               d == [addr |-> hand.from, nonce |-> hand.nonce]
    <3>1. /\ UNCHANGED <<begun, pings>>
          /\ pending' = [pending EXCEPT ![q] = @ \ {hand.nonce}]
          /\ direct' = [direct EXCEPT ![q] = d]
      BY ZenonT(60), <1>7, <2>3 DEF HandlePong
    <3>2. pings[hand.nonce].peer = q /\ pings[hand.nonce].era = begun[q]
      BY ZenonT(60), <1>0, <2>1, <2>3 DEF PendingShape
    <3>3. d.nonce = hand.nonce
      BY ZenonT(60)
    <3> HIDE DEF q, d
    <3>4. ProofIsOwed'
      BY ZenonT(60), <1>0, <3>1, <3>2, <3>3 DEF ProofIsOwed, TypeOK
    <3>5. PendingShape'
      BY ZenonT(60), <1>0, <3>1 DEF PendingShape, TypeOK
    <3> QED BY ZenonT(60), <3>4, <3>5
  <2> QED BY ZenonT(60), <2>2, <2>3
<1>8. \/ UNCHANGED <<begun, pending, direct, pings>>
      \/ \E s \in Session :
           \/ BeginSession(s) \/ SendProbes(s) \/ DropDirect(s)
           \/ \E a \in Addr : PingTarget(s, a)
      \/ ProbeBack \/ HandlePong
  BY ZenonT(60) DEF Next, SessionStep, ReceiveStep, Quiet, vars, proof, HandshakeFails,
         Abandon, Start, Spawn, CloseConnection, DriveSuperseded, DriveClosed,
         DriveRelayLost, GoDirect, FindProofLost, SetPeerCandidates, ReceivePing,
         ReceivePong, HandlePing, ProofAges
<1> QED BY ZenonT(60), <1>1, <1>2, <1>3, <1>4, <1>5, <1>6, <1>7, <1>8

\* Forgetting the proof of one peer leaves the routes of the others alone.
LEMMA ForgetProofRoutes ==
  ASSUME TypeOK, ReachShape, ProvenIsRouted, NEW p \in Peer, ForgetProof(p)
  PROVE  /\ ProvenIsRouted'
         /\ \A q \in Peer : direct'[q] # None => direct'[q] = direct[q]
<1> USE SetsAssumption, ReachAssumption
<1>1. \A q \in Peer : direct'[q] = IF q = p THEN None ELSE direct[q]
  BY ZenonT(60) DEF TypeOK, ForgetProof
<1>2. ASSUME NEW q \in Peer, direct'[q] # None PROVE byDirect'[direct'[q].addr] = q
  <2>1. q # p /\ direct'[q] = direct[q] /\ direct[q] # None
    BY ZenonT(60), <1>1, <1>2
  <2>2. direct[q].addr \in Reach[q] /\ direct[q].addr \in Addr
    BY ZenonT(60), <2>1 DEF ReachShape
  <2>3. direct[p] # None => direct[p].addr # direct[q].addr
    BY ZenonT(60), <2>1, <2>2 DEF ReachShape
  <2>4. byDirect'[direct[q].addr] = byDirect[direct[q].addr]
    BY ZenonT(60), <2>2, <2>3 DEF ForgetProof, TypeOK
  <2> QED BY ZenonT(60), <2>1, <2>4 DEF ProvenIsRouted
<1> QED BY ZenonT(60), <1>1, <1>2 DEF ProvenIsRouted

LEMMA RouteStep == IInv /\ [Next]_vars => (ReachShape /\ ProvenIsRouted)'
<1> SUFFICES ASSUME IInv, [Next]_vars PROVE (ReachShape /\ ProvenIsRouted)'
  BY ZenonT(60)
<1> USE SetsAssumption, PeerOfAssumption, ReachAssumption
<1>0. TypeOK /\ ReachShape /\ ProvenIsRouted
  BY ZenonT(60) DEF IInv
<1>1. CASE UNCHANGED <<direct, byDirect>> /\ (hand' = hand \/ hand' = None)
  BY ZenonT(60), <1>0, <1>1 DEF ReachShape, ProvenIsRouted
<1>2. ASSUME NEW p \in Peer, ForgetProof(p), hand' = hand
      PROVE  (ReachShape /\ ProvenIsRouted)'
  BY ZenonT(60), <1>0, <1>2, ForgetProofRoutes DEF ReachShape
<1>3. ASSUME NEW k \in Session, NEW from \in Addr, ReceivePing(k, from)
      PROVE  (ReachShape /\ ProvenIsRouted)'
  BY ZenonT(60), <1>0, <1>3 DEF ReceivePing, ReachShape, ProvenIsRouted, proof
<1>4. ASSUME NEW n \in 1..Len(pings), NEW from \in Addr, ReceivePong(n, from)
      PROVE  (ReachShape /\ ProvenIsRouted)'
  BY ZenonT(60), <1>0, <1>4 DEF ReceivePong, ReachShape, ProvenIsRouted, proof
<1>5. CASE HandlePing
  <2>1. hand' = None \/ (hand'.from = hand.from /\ hand'.peer = hand.peer)
    BY ZenonT(60), <1>0, <1>5 DEF HandlePing, TypeOK, Probes, Pongs
  <2> QED BY ZenonT(60), <1>0, <1>5, <2>1 DEF HandlePing, ReachShape, ProvenIsRouted, proof
<1>6. CASE HandlePong /\ hand.nonce \in pending[hand.peer]
  <2> DEFINE d == [addr |-> hand.from, nonce |-> hand.nonce]
  <2>1. hand.peer \in Peer /\ hand.from \in Addr
    BY ZenonT(60), <1>0, <1>6 DEF HandlePong, TypeOK, Probes, Pongs
  <2>2. /\ hand' = None
        /\ direct' = [direct EXCEPT ![hand.peer] = d]
        /\ byDirect' = [byDirect EXCEPT ![hand.from] = hand.peer]
    BY ZenonT(60), <1>6 DEF HandlePong
  <2>3. hand.from \in Reach[hand.peer] /\ d.addr = hand.from
    BY ZenonT(60), <1>0, <1>6 DEF HandlePong, ReachShape
  <2> HIDE DEF d
  <2>4. \A q \in Peer : direct'[q] = IF q = hand.peer THEN d ELSE direct[q]
    BY ZenonT(60), <1>0, <2>1, <2>2 DEF TypeOK
  <2>5. \A a \in Addr : byDirect'[a] = IF a = hand.from THEN hand.peer ELSE byDirect[a]
    BY ZenonT(60), <1>0, <2>1, <2>2 DEF TypeOK
  <2>6. ReachShape'
    BY ZenonT(60), <1>0, <2>2, <2>3, <2>4 DEF ReachShape
  <2>7. ASSUME NEW q \in Peer, direct'[q] # None PROVE byDirect'[direct'[q].addr] = q
    <3>1. CASE q = hand.peer
      BY ZenonT(60), <2>1, <2>3, <2>4, <2>5, <3>1
    <3>2. CASE q # hand.peer
      <4>1. direct[q] # None /\ direct'[q] = direct[q] /\ direct[q].addr \in Reach[q]
        BY ZenonT(60), <1>0, <2>4, <2>7, <3>2 DEF ReachShape
      <4>2. direct[q].addr \in Addr /\ direct[q].addr # hand.from
        BY ZenonT(60), <2>1, <2>3, <3>2, <4>1
      <4> QED BY ZenonT(60), <1>0, <2>5, <4>1, <4>2 DEF ProvenIsRouted
    <3> QED BY ZenonT(60), <3>1, <3>2
  <2> QED BY ZenonT(60), <2>6, <2>7 DEF ProvenIsRouted
<1>7. \/ UNCHANGED <<direct, byDirect>> /\ (hand' = hand \/ hand' = None)
      \/ \E p \in Peer : ForgetProof(p) /\ hand' = hand
      \/ \E k \in Session, from \in Addr : ReceivePing(k, from)
      \/ \E n \in 1..Len(pings), from \in Addr : ReceivePong(n, from)
      \/ HandlePing
      \/ HandlePong /\ hand.nonce \in pending[hand.peer]
  BY ZenonT(60) DEF Next, SessionStep, ReceiveStep, Quiet, vars, proof, BeginSession,
         HandshakeFails, Abandon, Start, Spawn, CloseConnection, DriveSuperseded,
         DriveClosed, DriveRelayLost, SendProbes, PingTarget, GoDirect,
         FindProofLost, DropDirect, SetPeerCandidates, ProbeBack, HandlePong,
         ProofAges
<1> QED BY ZenonT(60), <1>1, <1>2, <1>3, <1>4, <1>5, <1>6, <1>7

-----------------------------------------------------------------------------
(* The theorems.                                                           *)

\* Every reachable state of the path table satisfies the inductive invariant.
THEOREM PathsInvariant == Spec => []IInv
<1>1. IInv /\ [Next]_vars => IInv'
  BY ZenonT(60), TypeStep, SlotStep, BegunStep, KeyStep, ProofStep, RouteStep DEF IInv
<1> QED BY InitInvariant, <1>1, PTL DEF Spec

\* The path table keeps its types, and a pending nonce is one really sent.
THEOREM TypeCorrect == Spec => []TypeOK
<1>1. IInv => TypeOK
  BY ZenonT(60) DEF IInv
<1> QED BY PathsInvariant, <1>1, PTL

\* register_probe_key and unregister_probe_key keep the two key tables inverse.
THEOREM KeyTablesCorrect == Spec => []KeyTables
<1>1. IInv => KeyTables
  BY ZenonT(60) DEF IInv
<1> QED BY PathsInvariant, <1>1, PTL

\* However late a pong is, the proof it makes answers a ping sent to that peer
\* since begin_session last cleared its path state.
THEOREM ProofIsOwedCorrect == Spec => []ProofIsOwed
<1>1. IInv => ProofIsOwed
  BY ZenonT(60) DEF IInv
<1> QED BY PathsInvariant, <1>1, PTL

\* The address a peer was proved at is attributed to that peer.
THEOREM ProvenIsRoutedCorrect == Spec => []ProvenIsRouted
<1>1. IInv => ProvenIsRouted
  BY ZenonT(60) DEF IInv
<1> QED BY PathsInvariant, <1>1, PTL

\* begin_session and end_session never leave a running session with neither
\* its slot nor the notice that it was superseded.
THEOREM RunningHasSlotOrNoticeCorrect == Spec => []RunningHasSlotOrNotice
<1>1. IInv => RunningHasSlotOrNotice
  BY ZenonT(60) DEF IInv
<1> QED BY PathsInvariant, <1>1, PTL

\* A session that ended through its own epilogue left no key and no slot.
THEOREM EndedLeavesNothingCorrect == Spec => []EndedLeavesNothing
<1>1. IInv => EndedLeavesNothing
  BY SMTT(30), PeerOfAssumption, SetsAssumption DEF IInv, SlotShape, KeyShape, EndedLeavesNothing
<1> QED BY PathsInvariant, <1>1, PTL

\* Only a new session, or drop_direct of the session that has the slot,
\* forgets a proof.
THEOREM ProofKeptCorrect == Spec => ProofKept
<1> DEFINE A == \A p \in Peer : direct[p] # None /\ direct'[p] = None =>
                  \/ begun'[p] # begun[p]
                  \/ /\ slot[p] # None
                     /\ phase[slot[p]] = "dropping"
                     /\ phase'[slot[p]] = "up"
<1>1. IInv /\ [Next]_vars => [A]_vars
  <2> SUFFICES ASSUME IInv, Next, NEW p \in Peer, direct[p] # None, direct'[p] = None
               PROVE  \/ begun'[p] # begun[p]
                      \/ /\ slot[p] # None
                         /\ phase[slot[p]] = "dropping"
                         /\ phase'[slot[p]] = "up"
    BY ZenonT(60)
  <2>0. TypeOK /\ BegunShape
    BY ZenonT(60) DEF IInv
  <2>1. CASE \E s \in Session : BeginSession(s)
    <3>1. PICK s \in Session : BeginSession(s)
      BY ZenonT(60), <2>1
    <3>2. PeerOf[s] = p /\ begun'[p] = s
      <4>1. /\ begun' = [begun EXCEPT ![PeerOf[s]] = s]
            /\ direct' = [direct EXCEPT ![PeerOf[s]] = None]
        BY ZenonT(60), <3>1 DEF BeginSession, ForgetProof
      <4>2. p = PeerOf[s] \/ direct'[p] = direct[p]
        <5>1. DOMAIN direct = Peer
          BY ZenonT(60), <2>0 DEF TypeOK
        <5> QED BY ZenonT(60), <4>1, <5>1
      <4>3. DOMAIN begun = Peer
        BY ZenonT(60), <2>0 DEF TypeOK
      <4> QED BY ZenonT(60), <4>1, <4>2, <4>3
    <3>3. begun[p] # s
      BY ZenonT(60), <2>0, <3>1, <3>2, SetsAssumption DEF BeginSession, TypeOK, BegunShape
    <3> QED BY ZenonT(60), <3>2, <3>3
  <2>2. CASE \E s \in Session : DropDirect(s)
    <3>1. PICK s \in Session : DropDirect(s)
      BY ZenonT(60), <2>2
    <3>2. PeerOf[s] = p /\ slot[p] = s
      BY ZenonT(60), <2>0, <3>1, PeerOfAssumption DEF DropDirect, ForgetProof, TypeOK, proof
    <3> QED BY ZenonT(60), <2>0, <3>1, <3>2, SetsAssumption DEF DropDirect, TypeOK
  <2>3. CASE HandlePong
    <3>1. hand.peer \in Peer /\ hand.from \in Addr /\ hand.nonce \in 1..MaxPings
      BY ZenonT(60), <2>0, <2>3 DEF HandlePong, TypeOK, Probes, Pongs
    <3>2. [addr |-> hand.from, nonce |-> hand.nonce] # None
      BY ZenonT(60), <3>1, NoneAssumption
    <3>3. direct' = direct \/
          direct' = [direct EXCEPT ![hand.peer] = [addr |-> hand.from, nonce |-> hand.nonce]]
      BY ZenonT(60), <2>3 DEF HandlePong, proof
    <3> QED BY ZenonT(60), <2>0, <3>1, <3>2, <3>3 DEF TypeOK
  <2>4. direct' = direct \/ (\E s \in Session : BeginSession(s) \/ DropDirect(s)) \/ HandlePong
    BY ZenonT(60) DEF Next, SessionStep, ReceiveStep, Quiet, vars, proof, HandshakeFails,
           Abandon, Start, Spawn, CloseConnection, DriveSuperseded, DriveClosed,
           DriveRelayLost, SendProbes, PingTarget, GoDirect, FindProofLost,
           SetPeerCandidates, ReceivePing, ReceivePong, HandlePing, ProbeBack,
           ProofAges
  <2> QED BY ZenonT(60), <2>1, <2>2, <2>3, <2>4
<1> QED BY PathsInvariant, <1>1, PTL DEF Spec, ProofKept

\* The path table is coherent for any sessions, peers and addresses: the facts
\* proved above, together (begin_session, end_session, register_probe_key,
\* handle_probe, drop_direct).
THEOREM PathsCoherentCorrect == Spec => []PathsCoherent
BY TypeCorrect, KeyTablesCorrect, RunningHasSlotOrNoticeCorrect, EndedLeavesNothingCorrect,
   ProofIsOwedCorrect, ProvenIsRoutedCorrect, PTL DEF PathsCoherent

\* Min and Max of a pair, as the models use them.
LEMMA MinOfPair ==
  ASSUME NEW a \in Int, NEW b \in Int
  PROVE  /\ Min({a, b}) \in {a, b}
         /\ Min({a, b}) <= a /\ Min({a, b}) <= b
<1>1. \E x \in {a, b} : \A y \in {a, b} : x <= y
  <2>1. CASE a <= b BY <2>1
  <2>2. CASE b <= a BY <2>2
  <2> QED BY <2>1, <2>2
<1>2. Min({a, b}) \in {a, b} /\ \A y \in {a, b} : Min({a, b}) <= y
  BY ZenonT(60), <1>1 DEF Min
<1> QED BY ZenonT(60), <1>2

LEMMA MaxOfPair ==
  ASSUME NEW a \in Int, NEW b \in Int
  PROVE  /\ Max({a, b}) \in {a, b}
         /\ Max({a, b}) >= a /\ Max({a, b}) >= b
<1>1. \E x \in {a, b} : \A y \in {a, b} : x >= y
  <2>1. CASE a >= b BY <2>1
  <2>2. CASE b >= a BY <2>2
  <2> QED BY <2>1, <2>2
<1>2. Max({a, b}) \in {a, b} /\ \A y \in {a, b} : Max({a, b}) >= y
  BY ZenonT(60), <1>1 DEF Max
<1> QED BY ZenonT(60), <1>2

(***************************************************************************)
(* Address cards.                                                          *)
(***************************************************************************)
\* What `card` signs: a serial, a life the rules allow and not too many hints.
WellMade ==
  {c \in [issued : Nat, expires : Nat, serial : 1..Top, nth : Nat, hints : Seq(Hint), bytes : Nat] :
     /\ c.issued < c.expires /\ c.expires - c.issued <= MaxLifetime
     /\ Len(c.hints) <= MaxHints /\ c.bytes >= MinCardBytes}

CardTypes ==
  /\ time \in 0..MaxTime /\ drift \in -ClockSkew..ClockSkew
  /\ serial \in -1..Top /\ kept \in 0..Top /\ highest \in 0..Top /\ signed \in Nat
  /\ drawn \subseteq WellMade /\ ready \subseteq WellMade /\ handed \subseteq WellMade

LEMMA Constants ==
  /\ Top \in Nat /\ Top >= 1 /\ ClockSkew \in Nat /\ MaxLifetime \in Nat /\ MaxLifetime >= 1
  /\ MaxTime \in Nat /\ MaxTime + ClockSkew <= Top /\ Ttls \subseteq Nat
BY CardBounds

LEMMA NowType ==
  ASSUME CardTypes PROVE Now \in 0..Top /\ Now <= time + ClockSkew
<1>1. /\ time + drift \in Int /\ time + drift <= Top /\ time + drift <= time + ClockSkew
      /\ 0 <= time + ClockSkew
  BY Constants DEF CardTypes
<1>2. 0 \in Int
  OBVIOUS
<1>3. Now \in {0, time + drift} /\ Now >= 0
  BY ZenonT(60), <1>1, <1>2, MaxOfPair DEF Now
<1> QED BY <1>1, <1>3, Constants DEF CardTypes

\* What `card` draws: above every earlier serial until the counter is exhausted.
LEMMA NextSerial ==
  ASSUME CardTypes, serial # -1
  PROVE  LET next == Max({Min({serial + 1, Top}), Now})
         IN /\ next \in 1..Top /\ next >= serial
            /\ next > serial \/ (serial = Top /\ next = Top)
<1> DEFINE least == Min({serial + 1, Top})
<1> DEFINE next == Max({least, Now})
<1>1. serial + 1 \in Int /\ Top \in Int /\ serial \in 0..Top /\ Now \in Int /\ Now \in 0..Top
  BY Constants, NowType DEF CardTypes
<1>2. least \in {serial + 1, Top} /\ least <= serial + 1 /\ least <= Top
  BY ZenonT(60), <1>1, MinOfPair
<1>3. least \in 1..Top /\ least \in Int /\ (least > serial \/ serial = Top)
  <2> HIDE DEF least
  <2> QED BY <1>1, <1>2, Constants
<1>4. next \in {least, Now} /\ next >= least
  BY ZenonT(60), <1>1, <1>3, MaxOfPair
<1>5. /\ next \in 1..Top /\ next >= serial
      /\ next > serial \/ (serial = Top /\ next = Top)
  <2> HIDE DEF least, next
  <2> QED BY <1>1, <1>3, <1>4, <1>2
<1> QED BY ZenonT(60), <1>5

LEMMA Lifetime ==
  ASSUME NEW ttl \in Ttls
  PROVE  Min({Max({ttl, 1}), MaxLifetime}) \in 1..MaxLifetime
<1> DEFINE most == Max({ttl, 1})
<1>1. ttl \in Int /\ 1 \in Int /\ ttl \in Nat /\ MaxLifetime \in Int
  BY Constants
<1>2. most \in {ttl, 1} /\ most >= 1
  BY ZenonT(60), <1>1, MaxOfPair
<1> HIDE DEF most
<1>3. most \in Int
  BY ZenonT(60), <1>1, <1>2
<1>4. Min({most, MaxLifetime}) \in {most, MaxLifetime} /\ Min({most, MaxLifetime}) <= MaxLifetime
  BY ZenonT(60), <1>1, <1>3, MinOfPair
<1> DEFINE life == Min({most, MaxLifetime})
<1>5. life \in 1..MaxLifetime
  <2>1. life \in {most, MaxLifetime} /\ life <= MaxLifetime
    BY ZenonT(60), <1>4
  <2> HIDE DEF life
  <2> QED BY <2>1, <1>2, <1>3, Constants
<1> QED BY ZenonT(60), <1>5 DEF most

\* CardHints keeps as many of the endpoint's own hints as leave room for the
\* caller's: the result is within the bound.
LEMMA CardHintsFit ==
  ASSUME NEW own \in Owns, NEW extra \in Extras
  PROVE  CardHints(own, extra) \in Seq(Hint) /\ Len(CardHints(own, extra)) <= MaxHints
<1>1. own \in Seq(Hint) /\ extra \in Seq(Hint) /\ Len(own) \in Nat /\ Len(extra) \in Nat
  BY HintsAssumption
<1> DEFINE m == Min({Len(extra), MaxHints})
<1> DEFINE added == SubSeq(extra, 1, m)
<1> DEFINE k == Min({Len(own), MaxHints - Len(added)})
<1> DEFINE first == SubSeq(own, 1, k)
<1> DEFINE hints == first \o added
<1>2. m \in 0..MaxHints /\ m <= Len(extra)
  <2>1. Len(extra) \in Int /\ MaxHints \in Int
    BY <1>1 DEF MaxHints
  <2>2. m \in {Len(extra), MaxHints} /\ m <= Len(extra) /\ m <= MaxHints
    BY ZenonT(60), <2>1, MinOfPair
  <2> HIDE DEF m
  <2> QED BY <1>1, <2>2 DEF MaxHints
<1>3. added \in Seq(Hint) /\ Len(added) = m
  <2> HIDE DEF m
  <2> QED BY <1>1, <1>2
<1>4. k \in 0..(MaxHints - m) /\ k <= Len(own)
  <2>1. Len(own) \in Int /\ MaxHints - Len(added) \in Int /\ MaxHints - Len(added) = MaxHints - m
    <3> HIDE DEF m, added
    <3> QED BY <1>1, <1>2, <1>3 DEF MaxHints
  <2>2. /\ k \in {Len(own), MaxHints - Len(added)} /\ k <= Len(own)
        /\ k <= MaxHints - Len(added)
    BY ZenonT(60), <2>1, MinOfPair
  <2> HIDE DEF m, added, k
  <2> QED BY <1>1, <1>2, <2>1, <2>2 DEF MaxHints
<1>5. first \in Seq(Hint) /\ Len(first) = k
  <2> HIDE DEF k
  <2> QED BY <1>1, <1>2, <1>4 DEF MaxHints
<1>6. hints \in Seq(Hint) /\ Len(hints) = k + m
  <2> HIDE DEF k, m, first, added
  <2> QED BY <1>3, <1>5
<1>7. k + m <= MaxHints
  <2> HIDE DEF k, m
  <2> QED BY <1>2, <1>4 DEF MaxHints
<1>8. hints = CardHints(own, extra)
  BY ZenonT(60) DEF CardHints
<1> HIDE DEF hints, first, added, k, m
<1> QED BY ZenonT(60), <1>6, <1>7, <1>8

LEMMA CardBytesType ==
  ASSUME NEW hints \in Seq(Hint)
  PROVE  CardBytes(hints) \in Nat /\ CardBytes(hints) >= MinCardBytes
<1> DEFINE D == DOMAIN hints
<1> DEFINE place(i) == {i} \X (1..3 + hints[i].len)
<1> DEFINE T == {place(i) : i \in D}
<1>1. D = 1..Len(hints) /\ Len(hints) \in Int /\ 1 \in Int /\ \A i \in D : 3 + hints[i].len \in Int
  <2>1. D = 1..Len(hints) /\ Len(hints) \in Int /\ \A i \in D : hints[i] \in Hint
    OBVIOUS
  <2>2. \A h \in Hint : h.len \in Nat
    BY ZenonT(60) DEF Hint
  <2>3. 1 \in Int /\ \A x \in Nat : 3 + x \in Int
    OBVIOUS
  <2> QED BY ZenonT(60), <2>1, <2>2, <2>3
<1>2. IsFiniteSet(D)
  BY ZenonT(60), <1>1, FS_Interval
<1>3. \A i \in D : IsFiniteSet(place(i))
  <2> SUFFICES ASSUME NEW i \in D PROVE IsFiniteSet(place(i))
    BY ZenonT(60)
  <2> DEFINE R == 1..3 + hints[i].len
  <2>1. IsFiniteSet(R) /\ IsFiniteSet({i})
    BY ZenonT(60), <1>1, FS_Interval, FS_Singleton
  <2> HIDE DEF R
  <2>2. IsFiniteSet({i} \X R)
    BY ZenonT(60), <2>1, FS_Product
  <2> QED BY ZenonT(60), <2>2 DEF R
<1>4. IsFiniteSet(T)
  <2> DEFINE f == [i \in D |-> place(i)]
  <2>1. f \in Surjection(D, T)
    <3> HIDE DEF place
    <3> QED BY ZenonT(60) DEF Surjection
  <2> HIDE DEF f, T, D
  <2> QED BY ZenonT(60), <1>2, <2>1, FS_Surjection
<1>5. IsFiniteSet(UNION T)
  <2>1. \A S \in T : IsFiniteSet(S)
    <3> HIDE DEF place
    <3> QED BY ZenonT(60), <1>3
  <2> HIDE DEF T
  <2> QED BY ZenonT(60), <1>4, <2>1, FS_UNION
<1>6. HintBytes(hints) = UNION T
  BY ZenonT(60) DEF HintBytes
<1> HIDE DEF T
<1>7. Cardinality(HintBytes(hints)) \in Nat
  BY ZenonT(60), <1>5, <1>6, FS_CardinalityType
<1> QED BY <1>7 DEF CardBytes, HeaderBytes, SignatureBytes, MinCardBytes

\* Endpoint::card: what it signs is well made.
LEMMA SignedCard ==
  ASSUME CardTypes, NEW ttl \in Ttls, NEW own \in Owns, NEW extra \in Extras,
         Card(ttl, own, extra)
  PROVE  \E c \in WellMade :
           /\ drawn' = drawn \cup {c} /\ c.issued <= time + ClockSkew /\ c.serial = serial'
           /\ c.nth = signed' /\ signed' = signed + 1
           /\ serial' \in 1..Top /\ serial' >= serial
           /\ serial' > serial \/ (serial = Top /\ serial' = Top)
<1> DEFINE life == Min({Max({ttl, 1}), MaxLifetime})
<1> DEFINE hints == CardHints(own, extra)
<1> DEFINE c == [issued |-> Now, expires |-> Now + life, serial |-> serial', nth |-> signed',
                 hints |-> hints, bytes |-> CardBytes(hints)]
<1>1. /\ drawn' = drawn \cup {c} /\ signed' = signed + 1
      /\ serial # -1 /\ serial' = Max({Min({serial + 1, Top}), Now})
  BY ZenonT(60) DEF Card
<1>2. /\ serial' \in 1..Top /\ serial' >= serial
      /\ serial' > serial \/ (serial = Top /\ serial' = Top)
  BY ZenonT(60), <1>1, NextSerial
<1>3. life \in 1..MaxLifetime
  BY ZenonT(60), Lifetime
<1>a. signed' \in Nat
  BY <1>1 DEF CardTypes
<1>4. hints \in Seq(Hint) /\ Len(hints) <= MaxHints
  BY ZenonT(60), CardHintsFit
<1>5. CardBytes(hints) \in Nat /\ CardBytes(hints) >= MinCardBytes
  BY ZenonT(60), <1>4, CardBytesType
<1>6. Now \in Nat /\ Now <= time + ClockSkew
  BY NowType, Constants
<1> HIDE DEF life, hints
<1>7. /\ c \in [issued : Nat, expires : Nat, serial : 1..Top, nth : Nat, hints : Seq(Hint), bytes : Nat]
      /\ c.issued = Now /\ c.expires = Now + life /\ c.serial = serial' /\ c.nth = signed'
      /\ c.hints = hints /\ c.bytes = CardBytes(hints)
  BY <1>2, <1>3, <1>4, <1>5, <1>6, <1>a, Constants
<1> HIDE DEF c
<1>8. c.issued < c.expires /\ c.expires - c.issued <= MaxLifetime
  BY <1>3, <1>6, <1>7, Constants
<1>9. c \in WellMade
  BY ZenonT(60), <1>4, <1>5, <1>7, <1>8 DEF WellMade
<1> QED BY ZenonT(60), <1>1, <1>2, <1>6, <1>7, <1>9

LEMMA CardTypesStep ==
  ASSUME CardTypes, [CardNext]_cardVars
  PROVE  CardTypes'
<1>1. CASE OpenEndpoint
  <2> DEFINE seed == IF Seeded THEN kept ELSE 0
  <2>1. /\ serial' = Max({seed, Now})
        /\ UNCHANGED <<time, drift, kept, signed, drawn, ready, handed, highest>>
    BY ZenonT(60), <1>1 DEF OpenEndpoint, TheShell, ThePeer
  <2>2. seed \in 0..Top /\ seed \in Int /\ Now \in 0..Top /\ Now \in Int
    BY NowType, Constants DEF CardTypes
  <2> HIDE DEF seed
  <2>3. serial' \in {seed, Now}
    BY ZenonT(60), <2>1, <2>2, MaxOfPair
  <2>4. serial' \in -1..Top
    BY <2>2, <2>3, Constants
  <2> QED BY ZenonT(60), <2>1, <2>4 DEF CardTypes
<1>2. CASE Crash
  <2>1. serial' \in -1..Top
    BY <1>2, Constants DEF Crash
  <2> QED BY ZenonT(60), <1>2, <2>1 DEF Crash, CardTypes, ThePeer
<1>3. CASE Tick
  <2>1. time' \in 0..MaxTime
    BY <1>3, Constants DEF Tick, CardTypes
  <2> QED BY ZenonT(60), <1>3, <2>1 DEF Tick, CardTypes, TheShell, ThePeer
<1>4. ASSUME NEW ttl \in Ttls, NEW own \in Owns, NEW extra \in Extras, Card(ttl, own, extra)
      PROVE  CardTypes'
  <2>1. drawn' \subseteq WellMade /\ serial' \in 1..Top /\ signed' = signed + 1
    BY ZenonT(60), <1>4, SignedCard DEF CardTypes
  <2>2. serial' \in -1..Top /\ signed' \in Nat
    BY <2>1, Constants DEF CardTypes
  <2> QED BY ZenonT(60), <1>4, <2>1, <2>2 DEF Card, CardTypes, ThePeer
<1>5. ASSUME NEW c \in drawn, Persist(c) PROVE CardTypes'
  <2>1. kept \in Int /\ c.serial \in Int /\ kept \in 0..Top /\ c.serial \in 0..Top
    BY Constants DEF CardTypes, WellMade
  <2>2. kept' = Max({kept, c.serial})
    BY ZenonT(60), <1>5 DEF Persist
  <2>3. kept' \in {kept, c.serial}
    BY ZenonT(60), <2>1, <2>2, MaxOfPair
  <2>4. kept' \in 0..Top
    BY ZenonT(60), <2>1, <2>3
  <2> QED BY ZenonT(60), <1>5, <2>4 DEF Persist, CardTypes, ThePeer
<1>6. ASSUME NEW c \in ready, HandOut(c) PROVE CardTypes'
  BY ZenonT(60), <1>6 DEF HandOut, CardTypes, ThePeer
<1>7. ASSUME NEW d \in -ClockSkew..ClockSkew, SetClock(d) PROVE CardTypes'
  BY ZenonT(60), <1>7 DEF SetClock, CardTypes, TheShell, ThePeer
<1>8. ASSUME NEW c \in handed, Receive(c) PROVE CardTypes'
  <2>1. c \in WellMade
    BY ZenonT(60) DEF CardTypes
  <2>2. highest' \in 0..Top
    BY <1>8, <2>1, Constants DEF Receive, WellMade
  <2> QED BY ZenonT(60), <1>8, <2>2 DEF Receive, CardTypes, TheShell
<1>9. CASE UNCHANGED cardVars
  BY ZenonT(60), <1>9 DEF cardVars, CardTypes
<1> QED BY ZenonT(60), <1>1, <1>2, <1>3, <1>4, <1>5, <1>6, <1>7, <1>8, <1>9 DEF CardNext

LEMMA CardTypesInit == CardInit => CardTypes
<1>1. /\ 0 \in 0..MaxTime /\ 0 \in -ClockSkew..ClockSkew /\ -1 \in -1..Top /\ 0 \in 0..Top
      /\ 0 \in Nat
  BY Constants
<1> QED BY ZenonT(60), <1>1 DEF CardInit, CardTypes

(***************************************************************************)
(* Serials.  Whatever was persisted is below the mark the shell keeps, the *)
(* counter starts from that mark and never falls under it or under a card  *)
(* in flight, and the cards there are rise in the order of their signing.  *)
(***************************************************************************)
Known == drawn \cup (ready \cup handed)

SerialShape ==
  /\ serial = -1 => drawn = {} /\ ready = {}
  /\ serial # -1 => kept <= serial
  /\ \A c \in drawn : c.serial <= serial
  /\ \A c \in ready \cup handed : c.serial <= kept
  /\ \A c \in Known : c.nth <= signed
  /\ \A c, d \in Known : c.nth < d.nth => c.serial < d.serial \/ c.serial = Top

SInv == CardTypes /\ SerialShape

LEMMA KnownSerials ==
  ASSUME SInv, serial # -1
  PROVE  \A c \in Known : /\ c.serial \in Nat /\ c.serial <= serial /\ c.serial <= Top
                          /\ c.nth \in Nat /\ c.nth <= signed
<1> SUFFICES ASSUME NEW c \in Known
             PROVE  /\ c.serial \in Nat /\ c.serial <= serial /\ c.serial <= Top
                    /\ c.nth \in Nat /\ c.nth <= signed
  BY ZenonT(60)
<1>1. c.serial \in 1..Top /\ c.nth \in Nat /\ c.nth <= signed
  BY ZenonT(60) DEF Known, SInv, SerialShape, CardTypes, WellMade
<1>2. c.serial <= serial \/ (c.serial <= kept /\ kept <= serial)
  BY ZenonT(60) DEF Known, SInv, SerialShape
<1>3. kept \in Int /\ serial \in Int /\ Top \in Nat
  BY Constants DEF SInv, CardTypes
<1> QED BY <1>1, <1>2, <1>3

LEMMA SerialStep ==
  ASSUME SInv, [CardNext]_cardVars, Seeded
  PROVE  SInv'
<1>1. CardTypes'
  BY ZenonT(60), CardTypesStep DEF SInv
<1>2. CASE UNCHANGED <<serial, kept, signed, drawn, ready, handed>>
  BY ZenonT(60), <1>1, <1>2 DEF SInv, SerialShape, Known
<1>3. CASE Tick \/ UNCHANGED cardVars \/ (\E d : SetClock(d)) \/ \E c : Receive(c)
  BY ZenonT(60), <1>2, <1>3 DEF Tick, cardVars, SetClock, Receive, TheShell
<1>4. CASE OpenEndpoint
  <2>1. /\ serial = -1 /\ serial' = Max({kept, Now}) /\ UNCHANGED <<kept, signed, drawn, ready, handed>>
    BY ZenonT(60), <1>4 DEF OpenEndpoint, TheShell
  <2>2. kept \in Int /\ Now \in Int
    BY NowType, Constants DEF SInv, CardTypes
  <2>3. kept <= serial'
    <3>1. Max({kept, Now}) >= kept /\ serial' \in Int
      BY ZenonT(60), <2>1, <2>2, MaxOfPair
    <3> QED BY ZenonT(60), <3>1, <2>1, <2>2
  <2>4. serial' # -1
    BY <2>2, <2>3, Constants DEF SInv, CardTypes
  <2>5. SerialShape'
    BY ZenonT(60), <2>1, <2>3, <2>4 DEF SInv, SerialShape, Known
  <2> QED BY ZenonT(60), <1>1, <2>5 DEF SInv
<1>5. CASE Crash
  <2>1. /\ serial' = -1 /\ drawn' = {} /\ ready' = {} /\ UNCHANGED <<kept, signed, handed>>
        /\ Known' \subseteq Known
    BY ZenonT(60), <1>5 DEF Crash, Known
  <2>2. SerialShape'
    BY ZenonT(60), <2>1 DEF SInv, SerialShape, Known
  <2> QED BY ZenonT(60), <1>1, <2>2 DEF SInv
<1>6. ASSUME NEW ttl \in Ttls, NEW own \in Owns, NEW extra \in Extras, Card(ttl, own, extra)
      PROVE  SInv'
  <2>1. PICK c \in WellMade :
          /\ drawn' = drawn \cup {c} /\ c.serial = serial' /\ serial' \in 1..Top /\ serial' >= serial
          /\ serial' > serial \/ (serial = Top /\ serial' = Top)
          /\ c.nth = signed' /\ signed' = signed + 1
    BY ZenonT(60), <1>6, SignedCard DEF SInv
  <2>2. serial # -1 /\ UNCHANGED <<kept, ready, handed>> /\ Known' = Known \cup {c}
    BY ZenonT(60), <1>6, <2>1 DEF Card, Known
  <2>3. kept <= serial /\ kept \in Nat /\ serial \in Nat /\ signed \in Nat /\ Top \in Nat
    BY <2>2, Constants DEF SInv, SerialShape, CardTypes
  <2>4. \A d \in Known : /\ d.serial <= serial' /\ d.nth <= signed' /\ ~(c.nth < d.nth)
                         /\ d.serial < c.serial \/ d.serial = Top
    <3> SUFFICES ASSUME NEW d \in Known
                 PROVE  /\ d.serial <= serial' /\ d.nth <= signed' /\ ~(c.nth < d.nth)
                        /\ d.serial < c.serial \/ d.serial = Top
      BY ZenonT(60)
    <3>1. d.serial \in Nat /\ d.serial <= serial /\ d.serial <= Top /\ d.nth \in Nat /\ d.nth <= signed
      BY ZenonT(60), <2>2, KnownSerials
    <3> QED BY <2>1, <2>3, <3>1
  <2>5. /\ kept' <= serial' /\ serial' # -1 /\ c.serial <= serial'
        /\ c.nth <= signed' /\ ~(c.nth < c.nth)
    BY <2>1, <2>2, <2>3
  <2>6. \A d \in drawn : d \in Known
    BY ZenonT(60) DEF Known
  <2>7. SerialShape'
    BY ZenonT(60), <2>1, <2>2, <2>4, <2>5, <2>6 DEF SInv, SerialShape
  <2> QED BY ZenonT(60), <1>1, <2>7 DEF SInv
<1>7. ASSUME NEW c \in drawn, Persist(c) PROVE SInv'
  <2>1. /\ kept' = Max({kept, c.serial}) /\ drawn' = drawn \ {c} /\ ready' = ready \cup {c}
        /\ UNCHANGED <<serial, signed, handed>> /\ c.serial <= serial
        /\ serial # -1 /\ kept <= serial /\ Known' = Known
    BY ZenonT(60), <1>7 DEF Persist, SInv, SerialShape, Known
  <2>2. kept \in Int /\ c.serial \in Int
    BY <1>7 DEF SInv, CardTypes, WellMade
  <2>3. kept' \in {kept, c.serial} /\ kept' >= kept /\ kept' >= c.serial
    BY ZenonT(60), <2>1, <2>2, MaxOfPair
  <2>4. kept' <= serial' /\ c.serial <= kept' /\ kept' \in Int
    BY <2>1, <2>2, <2>3
  <2>5. \A d \in ready \cup handed : d.serial <= kept'
    <3> SUFFICES ASSUME NEW d \in ready \cup handed PROVE d.serial <= kept'
      BY ZenonT(60)
    <3>1. d.serial \in 1..Top /\ d.serial <= kept
      BY ZenonT(60) DEF SInv, SerialShape, CardTypes, WellMade
    <3> QED BY <2>2, <2>3, <2>4, <3>1
  <2>6. SerialShape'
    BY ZenonT(60), <2>1, <2>4, <2>5 DEF SInv, SerialShape
  <2> QED BY ZenonT(60), <1>1, <2>6 DEF SInv
<1>8. ASSUME NEW c \in ready, HandOut(c) PROVE SInv'
  <2>1. /\ UNCHANGED <<serial, kept, signed, drawn>> /\ ready' \cup handed' = ready \cup handed
        /\ ready' \subseteq ready /\ Known' = Known
    BY ZenonT(60), <1>8 DEF HandOut, Known
  <2>2. SerialShape'
    BY ZenonT(60), <2>1 DEF SInv, SerialShape
  <2> QED BY ZenonT(60), <1>1, <2>2 DEF SInv
<1> QED BY ZenonT(60), <1>3, <1>4, <1>5, <1>6, <1>7, <1>8 DEF CardNext

\* The serials of the cards an endpoint hands out rise strictly in the order of
\* their signing, whatever its clock did meanwhile, however its callers
\* interleaved and however often it was restarted, as long as the shell gives
\* the mark it keeps back: for any skew and any number of cards (Endpoint::open,
\* Endpoint::card).
THEOREM SerialsRiseCorrect == Seeded /\ CardSpec => []SerialsRise
<1>1. CardInit => SInv
  <2>1. CardInit => SerialShape
    BY ZenonT(60) DEF CardInit, SerialShape, Known
  <2> QED BY ZenonT(60), <2>1, CardTypesInit DEF SInv
<1>2. SInv => SerialsRise
  BY ZenonT(60) DEF SInv, SerialShape, Known, SerialsRise
<1>3. Seeded /\ SInv /\ [CardNext]_cardVars => SInv'
  BY ZenonT(60), SerialStep
<1> SUFFICES ASSUME Seeded PROVE CardSpec => []SerialsRise
  BY ZenonT(60)
<1>4. SInv /\ [CardNext]_cardVars => SInv'
  BY ZenonT(60), <1>3
<1> QED BY <1>1, <1>2, <1>4, PTL DEF CardSpec

(***************************************************************************)
(* What a card is refused for.                                             *)
(***************************************************************************)
\* No card was signed later than a peer whose clock is within the skew allows.
Punctual == \A c \in Known : c.issued <= time + ClockSkew

PInv == CardTypes /\ Punctual

LEMMA PunctualStep ==
  ASSUME PInv, [CardNext]_cardVars
  PROVE  PInv'
<1>1. CardTypes'
  BY ZenonT(60), CardTypesStep DEF PInv
<1>2. CASE UNCHANGED time /\ Known' \subseteq Known
  BY ZenonT(60), <1>1, <1>2 DEF PInv, Punctual
<1>3. CASE OpenEndpoint \/ Crash \/ UNCHANGED cardVars \/ (\E c \in drawn : Persist(c))
           \/ (\E c \in ready : HandOut(c)) \/ (\E d : SetClock(d)) \/ \E c : Receive(c)
  <2>1. UNCHANGED time /\ Known' \subseteq Known
    BY ZenonT(60), <1>3
       DEF OpenEndpoint, Crash, cardVars, Persist, HandOut, SetClock, Receive, TheShell, Known
  <2> QED BY ZenonT(60), <1>2, <2>1
<1>4. CASE Tick
  <2>1. time' = time + 1 /\ Known' = Known
    BY ZenonT(60), <1>4 DEF Tick, TheShell, Known
  <2>2. time + ClockSkew <= time' + ClockSkew /\ time + ClockSkew \in Int /\ time' + ClockSkew \in Int
    BY <2>1, Constants DEF PInv, CardTypes
  <2>3. \A c \in WellMade : c.issued \in Int
    BY DEF WellMade
  <2>4. \A c \in WellMade : c.issued <= time + ClockSkew => c.issued <= time' + ClockSkew
    BY <2>2, <2>3
  <2>5. \A c \in Known : c \in WellMade
    BY ZenonT(60) DEF PInv, CardTypes, Known
  <2> QED BY ZenonT(60), <1>1, <2>1, <2>4, <2>5 DEF PInv, Punctual
<1>5. ASSUME NEW ttl \in Ttls, NEW own \in Owns, NEW extra \in Extras, Card(ttl, own, extra)
      PROVE  PInv'
  <2>1. PICK c : drawn' = drawn \cup {c} /\ c.issued <= time + ClockSkew
    BY ZenonT(60), <1>5, SignedCard DEF PInv
  <2>2. UNCHANGED time /\ Known' = Known \cup {c}
    BY ZenonT(60), <1>5, <2>1 DEF Card, Known
  <2> QED BY ZenonT(60), <1>1, <2>1, <2>2 DEF PInv, Punctual
<1> QED BY ZenonT(60), <1>3, <1>4, <1>5 DEF CardNext

\* The rules have numbers, and `verify` answers with the least that is broken.
LEMMA VerifyAnswers ==
  ASSUME NEW c, NEW ctx
  PROVE  /\ Verify(c, ctx) = 0 <=> Broken(c, ctx) = {}
         /\ Broken(c, ctx) # {} => Verify(c, ctx) \in Broken(c, ctx)
<1> DEFINE S == Broken(c, ctx)
<1>1. S \subseteq {1, 3, 5, 6, 7, 8}
  BY ZenonT(60) DEF Broken
<1>2. Verify(c, ctx) = IF S = {} THEN 0 ELSE Min(S)
  BY ZenonT(60) DEF Verify
<1> HIDE DEF S
<1>3. S # {} => \E x \in S : \A y \in S : x <= y
  <2>1. ASSUME 1 \in S, S \subseteq {1, 3, 5, 6, 7, 8} PROVE \E x \in S : \A y \in S : x <= y
    <3>1. \A y \in {1, 3, 5, 6, 7, 8} : 1 <= y
      OBVIOUS
    <3> QED BY ZenonT(60), <2>1, <3>1
  <2>2. ASSUME 3 \in S, S \subseteq {3, 5, 6, 7, 8} PROVE \E x \in S : \A y \in S : x <= y
    <3>1. \A y \in {3, 5, 6, 7, 8} : 3 <= y
      OBVIOUS
    <3> QED BY ZenonT(60), <2>2, <3>1
  <2>3. ASSUME 5 \in S, S \subseteq {5, 6, 7, 8} PROVE \E x \in S : \A y \in S : x <= y
    <3>1. \A y \in {5, 6, 7, 8} : 5 <= y
      OBVIOUS
    <3> QED BY ZenonT(60), <2>3, <3>1
  <2>4. ASSUME 6 \in S, S \subseteq {6, 7, 8} PROVE \E x \in S : \A y \in S : x <= y
    <3>1. \A y \in {6, 7, 8} : 6 <= y
      OBVIOUS
    <3> QED BY ZenonT(60), <2>4, <3>1
  <2>5. ASSUME 7 \in S, S \subseteq {7, 8} PROVE \E x \in S : \A y \in S : x <= y
    <3>1. \A y \in {7, 8} : 7 <= y
      OBVIOUS
    <3> QED BY ZenonT(60), <2>5, <3>1
  <2>6. ASSUME 8 \in S, S \subseteq {8} PROVE \E x \in S : \A y \in S : x <= y
    <3>1. \A y \in {8} : 8 <= y
      OBVIOUS
    <3> QED BY ZenonT(60), <2>6, <3>1
  <2> QED BY ZenonT(60), <1>1, <2>1, <2>2, <2>3, <2>4, <2>5, <2>6
<1>4. S # {} => Min(S) \in S
  BY ZenonT(60), <1>3 DEF Min
<1>5. 0 \notin S
  BY <1>1
<1> QED BY ZenonT(60), <1>2, <1>4, <1>5 DEF S

LEMMA Within ==
  ASSUME NEW a \in Int, NEW b \in Int, NEW x \in Int, x >= a, ~(x > b)
  PROVE  x \in a..b
OBVIOUS

LEMMA OwnCards ==
  ASSUME PInv PROVE OwnCardsVerify
<1> SUFFICES ASSUME NEW c \in handed, ~(c.bytes > MaxCardBytes), WellFormed(c.hints)
             PROVE  Verify(c, [now |-> time, highest |-> 0]) \in {0, 6}
  BY ZenonT(60) DEF OwnCardsVerify
<1> DEFINE ctx == [now |-> time, highest |-> 0]
<1>1. c \in WellMade
  BY ZenonT(60) DEF PInv, CardTypes
<1>2. c.issued <= time + ClockSkew
  BY ZenonT(60) DEF PInv, Punctual, Known
<1>3. /\ c.bytes \in MinCardBytes..MaxCardBytes /\ ~(c.issued > time + ClockSkew)
      /\ ~(c.expires <= c.issued) /\ ~(c.expires - c.issued > MaxLifetime) /\ ~(c.serial <= 0)
  <2>1. /\ c.bytes \in Nat /\ c.bytes >= MinCardBytes /\ c.issued \in Nat /\ c.expires \in Nat
        /\ c.issued < c.expires /\ c.expires - c.issued <= MaxLifetime /\ c.serial \in 1..Top
    BY ZenonT(60), <1>1 DEF WellMade
  <2>2. time + ClockSkew \in Nat
    BY Constants DEF PInv, CardTypes
  <2>3. c.bytes \in MinCardBytes..MaxCardBytes
    <3>1. MinCardBytes \in Int /\ MaxCardBytes \in Int /\ c.bytes \in Int
      BY <2>1 DEF MinCardBytes, MaxCardBytes
    <3> QED BY ZenonT(60), <2>1, <3>1, Within
  <2>4. ~(c.issued > time + ClockSkew)
    BY <1>2, <2>1, <2>2
  <2>5. ~(c.expires <= c.issued) /\ ~(c.expires - c.issued > MaxLifetime) /\ ~(c.serial <= 0)
    BY <2>1, Constants
  <2> QED BY ZenonT(60), <2>3, <2>4, <2>5
<1>4. Len(c.hints) <= MaxHints
  BY ZenonT(60), <1>1 DEF WellMade
<1>5. ctx.now = time /\ ctx.highest = 0
  BY ZenonT(60)
<1> HIDE DEF ctx
<1>6. Broken(c, ctx) \subseteq {6}
  BY ZenonT(60), <1>3, <1>4, <1>5 DEF Broken
<1>7. Verify(c, ctx) \in {0, 6}
  BY ZenonT(60), <1>6, VerifyAnswers
<1> QED BY ZenonT(60), <1>7 DEF ctx

\* A route is checked at the time it was verified and just above the serial
\* before its own: every rule that held then holds again.
LEMMA ReceivedRoute ==
  ASSUME CardTypes, NEW c \in handed, Receive(c)
  PROVE  KeptRouteReopens'
<1> DEFINE ctx == [now |-> time, highest |-> highest]
<1> DEFINE r == [card |-> c, serial |-> c.serial, at |-> time]
<1> DEFINE again == [now |-> time, highest |-> c.serial - 1]
<1>1. Verify(c, ctx) = 0 /\ routes' = {r}
  BY ZenonT(60) DEF Receive
<1>2. c.serial \in Nat /\ c.serial > 0 /\ ~(c.serial <= c.serial - 1)
  <2>1. c \in WellMade
    BY ZenonT(60) DEF CardTypes
  <2> QED BY <2>1, Constants DEF WellMade
<1>3. r.card = c /\ r.serial = c.serial /\ r.at = time
  BY ZenonT(60)
<1>4. ctx.now = time /\ again.now = time /\ again.highest = c.serial - 1
  BY ZenonT(60)
<1>5. again = [now |-> r.at, highest |-> r.serial - 1]
  BY ZenonT(60), <1>3
<1> HIDE DEF ctx, again, r
<1>6. Broken(c, ctx) = {}
  BY ZenonT(60), <1>1, VerifyAnswers
<1>7. /\ c.bytes \in MinCardBytes..MaxCardBytes /\ Len(c.hints) <= MaxHints /\ WellFormed(c.hints)
      /\ ~(c.issued > time + ClockSkew) /\ ~(c.expires <= time)
      /\ ~(c.expires <= c.issued \/ c.expires - c.issued > MaxLifetime)
  BY ZenonT(60), <1>4, <1>6 DEF Broken
<1>8. Broken(c, again) = {}
  BY ZenonT(60), <1>2, <1>4, <1>7 DEF Broken
<1>9. Verify(c, again) = 0
  BY ZenonT(60), <1>8, VerifyAnswers
<1>10. VerifyRoute(r)
  BY ZenonT(60), <1>2, <1>3, <1>5, <1>9 DEF VerifyRoute
<1> QED BY ZenonT(60), <1>1, <1>10 DEF KeptRouteReopens

\* A card an endpoint signs is refused only for its age, its length or a hint
\* that was given ill formed, and a route kept from a card that verified verifies
\* at every later start: whatever the hints, of the configuration and of the
\* callers, the lifetimes, the skew and the order of arrival (card, verify,
\* verify_route).
THEOREM CardsAcceptedCorrect == CardSpec => []CardsAccepted
<1>1. CardInit => PInv /\ KeptRouteReopens
  <2>1. CardInit => Punctual /\ KeptRouteReopens
    BY ZenonT(60) DEF CardInit, Punctual, Known, KeptRouteReopens
  <2> QED BY ZenonT(60), <2>1, CardTypesInit DEF PInv
<1>2. PInv /\ KeptRouteReopens /\ [CardNext]_cardVars => PInv' /\ KeptRouteReopens'
  <2> SUFFICES ASSUME PInv, KeptRouteReopens, [CardNext]_cardVars PROVE KeptRouteReopens'
    BY ZenonT(60), PunctualStep
  <2>1. CASE UNCHANGED routes
    BY ZenonT(60), <2>1 DEF KeptRouteReopens, VerifyRoute
  <2>2. CASE \E c \in handed : Receive(c)
    BY ZenonT(60), <2>2, ReceivedRoute DEF PInv
  <2>3. CASE ~\E c \in handed : Receive(c)
    <3>1. UNCHANGED routes
      BY ZenonT(60), <2>3 DEF CardNext, cardVars, OpenEndpoint, Crash, Tick, Card, Persist, HandOut,
         SetClock, ThePeer
    <3> QED BY ZenonT(60), <2>1, <3>1
  <2> QED BY ZenonT(60), <2>2, <2>3
<1>3. PInv /\ KeptRouteReopens => CardsAccepted
  BY ZenonT(60), OwnCards DEF CardsAccepted
<1> QED BY <1>1, <1>2, <1>3, PTL DEF CardSpec

=============================================================================
