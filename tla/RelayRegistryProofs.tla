------------------------ MODULE RelayRegistryProofs ------------------------
(***************************************************************************)
(* Proofs about RelayRegistry, for any number of connections, nodes, tags, *)
(* sources and any caps; and about the relay's two limiters, for any rate, *)
(* any granularity of time, any number of sources and any size at which    *)
(* the table is swept.                                                     *)
(***************************************************************************)
EXTENDS RelayRegistry, Limits, FiniteSetTheorems, TLAPS

\* What a task has at each phase: no identity and no tag before admission,
\* a write in progress only while it can leave because of it, and no tags on
\* an identity session.
TaskShape ==
  \A c \in Conn :
    /\ phase[c] \in {"new", "refused", "accepted", "challenged", "admitting"}
         => node[c] = NoNode /\ held[c] = {}
    /\ writing[c] # "none" => phase[c] \in {"admitting", "up"}
    /\ node[c] # NoNode => held[c] = {}

IInv == TypeOK /\ TaskShape /\ NoGhost

LEMMA TrySendType ==
  ASSUME TypeOK, NEW d \in Conn, NEW f \in Frames
  PROVE  TrySend(d, f) \in Seq(Frames) /\ Len(TrySend(d, f)) <= QueueCap
BY CapAssumption DEF TypeOK, TrySend

LEMMA WithHolderType ==
  ASSUME NEW S \in SUBSET Conn, NEW c \in Conn
  PROVE  WithHolder(S, c) \in SUBSET (S \cup {c})
BY ZenonT(60) DEF WithHolder

LEMMA RegisteredType ==
  ASSUME TypeOK, NEW c \in Conn, NEW next \in SUBSET Tag
  PROVE  Registered(c, next) \in [Tag -> SUBSET Conn]
<1>1. \A t \in Tag : tags[t] \in SUBSET Conn
  BY ZenonT(60) DEF TypeOK
<1>2. \A t \in Tag : WithHolder(tags[t], c) \in SUBSET Conn
  BY <1>1, WithHolderType
<1> QED BY ZenonT(60), <1>1, <1>2 DEF Registered

LEMMA RegisterTagsType ==
  ASSUME TypeOK, NEW c \in Conn, NEW next \in SUBSET Tag, RegisterTags(c, next)
  PROVE  /\ tags' \in [Tag -> SUBSET Conn]
         /\ held' \in [Conn -> SUBSET Tag]
         /\ queue' \in [Conn -> Seq(Frames)]
         /\ \A d \in Conn : Len(queue'[d]) <= QueueCap
<1>1. tags' \in [Tag -> SUBSET Conn]
  BY ZenonT(60), RegisteredType DEF RegisterTags
<1>2. held' \in [Conn -> SUBSET Tag]
  BY ZenonT(60) DEF RegisterTags, TypeOK
<1>3. \A d \in Conn : TrySend(d, "close") \in Seq(Frames)
                      /\ Len(TrySend(d, "close")) <= QueueCap
  BY ZenonT(60), TrySendType DEF Frames
<1>4. \A d \in Conn : queue[d] \in Seq(Frames) /\ Len(queue[d]) <= QueueCap
  BY ZenonT(60) DEF TypeOK
<1> QED BY ZenonT(60), <1>1, <1>2, <1>3, <1>4 DEF RegisterTags

LEMMA CountedFinite ==
  /\ IsFiniteSet(Counted) /\ Cardinality(Counted) \in Nat
  /\ \A s \in Source : IsFiniteSet(CountedFrom(s)) /\ Cardinality(CountedFrom(s)) \in Nat
<1>1. IsFiniteSet(Counted)
  BY ZenonT(60), ConnAssumption, FS_Subset DEF Counted
<1>2. \A s \in Source : IsFiniteSet(CountedFrom(s))
  BY ZenonT(60), <1>1, FS_Subset DEF CountedFrom
<1> QED BY ZenonT(60), <1>1, <1>2, FS_CardinalityType

\* A connection that holds a slot is in both counts.
LEMMA SlotHeld ==
  ASSUME TypeOK, SlotsAccounted, NEW c \in Conn, c \in Counted
  PROVE  live > 0 /\ bySource[source[c]] > 0
<1>1. source[c] \in Source /\ c \in CountedFrom(source[c])
  BY ZenonT(60) DEF TypeOK, CountedFrom
<1>2. Cardinality(Counted) # 0 /\ Cardinality(CountedFrom(source[c])) # 0
  BY ZenonT(60), <1>1, CountedFinite, FS_EmptySet
<1> QED BY <1>1, <1>2, CountedFinite DEF SlotsAccounted

LEMMA TypeStep == TypeOK /\ SlotsAccounted /\ [Next]_vars => TypeOK'
<1> SUFFICES ASSUME TypeOK, SlotsAccounted, [Next]_vars PROVE TypeOK'
  BY ZenonT(60)
<1> USE CapAssumption, ConnAssumption, NodeAssumption
<1>1. CASE UNCHANGED vars
  BY ZenonT(60), <1>1 DEF vars, TypeOK
<1>2. CASE Shutdown \/ StopListening \/ Down
  BY ZenonT(60), <1>2 DEF Shutdown, StopListening, Down, vars, task, registry, slots, TypeOK
<1>3. ASSUME NEW c \in Conn, ConnStep(c) PROVE TypeOK'
  <2>1. CASE Accept(c)
    BY SMTT(30), <2>1 DEF Accept, TypeOK, Phases, registry
  <2>2. CASE Refuse(c)
    BY ZenonT(60), <2>2 DEF Refuse, TypeOK, Phases, registry, slots
  <2>3. CASE ReleaseSlot(c)
    <3>1. live > 0 /\ bySource[source[c]] > 0
      BY ZenonT(60), <2>3, SlotHeld DEF ReleaseSlot, Counted
    <3>2. live' \in Nat
      BY <2>3, <3>1 DEF ReleaseSlot, TypeOK
    <3>3. bySource' \in [Source -> Nat]
      BY <2>3, <3>1 DEF ReleaseSlot, TypeOK
    <3> QED BY ZenonT(60), <2>3, <3>2, <3>3 DEF ReleaseSlot, TypeOK, Phases, registry
  <2>4. CASE Challenge(c) \/ HandshakeFails(c) \/ NoFirstFrame(c)
    BY ZenonT(60), <2>4 DEF Challenge, HandshakeFails, NoFirstFrame, TypeOK, Phases,
                registry, slots
  <2>15. CASE FirstFrame(c)
    BY <2>15 DEF FirstFrame, TypeOK, Phases, registry, slots
  <2>5. ASSUME NEW n \in Node, AdmitIdentity(c, n) PROVE TypeOK'
    BY ZenonT(60), <2>5, TrySendType DEF AdmitIdentity, TypeOK, Phases, slots, Frames
  <2>6. ASSUME NEW next \in SUBSET Tag, AdmitTags(c, next) PROVE TypeOK'
    BY ZenonT(60), <2>6, RegisterTagsType DEF AdmitTags, TypeOK, Phases, slots
  <2>7. CASE AdmitRefuses(c) \/ SeeStop(c) \/ CloseSession(c) \/ AnswerPing(c)
    BY ZenonT(60), <2>7 DEF AdmitRefuses, SeeStop, CloseSession, AnswerPing, TypeOK,
                registry, slots
  <2>8. CASE TakeOutbound(c)
    BY SMTT(30), <2>8 DEF TakeOutbound, TypeOK, slots
  <2>9. CASE WriteDone(c) \/ WriteFails(c) \/ ClientLeaves(c)
    BY <2>9, ZenonT(60) DEF WriteDone, WriteFails, ClientLeaves, TypeOK, Phases, registry,
                slots
  <2>10. ASSUME NEW n \in Node, LookUpNode(c, n) PROVE TypeOK'
    BY SMTT(30), <2>10 DEF LookUpNode, TypeOK, registry, slots
  <2>11. ASSUME NEW t \in Tag, LookUpTag(c, t) PROVE TypeOK'
    BY ZenonT(60), <2>11 DEF LookUpTag, TagTargets, TypeOK, registry, slots
  <2>12. ASSUME NEW d \in Conn, Deliver(c, d) PROVE TypeOK'
    <3>1. Carrier(c) \in Frames
      BY ZenonT(60) DEF Carrier, Frames
    <3> QED BY ZenonT(60), <2>12, <3>1, TrySendType DEF Deliver, TypeOK, slots
  <2>13. ASSUME NEW next \in SUBSET Tag, ReRegister(c, next) PROVE TypeOK'
    BY ZenonT(60), <2>13, RegisterTagsType DEF ReRegister, TypeOK, slots
  <2>14. CASE Cleanup(c)
    BY <2>14, RegisteredType, SMTT(40) DEF Cleanup, TypeOK, Phases, slots
  <2> QED BY ZenonT(60), <1>3, <2>1, <2>2, <2>3, <2>4, <2>5, <2>6, <2>7, <2>8, <2>9, <2>10,
             <2>11, <2>12, <2>13, <2>14, <2>15 DEF ConnStep
<1> QED BY ZenonT(60), <1>1, <1>2, <1>3 DEF Next

-----------------------------------------------------------------------------
(* The slot counters.                                                      *)

LEMMA SlotsKept ==
  ASSUME TypeOK, SlotsAccounted, UNCHANGED <<source, slots>>, Counted' = Counted
  PROVE  SlotsAccounted'
<1>1. \A s \in Source : CountedFrom(s)' = CountedFrom(s)
  BY ZenonT(60) DEF CountedFrom
<1> QED BY ZenonT(60), <1>1 DEF SlotsAccounted, slots

LEMMA SlotsStep == IInv /\ SlotsAccounted /\ [Next]_vars => SlotsAccounted'
<1> SUFFICES ASSUME IInv, SlotsAccounted, [Next]_vars PROVE SlotsAccounted'
  BY ZenonT(60)
<1> USE CapAssumption DEF IInv
<1>1. CASE UNCHANGED vars \/ Shutdown \/ StopListening \/ Down
  <2>1. UNCHANGED <<source, slots>> /\ Counted' = Counted
    BY ZenonT(60), <1>1 DEF vars, Shutdown, StopListening, Down, task, slots, Counted
  <2> QED BY ZenonT(60), <2>1, SlotsKept
<1>2. ASSUME NEW c \in Conn, Accept(c) PROVE SlotsAccounted'
  <2>1. PICK s \in Source : s = source[c]
    BY ZenonT(60) DEF TypeOK
  <2>2. Counted' = Counted \cup {c} /\ c \notin Counted
    BY ZenonT(60), <1>2 DEF Accept, Counted, TypeOK
  <2>3. CountedFrom(s)' = CountedFrom(s) \cup {c} /\ c \notin CountedFrom(s)
    BY ZenonT(60), <1>2, <2>1, <2>2 DEF Accept, CountedFrom
  <2>4. \A r \in Source \ {s} : CountedFrom(r)' = CountedFrom(r)
    BY ZenonT(60), <1>2, <2>1, <2>2 DEF Accept, CountedFrom
  <2>5. Cardinality(Counted') = Cardinality(Counted) + 1
    BY ZenonT(60), <2>2, CountedFinite, FS_AddElement
  <2>6. Cardinality(CountedFrom(s)') = Cardinality(CountedFrom(s)) + 1
    BY ZenonT(60), <2>1, <2>3, CountedFinite, FS_AddElement
  <2>7. live' = Cardinality(Counted') /\ live' <= MaxSessions
    BY SMTT(30), <1>2, <2>5 DEF Accept, BelowCaps, SlotsAccounted, TypeOK
  <2>8. bySource'[s] = Cardinality(CountedFrom(s)')
        /\ (MaxPerSource > 0 => bySource'[s] <= MaxPerSource)
    BY SMTT(30), <1>2, <2>1, <2>6 DEF Accept, BelowCaps, SlotsAccounted, TypeOK
  <2>9. \A r \in Source \ {s} : bySource'[r] = bySource[r]
    BY ZenonT(60), <1>2, <2>1 DEF Accept, TypeOK
  <2>10. \A r \in Source :
           /\ bySource'[r] = Cardinality(CountedFrom(r)')
           /\ MaxPerSource > 0 => bySource'[r] <= MaxPerSource
    BY ZenonT(60), <2>4, <2>8, <2>9 DEF SlotsAccounted
  <2> QED BY ZenonT(60), <2>7, <2>10 DEF SlotsAccounted
<1>3. ASSUME NEW c \in Conn, ReleaseSlot(c) PROVE SlotsAccounted'
  <2>1. PICK s \in Source : s = source[c]
    BY ZenonT(60) DEF TypeOK
  <2>2. Counted' = Counted \ {c} /\ c \in Counted
    BY ZenonT(60), <1>3 DEF ReleaseSlot, Counted, TypeOK
  <2>3. CountedFrom(s)' = CountedFrom(s) \ {c} /\ c \in CountedFrom(s)
    BY ZenonT(60), <1>3, <2>1, <2>2 DEF ReleaseSlot, CountedFrom
  <2>4. \A r \in Source \ {s} : CountedFrom(r)' = CountedFrom(r)
    BY ZenonT(60), <1>3, <2>1, <2>2 DEF ReleaseSlot, CountedFrom
  <2>5. Cardinality(Counted') = Cardinality(Counted) - 1
    BY ZenonT(60), <2>2, CountedFinite, FS_RemoveElement
  <2>6. Cardinality(CountedFrom(s)') = Cardinality(CountedFrom(s)) - 1
    <3>1. IsFiniteSet(CountedFrom(s))
      BY ZenonT(60), CountedFinite
    <3> QED BY <2>3, <3>1, FS_RemoveElement, ZenonT(60)
  <2>7. live' = Cardinality(Counted') /\ live' <= MaxSessions
    BY <1>3, <2>5 DEF ReleaseSlot, SlotsAccounted, TypeOK
  <2>8. bySource'[s] = Cardinality(CountedFrom(s)')
        /\ (MaxPerSource > 0 => bySource'[s] <= MaxPerSource)
    BY SMTT(30), <1>3, <2>1, <2>6 DEF ReleaseSlot, SlotsAccounted, TypeOK
  <2>9. \A r \in Source \ {s} : bySource'[r] = bySource[r]
    BY ZenonT(60), <1>3, <2>1 DEF ReleaseSlot, TypeOK
  <2>10. \A r \in Source :
           /\ bySource'[r] = Cardinality(CountedFrom(r)')
           /\ MaxPerSource > 0 => bySource'[r] <= MaxPerSource
    BY ZenonT(60), <2>4, <2>8, <2>9 DEF SlotsAccounted
  <2> QED BY ZenonT(60), <2>7, <2>10 DEF SlotsAccounted
<1>4. ASSUME NEW c \in Conn, ConnStep(c), ~Accept(c), ~ReleaseSlot(c)
      PROVE  SlotsAccounted'
  <2>1. CASE Refuse(c) \/ Challenge(c) \/ HandshakeFails(c) \/ NoFirstFrame(c)
             \/ FirstFrame(c)
    <3>1. UNCHANGED <<source, slots>> /\ Counted' = Counted
      BY ZenonT(60), <2>1, SMTT(40) DEF Refuse, Challenge, HandshakeFails, NoFirstFrame, FirstFrame,
                  Counted, TypeOK
    <3> QED BY ZenonT(60), <3>1, SlotsKept
  <2>2. CASE \/ \E n \in Node : AdmitIdentity(c, n)
             \/ \E next \in SUBSET Tag : AdmitTags(c, next)
    <3>1. UNCHANGED <<source, slots>> /\ Counted' = Counted
      BY SMTT(30), <2>2 DEF AdmitIdentity, AdmitTags, Counted, TypeOK
    <3> QED BY ZenonT(60), <3>1, SlotsKept
  <2>3. CASE WriteDone(c) \/ WriteFails(c) \/ ClientLeaves(c) \/ Cleanup(c)
    <3>1. UNCHANGED <<source, slots>> /\ Counted' = Counted
      BY <2>3, SMTT(40) DEF WriteDone, WriteFails, ClientLeaves, Cleanup, Selecting,
                  Counted, TypeOK, TaskShape
    <3> QED BY ZenonT(60), <3>1, SlotsKept
  <2>4. CASE \/ AdmitRefuses(c) \/ SeeStop(c) \/ CloseSession(c) \/ AnswerPing(c)
             \/ TakeOutbound(c)
             \/ \E n \in Node : LookUpNode(c, n)
             \/ \E t \in Tag : LookUpTag(c, t)
             \/ \E d \in Conn : Deliver(c, d)
             \/ \E next \in SUBSET Tag : ReRegister(c, next)
    <3>1. UNCHANGED <<source, slots, phase>>
      BY ZenonT(60), <2>4 DEF AdmitRefuses, SeeStop, CloseSession, AnswerPing, TakeOutbound,
                  LookUpNode, LookUpTag, Deliver, ReRegister
    <3>2. Counted' = Counted
      BY ZenonT(60), <3>1 DEF Counted
    <3> QED BY ZenonT(60), <3>1, <3>2, SlotsKept
  <2> QED BY ZenonT(60), <1>4, <2>1, <2>2, <2>3, <2>4 DEF ConnStep
<1> QED BY ZenonT(60), <1>1, <1>2, <1>3, <1>4 DEF Next, ConnStep

-----------------------------------------------------------------------------
(* The shape of a task, and what the registry names.                       *)

LEMMA TaskStep == TypeOK /\ TaskShape /\ [Next]_vars => TaskShape'
<1> SUFFICES ASSUME TypeOK, TaskShape, [Next]_vars PROVE TaskShape'
  BY ZenonT(60)
<1> USE NodeAssumption
<1>1. CASE UNCHANGED vars \/ Shutdown \/ StopListening \/ Down
  BY ZenonT(60), <1>1 DEF vars, Shutdown, StopListening, Down, task, TaskShape
<1>2. ASSUME NEW c \in Conn, ConnStep(c) PROVE TaskShape'
  <2>1. CASE Accept(c) \/ Refuse(c) \/ ReleaseSlot(c)
    BY ZenonT(60), <2>1, SMTT(40) DEF Accept, Refuse, ReleaseSlot, TaskShape, TypeOK
  <2>2. CASE Challenge(c) \/ HandshakeFails(c) \/ NoFirstFrame(c) \/ FirstFrame(c)
    BY ZenonT(60), <2>2, SMTT(40) DEF Challenge, HandshakeFails, NoFirstFrame, FirstFrame, TaskShape,
                TypeOK
  <2>3. ASSUME NEW n \in Node, AdmitIdentity(c, n) PROVE TaskShape'
    BY ZenonT(60), <2>3 DEF AdmitIdentity, TaskShape, TypeOK
  <2>4. ASSUME NEW next \in SUBSET Tag, AdmitTags(c, next) PROVE TaskShape'
    BY ZenonT(60), <2>4 DEF AdmitTags, RegisterTags, TaskShape, TypeOK
  <2>5. CASE AdmitRefuses(c) \/ SeeStop(c) \/ CloseSession(c) \/ AnswerPing(c)
             \/ TakeOutbound(c)
    BY ZenonT(60), <2>5 DEF AdmitRefuses, SeeStop, CloseSession, AnswerPing, TakeOutbound,
                Selecting, TaskShape, TypeOK
  <2>6. CASE WriteDone(c) \/ WriteFails(c) \/ ClientLeaves(c)
    BY <2>6, SMTT(40) DEF WriteDone, WriteFails, ClientLeaves, Selecting, TaskShape, TypeOK
  <2>7. CASE \/ \E n \in Node : LookUpNode(c, n)
             \/ \E t \in Tag : LookUpTag(c, t)
             \/ \E d \in Conn : Deliver(c, d)
    BY ZenonT(60), <2>7 DEF LookUpNode, LookUpTag, Deliver, TaskShape
  <2>8. ASSUME NEW next \in SUBSET Tag, ReRegister(c, next) PROVE TaskShape'
    BY ZenonT(60), <2>8 DEF ReRegister, RegisterTags, Selecting, TaskShape, TypeOK
  <2>9. CASE Cleanup(c)
    BY ZenonT(60), <2>9 DEF Cleanup, TaskShape, TypeOK
  <2> QED BY ZenonT(60), <1>2, <2>1, <2>2, <2>3, <2>4, <2>5, <2>6, <2>7, <2>8, <2>9
          DEF ConnStep
<1> QED BY ZenonT(60), <1>1, <1>2 DEF Next

LEMMA RegisteredHolders ==
  ASSUME TypeOK, NEW c \in Conn, NEW next \in SUBSET Tag, NEW t \in Tag,
         NEW d \in Registered(c, next)[t]
  PROVE  /\ d = c \/ d \in tags[t]
         /\ d = c => t \in next \/ (t \notin held[c] /\ c \in tags[t])
<1>1. tags[t] \in SUBSET Conn
  BY ZenonT(60) DEF TypeOK
<1>2. WithHolder(tags[t], c) \in SUBSET (tags[t] \cup {c})
  BY ZenonT(60), <1>1, WithHolderType
<1> QED BY ZenonT(60), <1>2 DEF Registered

\* The registry part of NoGhost is untouched when the sessions it names keep
\* their node id and tags, and stay between admission and cleanup.
LEMMA NoGhostKept ==
  ASSUME TypeOK, NoGhost, UNCHANGED <<node, held, sessions, tags>>,
         \A d \in Conn : phase[d] \in {"up", "leaving"}
                           => phase'[d] \in {"up", "leaving"}
  PROVE  NoGhost'
BY SMTT(30) DEF NoGhost, TypeOK

LEMMA NoGhostStep == IInv /\ [Next]_vars => NoGhost'
<1> SUFFICES ASSUME IInv, [Next]_vars PROVE NoGhost'
  BY ZenonT(60)
<1> USE NodeAssumption, ConnAssumption DEF IInv
<1>1. CASE UNCHANGED vars \/ Shutdown \/ StopListening \/ Down
  BY ZenonT(60), <1>1, NoGhostKept
     DEF vars, Shutdown, StopListening, Down, task, registry
<1>2. ASSUME NEW c \in Conn, ConnStep(c) PROVE NoGhost'
  <2>1. CASE Accept(c) \/ Refuse(c) \/ ReleaseSlot(c)
    BY ZenonT(60), <2>1, NoGhostKept DEF Accept, Refuse, ReleaseSlot, TypeOK, registry
  <2>2. CASE Challenge(c) \/ HandshakeFails(c) \/ NoFirstFrame(c) \/ FirstFrame(c)
    BY ZenonT(60), <2>2, NoGhostKept DEF Challenge, HandshakeFails, NoFirstFrame,
                             FirstFrame, TypeOK, registry
  <2>3. ASSUME NEW n \in Node, AdmitIdentity(c, n) PROVE NoGhost'
    BY SMTT(30), <2>3 DEF AdmitIdentity, NoGhost, TypeOK
  <2>4. ASSUME NEW next \in SUBSET Tag, AdmitTags(c, next) PROVE NoGhost'
    <3>1. node[c] = NoNode
      BY ZenonT(60), <2>4 DEF AdmitTags, TaskShape
    <3>2. \A t \in Tag : c \notin tags[t]
      BY ZenonT(60), <2>4 DEF AdmitTags, NoGhost
    <3>3. \A t \in Tag : \A d \in tags'[t] : /\ d = c \/ d \in tags[t]
                                             /\ d = c => t \in next
      BY ZenonT(60), <2>4, <3>2, RegisteredHolders DEF AdmitTags, RegisterTags
    <3>4. \A t \in Tag : \A d \in tags'[t] :
            phase'[d] \in {"up", "leaving"} /\ t \in held'[d] /\ node'[d] = NoNode
      <4>1. /\ phase' = [phase EXCEPT ![c] = "up"] /\ node' = node
            /\ held' = [held EXCEPT ![c] = next]
        BY ZenonT(60), <2>4 DEF AdmitTags, RegisterTags
      <4>2. /\ DOMAIN phase = Conn /\ DOMAIN held = Conn
            /\ \A t \in Tag : tags[t] \in SUBSET Conn
        BY ZenonT(60) DEF TypeOK
      <4> QED BY ZenonT(60), <3>1, <3>3, <4>1, <4>2 DEF NoGhost
    <3>5. \A n \in Node : sessions'[n] # NoConn =>
            phase'[sessions'[n]] \in {"up", "leaving"} /\ node'[sessions'[n]] = n
      BY SMTT(30), <2>4 DEF AdmitTags, NoGhost, TypeOK
    <3> QED BY ZenonT(60), <3>4, <3>5 DEF NoGhost
  <2>5. CASE AdmitRefuses(c) \/ SeeStop(c) \/ CloseSession(c) \/ AnswerPing(c)
             \/ TakeOutbound(c)
    BY ZenonT(60), <2>5, NoGhostKept DEF AdmitRefuses, SeeStop, CloseSession, AnswerPing,
                             TakeOutbound, registry
  <2>6. CASE WriteDone(c) \/ WriteFails(c) \/ ClientLeaves(c)
    <3>1. UNCHANGED <<node, held, sessions, tags>>
      BY ZenonT(60), <2>6 DEF WriteDone, WriteFails, ClientLeaves, registry
    <3>2. \A d \in Conn : phase[d] \in {"up", "leaving"} => phase'[d] \in {"up", "leaving"}
      BY ZenonT(60), <2>6 DEF WriteDone, WriteFails, ClientLeaves, TypeOK
    <3> QED BY ZenonT(60), <3>1, <3>2, NoGhostKept
  <2>7. CASE \/ \E n \in Node : LookUpNode(c, n)
             \/ \E t \in Tag : LookUpTag(c, t)
             \/ \E d \in Conn : Deliver(c, d)
    BY ZenonT(60), <2>7, NoGhostKept DEF LookUpNode, LookUpTag, Deliver, registry
  <2>8. ASSUME NEW next \in SUBSET Tag, ReRegister(c, next) PROVE NoGhost'
    <3>1. \A t \in Tag : \A d \in tags'[t] : /\ d = c \/ d \in tags[t]
                                             /\ d = c => t \in next
      BY ZenonT(60), <2>8, RegisteredHolders DEF ReRegister, RegisterTags, NoGhost
    <3>2. \A t \in Tag : \A d \in tags'[t] :
            phase'[d] \in {"up", "leaving"} /\ t \in held'[d] /\ node'[d] = NoNode
      <4>1. /\ phase' = phase /\ node' = node /\ held' = [held EXCEPT ![c] = next]
            /\ phase[c] = "up" /\ node[c] = NoNode
        BY ZenonT(60), <2>8 DEF ReRegister, RegisterTags, Selecting
      <4>2. held \in [Conn -> SUBSET Tag]
        BY ZenonT(60) DEF TypeOK
      <4> TAKE t \in Tag
      <4> TAKE d \in tags'[t]
      <4>3. CASE d = c
        BY ZenonT(60), <3>1, <4>1, <4>2, <4>3
      <4>4. CASE d # c
        <5>1. d \in tags[t]
          BY ZenonT(60), <3>1, <4>4
        <5>2. phase[d] \in {"up", "leaving"} /\ t \in held[d] /\ node[d] = NoNode
          BY ZenonT(60), <5>1 DEF NoGhost
        <5> QED BY SMTT(30), <4>1, <4>2, <4>4, <5>2
      <4> QED BY ZenonT(60), <4>3, <4>4
    <3>3. \A n \in Node : sessions'[n] # NoConn =>
            phase'[sessions'[n]] \in {"up", "leaving"} /\ node'[sessions'[n]] = n
      BY ZenonT(60), <2>8 DEF ReRegister, NoGhost, TypeOK
    <3> QED BY ZenonT(60), <3>2, <3>3 DEF NoGhost
  <2>9. CASE Cleanup(c)
    <3>1. \A t \in Tag : \A d \in tags'[t] : d # c /\ d \in tags[t]
      <4>1. tags' = Registered(c, {})
        BY ZenonT(60), <2>9 DEF Cleanup
      <4>2. \A t \in Tag : c \in tags[t] => t \in held[c]
        BY ZenonT(60) DEF NoGhost
      <4> TAKE t \in Tag
      <4> TAKE d \in tags'[t]
      <4>3. /\ d = c \/ d \in tags[t]
            /\ d = c => t \in {} \/ (t \notin held[c] /\ c \in tags[t])
        BY SMTT(30), <4>1, RegisteredHolders
      <4> QED BY ZenonT(60), <4>2, <4>3
    <3>2. \A t \in Tag : \A d \in tags'[t] :
            phase'[d] \in {"up", "leaving"} /\ t \in held'[d] /\ node'[d] = NoNode
      <4>1. /\ node' = node
            /\ \A d \in Conn \ {c} : phase'[d] = phase[d] /\ held'[d] = held[d]
        BY ZenonT(60), <2>9 DEF Cleanup, TypeOK
      <4> TAKE t \in Tag
      <4> TAKE d \in tags'[t]
      <4>2. d \in Conn \ {c} /\ d \in tags[t]
        BY ZenonT(60), <3>1 DEF TypeOK
      <4>3. phase[d] \in {"up", "leaving"} /\ t \in held[d] /\ node[d] = NoNode
        BY ZenonT(60), <4>2 DEF NoGhost
      <4> QED BY ZenonT(60), <4>1, <4>2, <4>3
    <3>3. \A n \in Node : sessions'[n] # NoConn =>
            phase'[sessions'[n]] \in {"up", "leaving"} /\ node'[sessions'[n]] = n
      BY SMTT(30), <2>9 DEF Cleanup, SameChannel, NoGhost, TypeOK
    <3> QED BY ZenonT(60), <3>2, <3>3 DEF NoGhost
  <2> QED BY ZenonT(60), <1>2, <2>1, <2>2, <2>3, <2>4, <2>5, <2>6, <2>7, <2>8, <2>9
          DEF ConnStep
<1> QED BY ZenonT(60), <1>1, <1>2 DEF Next

LEMMA InitInvariant == Init => IInv /\ SlotsAccounted
<1> SUFFICES ASSUME Init PROVE IInv /\ SlotsAccounted
  BY ZenonT(60)
<1>1. queue \in [Conn -> Seq(Frames)] /\ \A c \in Conn : Len(queue[c]) <= QueueCap
  BY CapAssumption DEF Init
<1>2. /\ phase \in [Conn -> Phases]
      /\ writing \in [Conn -> {"none", "frame", "close", "last"}]
  BY ZenonT(60) DEF Init, Phases
<1>3. TypeOK
  BY ZenonT(60), <1>1, <1>2 DEF Init, TypeOK
<1>4. TaskShape /\ NoGhost
  BY ZenonT(60) DEF Init, TaskShape, NoGhost
<1>5. Counted = {} /\ \A s \in Source : CountedFrom(s) = {}
  BY ZenonT(60) DEF Init, Counted, CountedFrom
<1>6. Cardinality(Counted) = 0 /\ \A s \in Source : Cardinality(CountedFrom(s)) = 0
  BY ZenonT(60), <1>5, FS_EmptySet
<1>7. SlotsAccounted
  BY SMTT(30), <1>6, CapAssumption DEF Init, SlotsAccounted
<1> QED BY ZenonT(60), <1>3, <1>4, <1>7 DEF IInv

\* The inductive invariant of the relay.
THEOREM RelayInvariant == Spec => [](IInv /\ SlotsAccounted)
<1>1. IInv /\ SlotsAccounted /\ [Next]_vars => (IInv /\ SlotsAccounted)'
  BY ZenonT(60), TypeStep, TaskStep, NoGhostStep, SlotsStep DEF IInv
<1> QED BY <1>1, InitInvariant, PTL DEF Spec

\* The type invariant: every variable keeps its range and no outbound queue
\* of the relay passes its capacity.
THEOREM TypeCorrect == Spec => []TypeOK
BY RelayInvariant, PTL DEF IInv

\* No exit of serve_session, at any phase and in any interleaving, leaves a
\* registration behind that its own cleanup will not remove.
THEOREM NoGhostCorrect == Spec => []NoGhost
BY RelayInvariant, PTL DEF IInv

\* live and by_source count the connections inside serve_session, and neither
\* passes its cap, for any number of connections and sources.
THEOREM SlotsCorrect == Spec => []SlotsAccounted
BY RelayInvariant, PTL

\* The late cleanup of a displaced identity session never unseats the session
\* that displaced it.
THEOREM NewestWinsCorrect == Spec => NewestWins
<1> DEFINE Wins == \A n \in Node : sessions'[n] # sessions[n] =>
                     IF sessions'[n] = NoConn
                     THEN phase[sessions[n]] = "leaving"
                          /\ phase'[sessions[n]] = "gone"
                     ELSE phase[sessions'[n]] = "admitting"
<1>1. IInv /\ [Next]_vars => [Wins]_vars
  <2> SUFFICES ASSUME IInv, [Next]_vars, sessions' # sessions PROVE Wins
    BY ZenonT(60) DEF vars
  <2>1. PICK c \in Conn : \/ \E n \in Node : AdmitIdentity(c, n)
                          \/ Cleanup(c)
    BY ZenonT(60) DEF Next, ConnStep, Shutdown, StopListening, Down, vars, task, registry,
           Accept, Refuse, ReleaseSlot, Challenge, HandshakeFails, NoFirstFrame,
           FirstFrame, AdmitTags, AdmitRefuses, SeeStop, CloseSession,
           AnswerPing, TakeOutbound, WriteDone, WriteFails, ClientLeaves,
           LookUpNode, LookUpTag, Deliver, ReRegister
  <2>2. ASSUME NEW n \in Node, AdmitIdentity(c, n) PROVE Wins
    BY ZenonT(60), <2>2, ConnAssumption DEF AdmitIdentity, IInv, TypeOK
  <2>3. CASE Cleanup(c)
    BY ZenonT(60), <2>3, ConnAssumption DEF Cleanup, SameChannel, IInv, TypeOK
  <2> QED BY ZenonT(60), <2>1, <2>2, <2>3
<1> QED BY <1>1, RelayInvariant, PTL DEF Spec, NewestWins

-----------------------------------------------------------------------------
(* A tag names a pair.                                                     *)

LEMMA ConnSubset ==
  ASSUME NEW S \in SUBSET Conn
  PROVE  IsFiniteSet(S) /\ Cardinality(S) \in Nat
<1>1. IsFiniteSet(S)
  BY ZenonT(60), ConnAssumption, FS_Subset
<1> QED BY ZenonT(60), <1>1, FS_CardinalityType

LEMMA RemoveBound ==
  ASSUME NEW S \in SUBSET Conn, NEW x, Cardinality(S) <= TAG_ENDS
  PROVE  Cardinality(S \ {x}) <= TAG_ENDS
<1>1. IsFiniteSet(S) /\ Cardinality(S) \in Nat
  BY ZenonT(60), ConnSubset
<1>2. Cardinality(S \ {x}) = IF x \in S THEN Cardinality(S) - 1 ELSE Cardinality(S)
  BY ZenonT(60), <1>1, FS_RemoveElement
<1> QED BY <1>1, <1>2 DEF TAG_ENDS

LEMMA HoldersBound ==
  ASSUME TypeOK, NEW S \in SUBSET Conn, Cardinality(S) <= TAG_ENDS, NEW c \in Conn
  PROVE  Cardinality(WithHolder(S, c)) <= TAG_ENDS
<1> DEFINE all == S \cup {c}
<1>1. IsFiniteSet(S) /\ IsFiniteSet(all) /\ all \in SUBSET Conn
  BY ZenonT(60), ConnSubset
<1>2. Cardinality(all) <= 3 /\ Cardinality(all) \in Nat
  <2>1. Cardinality(all) = IF c \in S THEN Cardinality(S) ELSE Cardinality(S) + 1
    BY ZenonT(60), <1>1, FS_AddElement
  <2>2. Cardinality(S) \in Nat
    BY ZenonT(60), ConnSubset
  <2> QED BY <2>1, <2>2 DEF TAG_ENDS
<1>3. CASE Cardinality(all) <= TAG_ENDS
  BY <1>2, <1>3 DEF WithHolder, TAG_ENDS
<1>4. CASE Cardinality(all) = 3
  <2>1. PICK x \in all : \A d \in all : sid[x] <= sid[d]
    <3>1. PICK a \in all : TRUE
      BY ZenonT(60), <1>4, <1>1, FS_EmptySet
    <3>2. Cardinality(all \ {a}) = 2 /\ IsFiniteSet(all \ {a})
      <4>1. IsFiniteSet(all) /\ a \in all /\ Cardinality(all) = 3
        BY ZenonT(60), <1>1, <1>4, <3>1
      <4> HIDE DEF all
      <4> QED BY SMTT(30), <4>1, FS_RemoveElement
    <3> DEFINE two == all \ {a}
    <3>3. PICK b \in two : TRUE
      BY <3>2, FS_EmptySet
    <3>4. Cardinality(two \ {b}) = 1 /\ IsFiniteSet(two \ {b})
      <4> HIDE DEF two
      <4> QED BY <3>2, <3>3, FS_RemoveElement, SMTT(40) DEF two
    <3>5. PICK e : (all \ {a}) \ {b} = {e}
      BY ZenonT(60), <3>4, FS_Singleton
    <3>6. all = {a, b, e}
      BY ZenonT(60), <3>1, <3>3, <3>5
    <3>7. sid[a] \in Nat /\ sid[b] \in Nat /\ sid[e] \in Nat
      BY ZenonT(60), <1>1, <3>6 DEF TypeOK
    <3> QED BY SMTT(30), <3>6, <3>7
  <2>2. all \ Oldest(all) \in SUBSET (all \ {x})
    BY ZenonT(60), <2>1 DEF Oldest
  <2>3. IsFiniteSet(all \ {x}) /\ Cardinality(all \ {x}) = 2
    BY SMTT(30), <1>1, <1>4, <2>1, FS_RemoveElement
  <2>4. Cardinality(all \ Oldest(all)) <= 2
    <3> HIDE DEF all
    <3> QED BY <2>2, <2>3, FS_Subset
  <2> QED BY <1>4, <2>4 DEF WithHolder, TAG_ENDS
<1> QED BY <1>2, <1>3, <1>4 DEF TAG_ENDS

LEMMA RegisteredBound ==
  ASSUME TypeOK, TagNamesAPair, NEW c \in Conn, NEW next \in SUBSET Tag
  PROVE  \A t \in Tag : Cardinality(Registered(c, next)[t]) <= TAG_ENDS
<1> SUFFICES ASSUME NEW t \in Tag
             PROVE  Cardinality(Registered(c, next)[t]) <= TAG_ENDS
  BY ZenonT(60)
<1>1. tags[t] \in SUBSET Conn /\ Cardinality(tags[t]) <= TAG_ENDS
  BY ZenonT(60) DEF TypeOK, TagNamesAPair
<1>3. Cardinality(WithHolder(tags[t], c)) <= TAG_ENDS
  BY ZenonT(60), <1>1, HoldersBound
<1>4. Cardinality(tags[t] \ {c}) <= TAG_ENDS
  BY ZenonT(60), <1>1, RemoveBound
<1> QED BY ZenonT(60), <1>1, <1>3, <1>4 DEF Registered

LEMMA TagsStep == TypeOK /\ TagNamesAPair /\ [Next]_vars => TagNamesAPair'
<1> SUFFICES ASSUME TypeOK, TagNamesAPair, [Next]_vars PROVE TagNamesAPair'
  BY ZenonT(60)
<1>1. CASE UNCHANGED <<tags, route>>
  BY ZenonT(60), <1>1 DEF TagNamesAPair
<1>2. ASSUME NEW c \in Conn,
             \/ \E next \in SUBSET Tag : AdmitTags(c, next) \/ ReRegister(c, next)
             \/ Cleanup(c)
      PROVE  TagNamesAPair'
  <2>1. PICK next \in SUBSET Tag : tags' = Registered(c, next)
    BY ZenonT(60), <1>2 DEF AdmitTags, ReRegister, RegisterTags, Cleanup
  <2>2. route' = route
    BY ZenonT(60), <1>2 DEF AdmitTags, ReRegister, Cleanup
  <2> QED BY ZenonT(60), <2>1, <2>2, RegisteredBound DEF TagNamesAPair
<1>3. ASSUME NEW c \in Conn, NEW n \in Node, LookUpNode(c, n) PROVE TagNamesAPair'
  <2>1. route' = [route EXCEPT ![c] = {sessions[n]}] /\ tags' = tags
    BY ZenonT(60), <1>3 DEF LookUpNode, registry
  <2>2. Cardinality({sessions[n]}) <= TAG_ENDS
    <3>1. Cardinality({sessions[n]}) = 1
      BY ZenonT(60), FS_Singleton
    <3> QED BY <3>1 DEF TAG_ENDS
  <2> QED BY ZenonT(60), <2>1, <2>2 DEF TagNamesAPair, TypeOK
<1>4. ASSUME NEW c \in Conn, NEW t \in Tag, LookUpTag(c, t) PROVE TagNamesAPair'
  <2>1. route' = [route EXCEPT ![c] = tags[t] \ {c}] /\ tags' = tags
    BY ZenonT(60), <1>4 DEF LookUpTag, TagTargets, registry
  <2>2. tags[t] \in SUBSET Conn /\ Cardinality(tags[t]) <= TAG_ENDS
    BY ZenonT(60) DEF TypeOK, TagNamesAPair
  <2>3. Cardinality(tags[t] \ {c}) <= TAG_ENDS
    BY ZenonT(60), <2>2, RemoveBound
  <2> QED BY ZenonT(60), <2>1, <2>3 DEF TagNamesAPair, TypeOK
<1>5. ASSUME NEW c \in Conn, NEW d \in Conn, Deliver(c, d) PROVE TagNamesAPair'
  <2>1. route' = [route EXCEPT ![c] = route[c] \ {d}] /\ tags' = tags
    BY ZenonT(60), <1>5 DEF Deliver
  <2>2. route[c] \in SUBSET Conn /\ Cardinality(route[c]) <= TAG_ENDS
    BY ZenonT(60) DEF TypeOK, TagNamesAPair
  <2>3. Cardinality(route[c] \ {d}) <= TAG_ENDS
    BY ZenonT(60), <2>2, RemoveBound
  <2> QED BY ZenonT(60), <2>1, <2>3 DEF TagNamesAPair, TypeOK
<1>6. \/ UNCHANGED <<tags, route>>
      \/ \E c \in Conn :
           \/ \E next \in SUBSET Tag : AdmitTags(c, next) \/ ReRegister(c, next)
           \/ Cleanup(c)
           \/ \E n \in Node : LookUpNode(c, n)
           \/ \E t \in Tag : LookUpTag(c, t)
           \/ \E d \in Conn : Deliver(c, d)
  BY ZenonT(60) DEF Next, ConnStep, Shutdown, StopListening, Down, vars, task, registry,
         Accept, Refuse, ReleaseSlot, Challenge, HandshakeFails, NoFirstFrame,
         FirstFrame, AdmitIdentity, AdmitRefuses, SeeStop, CloseSession,
         AnswerPing, TakeOutbound, WriteDone, WriteFails, ClientLeaves
<1> QED BY ZenonT(60), <1>1, <1>2, <1>3, <1>4, <1>5, <1>6

\* However many sessions present a tag, it has at most two holders, and one
\* SendTag is copied to at most two queues.
THEOREM TagNamesAPairCorrect == Spec => []TagNamesAPair
<1>1. Init => TagNamesAPair
  BY SMTT(30), FS_EmptySet DEF Init, TagNamesAPair, TAG_ENDS
<1>2. TypeOK /\ TagNamesAPair /\ [Next]_vars => TagNamesAPair'
  BY ZenonT(60), TagsStep
<1> QED BY <1>1, <1>2, TypeCorrect, PTL DEF Spec

-----------------------------------------------------------------------------
(* Identity and tag sessions.                                              *)

Early == {"new", "refused", "accepted", "challenged", "admitting"}

\* The targets a task holds after the lock was released are registered sessions
\* of its own mode, and nothing is queued before a session has a mode.
RoutesMatch ==
  /\ \A c \in Conn : phase[c] \in Early => queue[c] = <<>>
  /\ \A c \in Conn : \A d \in route[c] :
       /\ phase[c] \notin Early /\ phase[d] \notin Early
       /\ node[c] = NoNode <=> node[d] = NoNode

MInv == ModesApart /\ RoutesMatch

\* What may be queued for c.
Fitting(c) == {Carrier(c), "close"}

LEMMA ModesByCarrier ==
  ModesApart <=> \A c \in Conn : \A i \in 1..Len(queue[c]) : queue[c][i] \in Fitting(c)
BY ZenonT(60) DEF ModesApart, Fitting, Carrier

LEMMA TrySendFits ==
  ASSUME TypeOK, ModesApart, NEW d \in Conn, NEW f \in Frames, f \in Fitting(d)
  PROVE  \A i \in 1..Len(TrySend(d, f)) : TrySend(d, f)[i] \in Fitting(d)
<1>1. queue[d] \in Seq(Frames) /\ \A i \in 1..Len(queue[d]) : queue[d][i] \in Fitting(d)
  BY ZenonT(60), ModesByCarrier DEF TypeOK
<1> DEFINE q == Append(queue[d], f)
<1>2. /\ Len(q) = Len(queue[d]) + 1
      /\ \A i \in 1..Len(queue[d]) : q[i] = queue[d][i]
      /\ q[Len(q)] = f /\ Len(queue[d]) \in Nat
  BY SMTT(30), <1>1
<1>3. ASSUME NEW i \in 1..Len(q) PROVE q[i] \in Fitting(d)
  BY SMTT(30), <1>1, <1>2, <1>3
<1> QED BY ZenonT(60), <1>1, <1>3 DEF TrySend

\* Nothing that decides the mode of c or of its targets changed.
LEMMA RoutesKept ==
  ASSUME TypeOK, TypeOK', RoutesMatch, UNCHANGED node,
         \A c \in Conn : phase[c] \notin Early => phase'[c] \notin Early,
         \A c \in Conn : phase'[c] \in Early => queue'[c] = <<>>,
         \A c \in Conn : route'[c] \in SUBSET route[c]
  PROVE  RoutesMatch'
<1>1. \A c \in Conn : route[c] \in SUBSET Conn
  BY ZenonT(60) DEF TypeOK
<1>2. ASSUME NEW c \in Conn, NEW d \in route'[c]
      PROVE  /\ phase'[c] \notin Early /\ phase'[d] \notin Early
             /\ node'[c] = NoNode <=> node'[d] = NoNode
  <2>1. d \in route[c] /\ d \in Conn
    BY ZenonT(60), <1>1, <1>2
  <2> QED BY ZenonT(60), <2>1 DEF RoutesMatch
<1> QED BY ZenonT(60), <1>2 DEF RoutesMatch

LEMMA ModesKept ==
  ASSUME ModesApart, UNCHANGED <<node, queue>>
  PROVE  ModesApart'
BY ZenonT(60) DEF ModesApart

LEMMA ModesStep == IInv /\ IInv' /\ MInv /\ [Next]_vars => MInv'
<1> SUFFICES ASSUME IInv, IInv', MInv, [Next]_vars PROVE MInv'
  BY ZenonT(60)
<1> USE NodeAssumption, ConnAssumption DEF MInv
<1>t. TypeOK /\ TypeOK' /\ TaskShape /\ NoGhost /\ ModesApart /\ RoutesMatch
  BY ZenonT(60) DEF IInv
<1>q. /\ queue \in [Conn -> Seq(Frames)] /\ phase \in [Conn -> Phases]
      /\ route \in [Conn -> SUBSET Conn] /\ node \in [Conn -> Node \cup {NoNode}]
  BY ZenonT(60), <1>t DEF TypeOK
<1>e. \A c \in Conn : phase[c] \in Early => queue[c] = <<>>
  BY ZenonT(60), <1>t DEF RoutesMatch
<1>s. sessions \in [Node -> Conn \cup {NoConn}] /\ tags \in [Tag -> SUBSET Conn]
  BY ZenonT(60), <1>t DEF TypeOK
<1>n. \A n \in Node : sessions[n] # NoConn =>
        sessions[n] \in Conn /\ phase[sessions[n]] \notin Early /\ node[sessions[n]] = n
  BY ZenonT(60), <1>t, <1>s DEF NoGhost, Early
<1>h. \A t \in Tag : \A d \in tags[t] :
        d \in Conn /\ phase[d] \notin Early /\ node[d] = NoNode
  BY ZenonT(60), <1>t, <1>s DEF NoGhost, Early
<1>1. CASE UNCHANGED vars \/ Shutdown \/ StopListening \/ Down
  <2>1. UNCHANGED <<phase, node, queue, route>>
    BY ZenonT(60), <1>1 DEF vars, Shutdown, StopListening, Down, task, registry
  <2> QED BY ZenonT(60), <2>1, <1>t, <1>q, <1>e, RoutesKept, ModesKept
<1>2. ASSUME NEW c \in Conn, ConnStep(c) PROVE MInv'
  <2>1. CASE \/ Accept(c) \/ Refuse(c) \/ ReleaseSlot(c) \/ Challenge(c) \/ HandshakeFails(c)
             \/ NoFirstFrame(c) \/ FirstFrame(c) \/ AdmitRefuses(c) \/ SeeStop(c)
             \/ CloseSession(c) \/ AnswerPing(c) \/ WriteDone(c) \/ WriteFails(c)
             \/ ClientLeaves(c)
    <3>1. /\ UNCHANGED <<node, queue, route>>
          /\ \E x \in Phases : phase' = [phase EXCEPT ![c] = x]
                               /\ (x \in Early => phase[c] \in Early)
      <4>1. CASE \/ Accept(c) \/ Refuse(c) \/ ReleaseSlot(c) \/ Challenge(c)
                 \/ HandshakeFails(c) \/ NoFirstFrame(c) \/ FirstFrame(c)
        BY ZenonT(60), <4>1, <1>q DEF Accept, Refuse, ReleaseSlot, Challenge, HandshakeFails,
             NoFirstFrame, FirstFrame, registry, Phases, Early
      <4>2. CASE AdmitRefuses(c) \/ SeeStop(c) \/ CloseSession(c) \/ AnswerPing(c)
        BY SMTT(30), <4>2, <1>q DEF AdmitRefuses, SeeStop, CloseSession, AnswerPing, registry
      <4>3. CASE WriteDone(c)
        <5> DEFINE x == IF writing[c] = "frame" THEN phase[c]
                        ELSE IF phase[c] = "admitting" THEN "gone" ELSE "leaving"
        <5>1. UNCHANGED <<node, queue, route>> /\ phase' = [phase EXCEPT ![c] = x]
          BY ZenonT(60), <4>3 DEF WriteDone, registry
        <5>2. x \in Phases /\ (x \in Early => phase[c] \in Early)
          BY ZenonT(60), <1>q DEF Phases, Early
        <5> QED BY ZenonT(60), <5>1, <5>2
      <4>4. CASE WriteFails(c) \/ ClientLeaves(c)
        BY ZenonT(60), <4>4, <1>q DEF WriteFails, ClientLeaves, registry, Phases, Early
      <4> QED BY ZenonT(60), <2>1, <4>1, <4>2, <4>3, <4>4
    <3> QED BY ZenonT(60), <3>1, <1>t, <1>q, <1>e, RoutesKept, ModesKept
  <2>2. ASSUME NEW n \in Node, AdmitIdentity(c, n) PROVE MInv'
    <3>1. /\ phase[c] = "admitting" /\ phase' = [phase EXCEPT ![c] = "up"]
          /\ node' = [node EXCEPT ![c] = n] /\ route' = route
          /\ queue' = IF sessions[n] = NoConn THEN queue
                      ELSE [queue EXCEPT ![sessions[n]] = TrySend(sessions[n], "close")]
      BY ZenonT(60), <2>2 DEF AdmitIdentity
    <3>2. queue[c] = <<>>
      BY ZenonT(60), <3>1, <1>e DEF Early
    <3>3. sessions[n] # NoConn => sessions[n] \in Conn /\ sessions[n] # c
                                  /\ phase[sessions[n]] \notin Early
      BY ZenonT(60), <3>1, <1>n DEF Early
    <3>4. queue'[c] = <<>>
      BY ZenonT(60), <3>1, <3>2, <3>3, <1>q
    <3>5. ASSUME NEW d \in Conn, NEW i \in 1..Len(queue'[d]) PROVE queue'[d][i] \in Fitting(d)'
      <4>1. CASE d = c
        BY SMTT(30), <4>1, <3>4, <3>5
      <4>2. CASE d # c
        <5>1. Fitting(d)' = Fitting(d)
          BY ZenonT(60), <4>2, <3>1, <1>q DEF Fitting, Carrier
        <5>2. CASE queue'[d] = queue[d]
          BY ZenonT(60), <5>1, <5>2, <3>5, <1>t, ModesByCarrier
        <5>3. CASE sessions[n] # NoConn /\ d = sessions[n]
          <6>1. queue'[d] = TrySend(d, "close")
            BY ZenonT(60), <5>3, <3>1, <3>3, <1>q
          <6>2. "close" \in Frames /\ "close" \in Fitting(d)
            BY ZenonT(60) DEF Frames, Fitting
          <6> QED BY ZenonT(60), <6>1, <6>2, <5>1, <3>5, <1>t, TrySendFits
        <5> QED BY ZenonT(60), <5>2, <5>3, <3>1, <3>3, <1>q
      <4> QED BY ZenonT(60), <4>1, <4>2
    <3>6. ModesApart'
      BY ZenonT(60), <3>5, ModesByCarrier DEF ModesApart, Fitting, Carrier
    <3>7. \A d \in Conn : phase'[d] \in Early => queue'[d] = <<>>
      BY ZenonT(60), <3>1, <3>3, <3>4, <1>e, <1>q
    <3>8. \A d \in Conn : \A e \in route[d] : d # c /\ e # c
      BY ZenonT(60), <3>1, <1>t DEF RoutesMatch, Early
    <3>9. ASSUME NEW d \in Conn, NEW e \in route'[d]
          PROVE  /\ phase'[d] \notin Early /\ phase'[e] \notin Early
                 /\ node'[d] = NoNode <=> node'[e] = NoNode
      BY ZenonT(60), <3>1, <3>8, <3>9, <1>t, <1>q DEF RoutesMatch
    <3> QED BY ZenonT(60), <3>6, <3>7, <3>9 DEF RoutesMatch
  <2>3. ASSUME NEW next \in SUBSET Tag, AdmitTags(c, next) \/ ReRegister(c, next) PROVE MInv'
    <3>1. /\ UNCHANGED <<node, route>> /\ phase'[c] \notin Early
          /\ \A d \in Conn : d # c => phase'[d] = phase[d]
          /\ queue' = [d \in Conn |-> IF d \in Evicted(c, next) THEN TrySend(d, "close")
                                      ELSE queue[d]]
      BY ZenonT(60), <2>3, <1>q DEF AdmitTags, ReRegister, RegisterTags, Selecting, Early
    <3>2. ASSUME NEW d \in Evicted(c, next), d # c PROVE phase[d] \notin Early
      <4>1. PICK t \in next : d \in tags[t]
        BY ZenonT(60), <3>2 DEF Evicted
      <4> QED BY ZenonT(60), <4>1, <1>t DEF NoGhost, Early
    <3>3. \A d \in Conn : phase'[d] \in Early => queue'[d] = <<>>
      BY ZenonT(60), <3>1, <3>2, <1>e
    <3>4. ASSUME NEW d \in Conn, NEW i \in 1..Len(queue'[d]) PROVE queue'[d][i] \in Fitting(d)'
      <4>1. Fitting(d)' = Fitting(d)
        BY ZenonT(60), <3>1 DEF Fitting, Carrier
      <4>2. "close" \in Frames /\ "close" \in Fitting(d)
        BY ZenonT(60) DEF Frames, Fitting
      <4>3. CASE queue'[d] = queue[d]
        BY ZenonT(60), <4>1, <4>3, <3>4, <1>t, ModesByCarrier
      <4>4. CASE queue'[d] = TrySend(d, "close")
        BY ZenonT(60), <4>1, <4>2, <4>4, <3>4, <1>t, TrySendFits
      <4> QED BY ZenonT(60), <3>1, <4>3, <4>4
    <3>5. ModesApart'
      BY ZenonT(60), <3>4, ModesByCarrier DEF ModesApart, Fitting, Carrier
    <3>6. \A d \in Conn : phase[d] \notin Early => phase'[d] \notin Early
      BY ZenonT(60), <3>1
    <3>7. RoutesMatch'
      BY ZenonT(60), <3>1, <3>3, <3>6, <1>t, <1>q, RoutesKept
    <3> QED BY ZenonT(60), <3>5, <3>7
  <2>4. CASE TakeOutbound(c)
    <3>1. /\ UNCHANGED <<node, route, phase>> /\ phase[c] \notin Early
          /\ queue[c] # <<>> /\ queue' = [queue EXCEPT ![c] = Tail(queue[c])]
      BY ZenonT(60), <2>4 DEF TakeOutbound, Selecting, Early
    <3>2. queue[c] \in Seq(Frames)
      BY ZenonT(60), <1>q
    <3>3. /\ Len(Tail(queue[c])) = Len(queue[c]) - 1 /\ Len(queue[c]) \in Nat
          /\ \A i \in 1..Len(Tail(queue[c])) : Tail(queue[c])[i] = queue[c][i + 1]
      BY SMTT(30), <3>1, <3>2
    <3>4. \A d \in Conn : d # c => queue'[d] = queue[d]
      BY ZenonT(60), <3>1, <1>q
    <3>5. queue'[c] = Tail(queue[c])
      BY ZenonT(60), <3>1, <1>q
    <3>6. \A d \in Conn : Fitting(d)' = Fitting(d)
      BY ZenonT(60), <3>1 DEF Fitting, Carrier
    <3>7. ASSUME NEW i \in 1..Len(queue'[c]) PROVE queue'[c][i] \in Fitting(c)
      <4>1. i + 1 \in 1..Len(queue[c]) /\ queue'[c][i] = queue[c][i + 1]
        BY SMTT(30), <3>3, <3>5, <3>7
      <4> QED BY ZenonT(60), <4>1, <1>t, ModesByCarrier
    <3>8. \A d \in Conn : \A i \in 1..Len(queue'[d]) : queue'[d][i] \in Fitting(d)'
      BY ZenonT(60), <3>4, <3>6, <3>7, <1>t, ModesByCarrier
    <3>9. ModesApart'
      BY ZenonT(60), <3>8 DEF ModesApart, Fitting, Carrier
    <3>10. RoutesMatch'
      BY ZenonT(60), <3>1, <3>4, <1>e, <1>t, <1>q, RoutesKept
    <3> QED BY ZenonT(60), <3>9, <3>10
  <2>5. ASSUME NEW d \in Conn, Deliver(c, d) PROVE MInv'
    <3>1. /\ UNCHANGED <<node, phase>> /\ d \in route[c]
          /\ route' = [route EXCEPT ![c] = route[c] \ {d}]
          /\ queue' = [queue EXCEPT ![d] = TrySend(d, Carrier(c))]
      BY ZenonT(60), <2>5 DEF Deliver
    <3>2. phase[d] \notin Early /\ Carrier(c) = Carrier(d)
      BY ZenonT(60), <3>1, <1>t DEF RoutesMatch, Carrier
    <3>3. Carrier(c) \in Frames /\ Carrier(c) \in Fitting(d)
      BY ZenonT(60), <3>2 DEF Carrier, Frames, Fitting
    <3>4. \A i \in 1..Len(TrySend(d, Carrier(c))) : TrySend(d, Carrier(c))[i] \in Fitting(d)
      BY ZenonT(60), <3>3, <1>t, TrySendFits
    <3>5. queue'[d] = TrySend(d, Carrier(c)) /\ \A e \in Conn : e # d => queue'[e] = queue[e]
      BY ZenonT(60), <3>1, <1>q
    <3>6. \A e \in Conn : Fitting(e)' = Fitting(e)
      BY ZenonT(60), <3>1 DEF Fitting, Carrier
    <3>7. \A e \in Conn : \A i \in 1..Len(queue'[e]) : queue'[e][i] \in Fitting(e)'
      BY ZenonT(60), <3>4, <3>5, <3>6, <1>t, ModesByCarrier
    <3>8. ModesApart'
      BY ZenonT(60), <3>7 DEF ModesApart, Fitting, Carrier
    <3>9. RoutesMatch'
      BY ZenonT(60), <3>1, <3>2, <3>5, <1>e, <1>t, <1>q, RoutesKept
    <3> QED BY ZenonT(60), <3>8, <3>9
  <2>6. CASE \/ \E n \in Node : LookUpNode(c, n)
             \/ \E t \in Tag : LookUpTag(c, t)
    <3>1. /\ UNCHANGED <<node, phase, queue>> /\ phase[c] \notin Early
          /\ \E S \in SUBSET Conn :
               /\ route' = [route EXCEPT ![c] = S]
               /\ \A d \in S : phase[d] \notin Early /\ (node[c] = NoNode <=> node[d] = NoNode)
      <4>1. ASSUME NEW n \in Node, LookUpNode(c, n)
            PROVE  /\ {sessions[n]} \in SUBSET Conn /\ phase[sessions[n]] \notin Early
                   /\ node[c] # NoNode /\ node[sessions[n]] # NoNode
        BY ZenonT(60), <4>1, <1>n DEF LookUpNode
      <4>2. ASSUME NEW t \in Tag, LookUpTag(c, t)
            PROVE  /\ tags[t] \ {c} \in SUBSET Conn /\ node[c] = NoNode
                   /\ \A d \in tags[t] \ {c} : phase[d] \notin Early /\ node[d] = NoNode
        BY ZenonT(60), <4>2, <1>h DEF LookUpTag
      <4>3. CASE \E n \in Node : LookUpNode(c, n)
        <5>1. PICK n \in Node : LookUpNode(c, n)
          BY ZenonT(60), <4>3
        <5>2. UNCHANGED <<node, phase, queue>> /\ phase[c] \notin Early
              /\ route' = [route EXCEPT ![c] = {sessions[n]}]
          BY ZenonT(60), <5>1 DEF LookUpNode, Selecting, Early, registry
        <5> DEFINE S == {sessions[n]}
        <5>3. S \in SUBSET Conn
              /\ \A d \in S : phase[d] \notin Early /\ (node[c] = NoNode <=> node[d] = NoNode)
          BY ZenonT(60), <5>1, <4>1
        <5> QED BY ZenonT(60), <5>2, <5>3
      <4>4. CASE \E t \in Tag : LookUpTag(c, t)
        <5>1. PICK t \in Tag : LookUpTag(c, t)
          BY ZenonT(60), <4>4
        <5>2. UNCHANGED <<node, phase, queue>> /\ phase[c] \notin Early
              /\ route' = [route EXCEPT ![c] = tags[t] \ {c}]
          BY ZenonT(60), <5>1 DEF LookUpTag, TagTargets, Selecting, Early, registry
        <5> DEFINE S == tags[t] \ {c}
        <5>3. S \in SUBSET Conn
              /\ \A d \in S : phase[d] \notin Early /\ (node[c] = NoNode <=> node[d] = NoNode)
          BY ZenonT(60), <5>1, <4>2
        <5> QED BY ZenonT(60), <5>2, <5>3
      <4> QED BY ZenonT(60), <2>6, <4>3, <4>4
    <3>2. RoutesMatch'
      BY ZenonT(60), <3>1, <1>t, <1>q DEF RoutesMatch
    <3> QED BY ZenonT(60), <3>1, <3>2, <1>t, ModesKept
  <2>7. CASE Cleanup(c)
    <3>1. /\ UNCHANGED <<node, route>> /\ phase' = [phase EXCEPT ![c] = "gone"]
          /\ queue' = [queue EXCEPT ![c] = <<>>]
      BY ZenonT(60), <2>7 DEF Cleanup
    <3>2. ModesApart'
      BY SMTT(30), <3>1, <1>t, <1>q DEF ModesApart
    <3>3. RoutesMatch'
      BY ZenonT(60), <3>1, <1>e, <1>t, <1>q, RoutesKept DEF Early
    <3> QED BY ZenonT(60), <3>2, <3>3
  <2> QED BY ZenonT(60), <1>2, <2>1, <2>2, <2>3, <2>4, <2>5, <2>6, <2>7 DEF ConnStep
<1> QED BY ZenonT(60), <1>1, <1>2 DEF Next

\* The registry is coherent for any number of connections, nodes and tags: types
\* and queue bounds, no ghost registration, pairs of holders, and no session is
\* ever queued a frame of the other mode although its queue was looked up
\* before the lock was released (serve_session).
THEOREM RegistryCoherentCorrect == Spec => []RegistryCoherent
<1>1. Init => MInv
  BY SMTT(30) DEF Init, MInv, ModesApart, RoutesMatch
<1>2. IInv /\ IInv' /\ MInv /\ [Next]_vars => MInv'
  BY ZenonT(60), ModesStep
<1>3. IInv /\ MInv /\ TagNamesAPair => RegistryCoherent
  BY ZenonT(60) DEF IInv, MInv, RegistryCoherent
<1> QED BY <1>1, <1>2, <1>3, RelayInvariant, TagNamesAPairCorrect, PTL DEF Spec

-----------------------------------------------------------------------------
(* Who loses a tag, and whether it is told.                                *)

\* Session ids are handed out once, in order, and before registration.
SidsInOrder ==
  /\ nextId \in Nat \ {0}
  /\ \A c \in Conn : sid[c] < nextId
  /\ \A c \in Conn : phase[c] \in {"admitting", "up", "leaving"} => sid[c] # 0
  /\ \A c, d \in Conn : sid[c] = sid[d] /\ sid[c] # 0 => c = d

LEMMA SidsStep == IInv /\ SidsInOrder /\ [Next]_vars => SidsInOrder'
<1> SUFFICES ASSUME IInv, SidsInOrder, [Next]_vars PROVE SidsInOrder'
  BY ZenonT(60)
<1>t. /\ phase \in [Conn -> Phases] /\ sid \in [Conn -> Nat] /\ nextId \in Nat
      /\ \A c \in Conn : writing[c] # "none" => phase[c] \in {"admitting", "up"}
  BY ZenonT(60) DEF IInv, TypeOK, TaskShape
<1>1. CASE UNCHANGED <<phase, sid, nextId>>
  BY ZenonT(60), <1>1 DEF SidsInOrder
<1>2. ASSUME NEW c \in Conn, FirstFrame(c) PROVE SidsInOrder'
  BY SMTT(30), <1>2, <1>t DEF FirstFrame, SidsInOrder
<1>3. ASSUME NEW c \in Conn, UNCHANGED <<sid, nextId>>,
             \E x \in Phases : /\ phase' = [phase EXCEPT ![c] = x]
                               /\ x \in {"admitting", "up", "leaving"} =>
                                    phase[c] \in {"admitting", "up", "leaving"}
      PROVE  SidsInOrder'
  BY ZenonT(60), <1>3, <1>t DEF SidsInOrder
<1>4. ASSUME NEW c \in Conn,
             \/ Accept(c) \/ Refuse(c) \/ ReleaseSlot(c) \/ Challenge(c) \/ HandshakeFails(c)
             \/ NoFirstFrame(c) \/ ClientLeaves(c) \/ Cleanup(c)
             \/ \E n \in Node : AdmitIdentity(c, n)
             \/ \E next \in SUBSET Tag : AdmitTags(c, next)
      PROVE  SidsInOrder'
  <2>1. \E x \in Phases : /\ phase' = [phase EXCEPT ![c] = x]
                          /\ x \in {"admitting", "up", "leaving"} =>
                               phase[c] \in {"admitting", "up", "leaving"}
    BY ZenonT(60), <1>4 DEF Accept, Refuse, ReleaseSlot, Challenge, HandshakeFails, NoFirstFrame,
       ClientLeaves, Selecting, Cleanup, AdmitIdentity, AdmitTags, Phases
  <2>2. UNCHANGED <<sid, nextId>>
    BY ZenonT(60), <1>4 DEF Accept, Refuse, ReleaseSlot, Challenge, HandshakeFails, NoFirstFrame,
       ClientLeaves, Cleanup, AdmitIdentity, AdmitTags
  <2> QED BY ZenonT(60), <2>1, <2>2, <1>3
<1>5. ASSUME NEW c \in Conn, WriteDone(c) \/ WriteFails(c) PROVE SidsInOrder'
  <2>1. PICK x \in {phase[c], "gone", "leaving"} : phase' = [phase EXCEPT ![c] = x]
    BY ZenonT(60), <1>5 DEF WriteDone, WriteFails
  <2>2. UNCHANGED <<sid, nextId>> /\ phase[c] \in {"admitting", "up"}
    BY ZenonT(60), <1>5, <1>t DEF WriteDone, WriteFails
  <2>3. x \in Phases
    BY ZenonT(60), <2>1, <2>2 DEF Phases
  <2> QED BY ZenonT(60), <2>1, <2>2, <2>3, <1>3
<1>6. \/ UNCHANGED <<phase, sid, nextId>>
      \/ \E c \in Conn :
           \/ FirstFrame(c) \/ WriteDone(c) \/ WriteFails(c)
           \/ Accept(c) \/ Refuse(c) \/ ReleaseSlot(c) \/ Challenge(c) \/ HandshakeFails(c)
           \/ NoFirstFrame(c) \/ ClientLeaves(c) \/ Cleanup(c)
           \/ \E n \in Node : AdmitIdentity(c, n)
           \/ \E next \in SUBSET Tag : AdmitTags(c, next)
  BY ZenonT(60) DEF Next, ConnStep, Shutdown, StopListening, Down, vars, task, registry,
     AdmitRefuses, SeeStop, CloseSession, AnswerPing, TakeOutbound, LookUpNode, LookUpTag,
     Deliver, ReRegister
<1> QED BY ZenonT(60), <1>1, <1>2, <1>4, <1>5, <1>6

LEMMA SidsInvariant == Spec => []SidsInOrder
<1>1. Init => SidsInOrder
  BY DEF Init, SidsInOrder
<1> QED BY <1>1, SidsStep, RelayInvariant, PTL DEF Spec

\* Past two ends exactly one holder goes, and both that stay are newer.
LEMMA WithHolderEvicts ==
  ASSUME TypeOK, NEW S \in SUBSET Conn, Cardinality(S) <= TAG_ENDS, NEW c \in Conn,
         \A d, e \in S \cup {c} : sid[d] = sid[e] => d = e,
         NEW x \in S \cup {c}, x \notin WithHolder(S, c)
  PROVE  /\ Cardinality(WithHolder(S, c)) = TAG_ENDS
         /\ \A d \in WithHolder(S, c) : sid[d] > sid[x]
<1> DEFINE all == S \cup {c}
<1>1. IsFiniteSet(S) /\ IsFiniteSet(all) /\ Cardinality(all) \in Nat /\ Cardinality(S) \in Nat
  BY ZenonT(60), ConnSubset
<1>2. Cardinality(all) > TAG_ENDS /\ x \in Oldest(all) /\ WithHolder(S, c) = all \ Oldest(all)
  BY ZenonT(60) DEF WithHolder
<1>3. Cardinality(all) = 3
  <2>1. Cardinality(all) = IF c \in S THEN Cardinality(S) ELSE Cardinality(S) + 1
    BY ZenonT(60), <1>1, FS_AddElement
  <2> HIDE DEF all
  <2> QED BY <1>1, <1>2, <2>1 DEF TAG_ENDS
<1>s. \A d \in all : sid[d] \in Nat
  BY ZenonT(60) DEF TypeOK
<1>4. Oldest(all) = {x}
  BY <1>2, <1>s DEF Oldest
<1>5. Cardinality(all \ {x}) = 2
  <2>1. x \in all
    BY ZenonT(60)
  <2> HIDE DEF all
  <2>2. Cardinality(all \ {x}) = Cardinality(all) - 1
    BY ZenonT(60), <1>1, <2>1, FS_RemoveElement
  <2> QED BY <1>3, <2>2
<1>6. \A d \in all \ {x} : sid[d] > sid[x]
  <2> SUFFICES ASSUME NEW d \in all \ {x} PROVE sid[d] > sid[x]
    BY ZenonT(60)
  <2>1. sid[x] <= sid[d] /\ sid[d] # sid[x]
    BY ZenonT(60), <1>2 DEF Oldest
  <2> QED BY <2>1, <1>s, <1>2 DEF Oldest
<1> QED BY ZenonT(60), <1>2, <1>4, <1>5, <1>6 DEF TAG_ENDS

\* The changes of the tag table: one session registers a list, or leaves.
LEMMA TagsChange ==
  ASSUME IInv, [Next]_vars, tags' # tags
  PROVE  \E c \in Conn : \/ \E next \in SUBSET Tag : /\ RegisterTags(c, next)
                                                     /\ phase[c] \in {"admitting", "up"}
                         \/ Cleanup(c)
<1>1. PICK c \in Conn : \/ \E next \in SUBSET Tag : AdmitTags(c, next) \/ ReRegister(c, next)
                        \/ Cleanup(c)
  BY ZenonT(60) DEF Next, ConnStep, Shutdown, StopListening, Down, vars, task, registry,
     Accept, Refuse, ReleaseSlot, Challenge, HandshakeFails, NoFirstFrame, FirstFrame,
     AdmitIdentity, AdmitRefuses, SeeStop, CloseSession, AnswerPing, TakeOutbound, WriteDone,
     WriteFails, ClientLeaves, LookUpNode, LookUpTag, Deliver
<1> QED BY ZenonT(60), <1>1 DEF AdmitTags, ReRegister, Selecting

\* A session that loses a tag it still claims loses it to two newer sessions, for
\* any number of sessions presenting the tag (register_tags evicts the lowest
\* session id past TAG_ENDS).
THEOREM OldestIsEvictedCorrect == Spec => OldestIsEvicted
<1> DEFINE Lost == \A t \in Tag : \A c \in tags[t] :
                     c \notin tags'[t] /\ t \in held'[c] =>
                       /\ Cardinality(tags'[t]) = TAG_ENDS
                       /\ \A d \in tags'[t] : sid[d] > sid[c]
<1>1. IInv /\ TagNamesAPair /\ SidsInOrder /\ [Next]_vars => [Lost]_vars
  <2> SUFFICES ASSUME IInv, TagNamesAPair, SidsInOrder, [Next]_vars, tags' # tags PROVE Lost
    BY ZenonT(60) DEF vars
  <2>t. /\ TypeOK /\ held \in [Conn -> SUBSET Tag] /\ sid \in [Conn -> Nat]
        /\ tags \in [Tag -> SUBSET Conn]
    BY ZenonT(60) DEF IInv, TypeOK
  <2>1. ASSUME NEW c \in Conn, Cleanup(c) PROVE Lost
    <3>1. tags' = Registered(c, {}) /\ held' = [held EXCEPT ![c] = {}]
      BY ZenonT(60), <2>1 DEF Cleanup
    <3> QED BY ZenonT(60), <2>t, <3>1 DEF Registered
  <2>2. ASSUME NEW c \in Conn, NEW next \in SUBSET Tag, RegisterTags(c, next),
               phase[c] \in {"admitting", "up"}
        PROVE  Lost
    <3>1. SUFFICES ASSUME NEW t \in Tag, NEW x \in tags[t], x \notin tags'[t], t \in held'[x]
                   PROVE  /\ Cardinality(tags'[t]) = TAG_ENDS
                          /\ \A d \in tags'[t] : sid[d] > sid[x]
      BY ZenonT(60)
    <3>2. tags' = Registered(c, next) /\ held' = [held EXCEPT ![c] = next]
      BY ZenonT(60), <2>2 DEF RegisterTags
    <3>3. t \in next
      BY ZenonT(60), <2>t, <3>1, <3>2 DEF Registered
    <3>4. tags'[t] = WithHolder(tags[t], c)
      BY ZenonT(60), <3>2, <3>3 DEF Registered
    <3>5. tags[t] \in SUBSET Conn /\ Cardinality(tags[t]) <= TAG_ENDS
      BY ZenonT(60), <2>t DEF TagNamesAPair
    <3>6. \A d \in tags[t] \cup {c} : d \in Conn /\ sid[d] # 0
      BY ZenonT(60), <2>2, <2>t DEF IInv, NoGhost, SidsInOrder
    <3>7. \A d, e \in tags[t] \cup {c} : sid[d] = sid[e] => d = e
      BY ZenonT(60), <3>6 DEF SidsInOrder
    <3>8. x \in tags[t] \cup {c} /\ x \notin WithHolder(tags[t], c)
      BY ZenonT(60), <3>1, <3>4
    <3>9. /\ Cardinality(WithHolder(tags[t], c)) = TAG_ENDS
          /\ \A d \in WithHolder(tags[t], c) : sid[d] > sid[x]
      BY ZenonT(60), <2>t, <3>5, <3>7, <3>8, WithHolderEvicts
    <3> QED BY ZenonT(60), <3>4, <3>9
  <2> QED BY ZenonT(60), <2>1, <2>2, TagsChange
<1> QED BY <1>1, RelayInvariant, TagNamesAPairCorrect, SidsInvariant, PTL
        DEF Spec, OldestIsEvicted

\* try_send of a Close: it is in the queue afterwards, unless the queue was full.
LEMMA CloseQueued ==
  ASSUME TypeOK, NEW d \in Conn, phase[d] \in {"admitting", "up", "leaving"},
         queue'[d] = TrySend(d, "close")
  PROVE  ToldToLeave(d)' \/ Len(queue[d]) = QueueCap
<1>1. queue[d] \in Seq(Frames) /\ Len(queue[d]) <= QueueCap /\ QueueCap \in Nat
  BY ZenonT(60), CapAssumption DEF TypeOK
<1>2. CASE Len(queue[d]) < QueueCap
  <2>1. queue'[d] = Append(queue[d], "close")
    BY ZenonT(60), <1>2 DEF TrySend
  <2>2. /\ Len(queue'[d]) = Len(queue[d]) + 1 /\ Len(queue[d]) \in Nat
        /\ queue'[d][Len(queue[d]) + 1] = "close"
    BY <1>1, <2>1
  <2>3. Len(queue[d]) + 1 \in 1..Len(queue'[d])
    BY <2>2
  <2> QED BY ZenonT(60), <2>2, <2>3 DEF ToldToLeave
<1> QED BY <1>1, <1>2

LEMMA DisplacedKept ==
  ASSUME NEW c \in Conn, phase'[c] = "up" => phase[c] = "up", Displaced(c)', ~Displaced(c),
         UNCHANGED <<node, held, sessions, tags>>
  PROVE  FALSE
BY ZenonT(60) DEF Displaced

\* A session that is displaced, from its node id or from a tag, is told so in the
\* same step unless its queue is full at that instant (the try_send of the Close
\* in serve_session and in register_tags).
THEOREM ToldUnlessFullCorrect == Spec => ToldUnlessFull
<1> DEFINE Told(c) == ToldToLeave(c)' \/ Len(queue[c]) = QueueCap
<1>1. IInv /\ [Next]_vars =>
        [\A c \in Conn : Displaced(c)' /\ ~Displaced(c) => Told(c)]_vars
  <2>1. SUFFICES ASSUME IInv, [Next]_vars, NEW c \in Conn, Displaced(c)', ~Displaced(c)
                 PROVE  Told(c)
    BY ZenonT(60)
  <2>t. /\ TypeOK /\ phase \in [Conn -> Phases] /\ node \in [Conn -> Node \cup {NoNode}]
        /\ held \in [Conn -> SUBSET Tag] /\ sessions \in [Node -> Conn \cup {NoConn}]
        /\ tags \in [Tag -> SUBSET Conn] /\ queue \in [Conn -> Seq(Frames)]
        /\ \A d \in Conn : phase[d] = "admitting" => node[d] = NoNode /\ held[d] = {}
    BY ZenonT(60), <2>1 DEF IInv, TypeOK, TaskShape
  <2>u. phase'[c] = "up"
    BY ZenonT(60), <2>1 DEF Displaced
  <2>2. CASE UNCHANGED <<node, held, sessions, tags>>
    <3>1. phase[c] = "up"
      <4>1. ASSUME NEW d \in Conn,
                   \/ Accept(d) \/ Refuse(d) \/ ReleaseSlot(d) \/ Challenge(d)
                   \/ HandshakeFails(d) \/ NoFirstFrame(d) \/ FirstFrame(d) \/ ClientLeaves(d)
            PROVE  phase[c] = "up"
        BY ZenonT(60), <4>1, <2>t, <2>u DEF Accept, Refuse, ReleaseSlot, Challenge,
           HandshakeFails, NoFirstFrame, FirstFrame, ClientLeaves
      <4>2. ASSUME NEW d \in Conn, WriteDone(d) \/ WriteFails(d) PROVE phase[c] = "up"
        BY ZenonT(60), <4>2, <2>t, <2>u DEF WriteDone, WriteFails
      <4>3. ASSUME NEW d \in Conn, \/ \E n \in Node : AdmitIdentity(d, n)
                                   \/ \E next \in SUBSET Tag : AdmitTags(d, next)
            PROVE  phase[c] = "up"
        <5>1. (\E n \in Node : node'[d] = n) \/ (\E next \in SUBSET Tag : next # {} /\ held'[d] = next)
          BY ZenonT(60), <4>3, <2>t DEF AdmitIdentity, AdmitTags, RegisterTags
        <5>2. phase[d] = "admitting"
          BY ZenonT(60), <4>3 DEF AdmitIdentity, AdmitTags
        <5> QED BY ZenonT(60), <5>1, <5>2, <2>2, <2>t, NodeAssumption
      <4>4. ASSUME NEW d \in Conn, Cleanup(d) PROVE phase[c] = "up"
        BY ZenonT(60), <4>4, <2>t, <2>u DEF Cleanup
      <4>5. CASE phase' = phase
        BY ZenonT(60), <4>5, <2>u
      <4>6. \/ phase' = phase
            \/ \E d \in Conn :
                 \/ Accept(d) \/ Refuse(d) \/ ReleaseSlot(d) \/ Challenge(d)
                 \/ HandshakeFails(d) \/ NoFirstFrame(d) \/ FirstFrame(d) \/ ClientLeaves(d)
                 \/ WriteDone(d) \/ WriteFails(d) \/ Cleanup(d)
                 \/ \E n \in Node : AdmitIdentity(d, n)
                 \/ \E next \in SUBSET Tag : AdmitTags(d, next)
        BY ZenonT(60), <2>1 DEF Next, ConnStep, Shutdown, StopListening, Down, vars, task,
           AdmitRefuses, SeeStop, CloseSession, AnswerPing, TakeOutbound, LookUpNode, LookUpTag,
           Deliver, ReRegister
      <4> QED BY ZenonT(60), <4>1, <4>2, <4>3, <4>4, <4>5, <4>6
    <3> QED BY ZenonT(60), <3>1, <2>1, <2>2, DisplacedKept
  <2>3. ASSUME NEW d \in Conn, NEW n \in Node, AdmitIdentity(d, n) PROVE Told(c)
    <3>1. /\ phase' = [phase EXCEPT ![d] = "up"] /\ node' = [node EXCEPT ![d] = n]
          /\ sessions' = [sessions EXCEPT ![n] = d] /\ held' = held /\ tags' = tags
          /\ phase[d] = "admitting"
          /\ queue' = IF sessions[n] = NoConn THEN queue
                      ELSE [queue EXCEPT ![sessions[n]] = TrySend(sessions[n], "close")]
      BY ZenonT(60), <2>3 DEF AdmitIdentity
    <3>2. c # d
      <4>1. node'[d] = n /\ sessions'[n] = d /\ held'[d] = {}
        BY ZenonT(60), <3>1, <2>t
      <4> QED BY ZenonT(60), <4>1, <2>1 DEF Displaced
    <3>3. phase[c] = "up" /\ node'[c] = node[c]
      BY ZenonT(60), <3>1, <3>2, <2>t, <2>u
    <3>4. node[c] = n /\ sessions[n] = c
      BY ZenonT(60), <2>1, <2>t, <3>1, <3>3 DEF Displaced
    <3>5. queue'[c] = TrySend(c, "close")
      BY ZenonT(60), <3>1, <3>4, <2>t, ConnAssumption
    <3> QED BY ZenonT(60), <3>3, <3>5, <2>t, CloseQueued
  <2>4. ASSUME NEW d \in Conn, NEW next \in SUBSET Tag, AdmitTags(d, next) \/ ReRegister(d, next)
        PROVE  Told(c)
    <3>1. /\ tags' = Registered(d, next) /\ held' = [held EXCEPT ![d] = next]
          /\ node' = node /\ sessions' = sessions /\ node[d] = NoNode
          /\ phase' = [phase EXCEPT ![d] = "up"] /\ phase[d] \in {"admitting", "up"}
          /\ queue' = [e \in Conn |-> IF e \in Evicted(d, next)
                                      THEN TrySend(e, "close") ELSE queue[e]]
      <4>1. CASE AdmitTags(d, next)
        BY ZenonT(60), <4>1, <2>t DEF AdmitTags, RegisterTags
      <4>2. CASE ReRegister(d, next)
        BY ZenonT(60), <4>2, <2>t DEF ReRegister, RegisterTags, Selecting
      <4> QED BY ZenonT(60), <2>4, <4>1, <4>2
    <3>2. phase[c] = "up" \/ c = d
      BY ZenonT(60), <3>1, <2>t, <2>u
    <3>3. PICK t \in held'[c] : c \notin tags'[t]
      BY ZenonT(60), <2>1, <3>1, <3>2 DEF Displaced
    <3>4. t \in next /\ (c = d \/ c \in tags[t]) /\ tags'[t] = WithHolder(tags[t], d)
      <4>1. CASE c = d
        BY ZenonT(60), <4>1, <3>1, <3>3, <2>t DEF Registered
      <4>2. CASE c # d
        <5>1. held'[c] = held[c] /\ t \in Tag
          BY ZenonT(60), <4>2, <3>1, <3>3, <2>t
        <5>2. c \in tags[t]
          BY ZenonT(60), <5>1, <4>2, <3>2, <3>3, <2>1 DEF Displaced
        <5> QED BY ZenonT(60), <5>1, <5>2, <4>2, <3>1, <3>3, <2>t DEF Registered
      <4> QED BY ZenonT(60), <4>1, <4>2
    <3>5. c \in Evicted(d, next)
      BY ZenonT(60), <3>3, <3>4 DEF Evicted
    <3>6. queue'[c] = TrySend(c, "close") /\ phase[c] \in {"admitting", "up"}
      BY ZenonT(60), <3>1, <3>2, <3>5
    <3> QED BY ZenonT(60), <3>6, <2>t, CloseQueued
  <2>5. ASSUME NEW d \in Conn, Cleanup(d) PROVE Told(c)
    <3>1. /\ phase' = [phase EXCEPT ![d] = "gone"] /\ node' = node
          /\ held' = [held EXCEPT ![d] = {}] /\ tags' = Registered(d, {})
          /\ sessions' = [n \in Node |-> IF node[d] = n /\ sessions[n] = d THEN NoConn
                                         ELSE sessions[n]]
      BY ZenonT(60), <2>5 DEF Cleanup, SameChannel
    <3>2. c # d /\ phase[c] = "up" /\ held'[c] = held[c]
      BY ZenonT(60), <3>1, <2>t, <2>u
    <3>3. ~(node[c] # NoNode /\ sessions'[node[c]] # c)
      BY ZenonT(60), <3>1, <3>2, <2>1, <2>t DEF Displaced
    <3>4. \A t \in held[c] : t \in Tag /\ c \in tags[t]
      BY ZenonT(60), <3>2, <2>1, <2>t DEF Displaced
    <3>5. \A t \in held[c] : c \in tags'[t]
      BY ZenonT(60), <3>1, <3>2, <3>4, <2>t DEF Registered
    <3> QED BY ZenonT(60), <3>1, <3>2, <3>3, <3>5, <2>1 DEF Displaced
  <2>6. \/ UNCHANGED <<node, held, sessions, tags>>
        \/ \E d \in Conn : \/ \E n \in Node : AdmitIdentity(d, n)
                           \/ \E next \in SUBSET Tag : AdmitTags(d, next) \/ ReRegister(d, next)
                           \/ Cleanup(d)
    BY ZenonT(60), <2>1 DEF Next, ConnStep, Shutdown, StopListening, Down, vars, task, registry,
       Accept, Refuse, ReleaseSlot, Challenge, HandshakeFails, NoFirstFrame, FirstFrame,
       AdmitRefuses, SeeStop, CloseSession, AnswerPing, TakeOutbound, WriteDone, WriteFails,
       ClientLeaves, LookUpNode, LookUpTag, Deliver
  <2> QED BY ZenonT(60), <2>2, <2>3, <2>4, <2>5, <2>6
<1> QED BY <1>1, RelayInvariant, PTL DEF Spec, ToldUnlessFull

(***************************************************************************)
(* The limiters of the relay.                                              *)
(***************************************************************************)
Bucket == [tokens : 0..Burst, last : 0..tick]
Ceiling == PerSecond * PerTick

\* What a bucket would hold by now without its ceiling.
Held(b) == b.tokens + (tick - b.last) * PerSecond

\* The table agrees with the buckets that are never forgotten, and whoever it
\* does not hold has a full one.
Buckets ==
  /\ tick \in Nat /\ exact \in [Sources -> Bucket]
  /\ DOMAIN seen \subseteq Sources
  /\ \A s \in DOMAIN seen : seen[s] = exact[s]
  /\ \A s \in Sources \ DOMAIN seen : Held(exact[s]) >= Burst

\* What was let through above the rate and what may still be spent are together
\* no more than a second's bytes.
Budget ==
  /\ tick \in Nat /\ debt \in Nat /\ budget \in [tokens : 0..Ceiling, last : 0..tick]
  /\ debt + Refill(budget, Ceiling) <= Ceiling

LInv == Buckets /\ agreed = TRUE /\ Budget

LEMMA Rates ==
  /\ PerSecond \in Nat \ {0} /\ PerTick \in Nat \ {0} /\ SweepAge \in Nat
  /\ SweepAge >= 2 * PerTick
BY ZenonT(60), LimitBounds

LEMMA MulOrder ==
  ASSUME NEW a \in Nat, NEW b \in Nat, NEW n \in Nat, a <= b
  PROVE  a * n <= b * n /\ a * n \in Nat /\ b * n \in Nat
OBVIOUS

LEMMA MulNext ==
  ASSUME NEW a \in Nat, NEW n \in Nat
  PROVE  (a + 1) * n = a * n + n /\ a * n \in Nat /\ 0 * n = 0
OBVIOUS

LEMMA BurstType == Burst \in Nat /\ Burst >= PerTick /\ Ceiling \in Nat
<1>1. PerSecond * PerTick \in Nat /\ 1 * PerTick <= PerSecond * PerTick
  BY Rates, MulOrder
<1>2. Burst = 2 * (PerSecond * PerTick)
  BY Rates, <1>1 DEF Burst
<1> QED BY <1>1, <1>2, Rates DEF Ceiling

\* A bucket idle for the age a sweep looks for is full.
LEMMA IdleIsFull ==
  ASSUME NEW n \in Nat, n >= SweepAge PROVE n * PerSecond >= Burst
<1>1. (2 * PerTick) * PerSecond <= n * PerSecond /\ n * PerSecond \in Nat
  BY Rates, MulOrder
<1>2. (2 * PerTick) * PerSecond = Burst
  BY Rates DEF Burst
<1> QED BY ZenonT(60), <1>1, <1>2, BurstType

LEMMA HeldType ==
  ASSUME tick \in Nat, NEW b, b.tokens \in Nat, b.last \in 0..tick
  PROVE  Held(b) \in Nat /\ Held(b) >= b.tokens
<1>1. tick - b.last \in Nat
  OBVIOUS
<1>2. (tick - b.last) * PerSecond \in Nat
  BY ZenonT(60), <1>1, Rates, MulNext
<1> QED BY <1>2 DEF Held

LEMMA HeldGrows ==
  ASSUME tick \in Nat, tick' = tick + 1, NEW b, b.tokens \in Nat, b.last \in 0..tick
  PROVE  b.tokens + (tick' - b.last) * PerSecond = Held(b) + PerSecond
<1>1. tick - b.last \in Nat /\ tick' - b.last = (tick - b.last) + 1
  OBVIOUS
<1>2. ((tick - b.last) + 1) * PerSecond = (tick - b.last) * PerSecond + PerSecond
      /\ (tick - b.last) * PerSecond \in Nat
  BY ZenonT(60), <1>1, Rates, MulNext
<1> QED BY <1>1, <1>2, Rates DEF Held

LEMMA RefillHeld ==
  ASSUME NEW b, NEW cap PROVE Refill(b, cap) = IF Held(b) > cap THEN cap ELSE Held(b)
BY ZenonT(60) DEF Refill, AtMost, Held

LEMMA SpentType ==
  ASSUME tick \in Nat, NEW b, b.tokens \in Nat, b.last \in 0..tick
  PROVE  Spent(b) \in Bucket
<1>1. Held(b) \in Nat /\ Burst \in Nat
  BY ZenonT(60), HeldType, BurstType
<1>2. Refill(b, Burst) \in 0..Burst
  BY <1>1, RefillHeld
<1> DEFINE tokens == Refill(b, Burst)
<1>3. Spent(b) = [tokens |-> IF tokens >= PerTick THEN tokens - PerTick ELSE tokens, last |-> tick]
  BY ZenonT(60) DEF Spent
<1>4. (IF tokens >= PerTick THEN tokens - PerTick ELSE tokens) \in 0..Burst
  BY <1>1, <1>2, Rates
<1>5. tick \in 0..tick
  OBVIOUS
<1> QED BY <1>3, <1>4, <1>5 DEF Bucket

\* Two buckets that are full by now are spent and answered alike.
LEMMA FullAlike ==
  ASSUME tick \in Nat, NEW b, b.tokens \in Nat, b.last \in 0..tick, Held(b) >= Burst
  PROVE  Spent(b) = Spent(Full) /\ Allowed(b) = Allowed(Full)
<1>1. Refill(b, Burst) = Burst
  BY HeldType, BurstType, RefillHeld
<1>2. Full.tokens = Burst /\ Full.last = tick
  BY ZenonT(60) DEF Full
<1>3. Held(Full) = Burst
  BY <1>2, Rates, BurstType, MulNext DEF Held
<1>4. Refill(Full, Burst) = Burst
  BY ZenonT(60), <1>3, BurstType, RefillHeld
<1> QED BY ZenonT(60), <1>1, <1>4 DEF Spent, Allowed

LEMMA SweptTable ==
  ASSUME Buckets, NEW s \in Sources
  PROVE  /\ DOMAIN Swept(seen) \subseteq Sources
         /\ s \in DOMAIN Swept(seen) => Swept(seen)[s] = exact[s]
         /\ s \notin DOMAIN Swept(seen) => Held(exact[s]) >= Burst
<1>1. exact[s] \in Bucket /\ tick \in Nat
  BY ZenonT(60) DEF Buckets
<1>2. exact[s].tokens \in Nat /\ exact[s].last \in 0..tick
  BY <1>1, BurstType DEF Bucket
<1>3. ASSUME exact[s].last + SweepAge <= tick PROVE Held(exact[s]) >= Burst
  <2>1. tick - exact[s].last \in Nat /\ tick - exact[s].last >= SweepAge
    BY <1>1, <1>2, <1>3, Rates
  <2>2. (tick - exact[s].last) * PerSecond >= Burst
    BY ZenonT(60), <2>1, IdleIsFull
  <2>3. (tick - exact[s].last) * PerSecond \in Nat
    BY ZenonT(60), <2>1, Rates, MulNext
  <2> QED BY <1>2, <2>2, <2>3, BurstType DEF Held
<1> DEFINE keep == {r \in DOMAIN seen : seen[r].last + SweepAge > tick}
<1>4. CASE Swept(seen) = seen
  BY ZenonT(60), <1>4 DEF Buckets
<1>5. CASE Swept(seen) = [r \in keep |-> seen[r]]
  <2>1. DOMAIN Swept(seen) = keep /\ (s \in keep => Swept(seen)[s] = seen[s])
    BY ZenonT(60), <1>5
  <2>2. s \notin keep => s \notin DOMAIN seen \/ ~(exact[s].last + SweepAge > tick)
    BY ZenonT(60) DEF Buckets
  <2>3. s \notin keep => Held(exact[s]) >= Burst
    BY <2>2, <1>1, <1>2, <1>3, Rates DEF Buckets
  <2> QED BY ZenonT(60), <2>1, <2>3 DEF Buckets
<1> QED BY ZenonT(60), <1>4, <1>5 DEF Swept

LEMMA ReflectStep ==
  ASSUME Buckets, agreed = TRUE, NEW caller \in Sources, Reflect(caller)
  PROVE  Buckets' /\ agreed' = TRUE
<1> DEFINE table == Swept(seen)
           entry == IF caller \in DOMAIN table THEN table[caller] ELSE Full
<1>1. /\ seen' = [s \in DOMAIN table \cup {caller} |->
                    IF s = caller THEN Spent(entry) ELSE table[s]]
      /\ exact' = [exact EXCEPT ![caller] = Spent(exact[caller])]
      /\ agreed' = (agreed /\ (Allowed(entry) <=> Allowed(exact[caller])))
      /\ tick' = tick
  BY ZenonT(60) DEF Reflect
<1>2. tick \in Nat /\ exact \in [Sources -> Bucket]
  BY ZenonT(60) DEF Buckets
<1>3. exact[caller].tokens \in Nat /\ exact[caller].last \in 0..tick
  BY <1>2, BurstType DEF Bucket
<1>4. Spent(entry) = Spent(exact[caller]) /\ Allowed(entry) = Allowed(exact[caller])
  BY ZenonT(60), <1>2, <1>3, SweptTable, FullAlike
<1>5. Spent(exact[caller]) \in Bucket /\ Bucket' = Bucket
  BY ZenonT(60), <1>1, <1>2, <1>3, SpentType DEF Bucket, Burst
<1>6. exact' \in [Sources -> Bucket']
  BY ZenonT(60), <1>1, <1>2, <1>5
<1>7. \A s \in Sources : /\ DOMAIN table \subseteq Sources
                         /\ s \in DOMAIN table => table[s] = exact[s]
                         /\ s \notin DOMAIN table => Held(exact[s]) >= Burst
  BY ZenonT(60), SweptTable
<1>8. DOMAIN seen' = DOMAIN table \cup {caller} /\ DOMAIN seen' \subseteq Sources
  BY ZenonT(60), <1>1, <1>7
<1>9. \A s \in DOMAIN seen' : seen'[s] = exact'[s]
  BY ZenonT(60), <1>1, <1>2, <1>4, <1>7, <1>8
<1>10. \A s \in Sources \ DOMAIN seen' : Held(exact[s])' >= Burst
  <2> TAKE s \in Sources \ DOMAIN seen'
  <2>1. s # caller /\ s \notin DOMAIN table /\ exact'[s] = exact[s]
    BY ZenonT(60), <1>1, <1>2, <1>8
  <2> QED BY ZenonT(60), <2>1, <1>1, <1>7 DEF Held
<1>11. Buckets'
  BY ZenonT(60), <1>1, <1>2, <1>6, <1>8, <1>9, <1>10 DEF Buckets, Burst
<1>12. agreed' = TRUE
  BY ZenonT(60), <1>1, <1>4
<1> QED BY ZenonT(60), <1>11, <1>12

LEMMA SpendStep ==
  ASSUME Budget, NEW bytes \in Nat, Spend(bytes) PROVE Budget'
<1> DEFINE tokens == Refill(budget, Ceiling)
           price == bytes * PerTick
<1>1. /\ budget' = [tokens |-> IF tokens >= price THEN tokens - price ELSE tokens, last |-> tick]
      /\ debt' = debt + (IF tokens >= price THEN price ELSE 0) /\ tick' = tick
  BY ZenonT(60) DEF Spend, Ceiling
<1>2. tick \in Nat /\ budget.tokens \in Nat /\ budget.last \in 0..tick /\ debt \in Nat
      /\ debt + tokens <= Ceiling
  BY BurstType DEF Budget
<1>3. Held(budget) \in Nat /\ Ceiling \in Nat
  BY ZenonT(60), <1>2, HeldType, BurstType
<1>4. tokens \in 0..Ceiling
  BY <1>3, RefillHeld
<1>5. price \in Nat
  BY ZenonT(60), Rates, MulNext
<1>6. budget'.tokens \in 0..Ceiling /\ budget'.last = tick
  BY <1>1, <1>4, <1>5, <1>3
<1>7. Held(budget)' = budget'.tokens
  BY <1>1, <1>2, <1>3, <1>6, Rates, MulNext DEF Held
<1>8. Refill(budget, Ceiling)' = budget'.tokens
  BY <1>3, <1>6, <1>7 DEF Refill, AtMost, Held, Ceiling
<1>9. debt' \in Nat /\ debt' + budget'.tokens <= Ceiling
  BY <1>1, <1>2, <1>3, <1>4, <1>5
<1>10. budget' \in [tokens : 0..Ceiling, last : 0..tick]
  BY <1>1, <1>2, <1>3, <1>4, <1>5
<1> QED BY ZenonT(60), <1>1, <1>2, <1>8, <1>9, <1>10 DEF Budget, Ceiling

LEMMA TickStep ==
  ASSUME LInv, LimitTick PROVE LInv'
<1>1. /\ tick' = tick + 1 /\ debt' = IF debt > PerSecond THEN debt - PerSecond ELSE 0
      /\ UNCHANGED <<seen, exact, agreed, budget>>
  BY ZenonT(60) DEF LimitTick
<1>2. tick \in Nat /\ exact \in [Sources -> Bucket]
  BY ZenonT(60) DEF LInv, Buckets
<1>3. \A s \in Sources : exact[s].tokens \in Nat /\ exact[s].last \in 0..tick
  BY <1>2, BurstType DEF Bucket
<1>4. Bucket \subseteq Bucket'
  BY <1>1, <1>2 DEF Bucket, Burst
<1>5. \A s \in Sources : Held(exact[s])' = Held(exact[s]) + PerSecond /\ Held(exact[s]) \in Nat
  BY ZenonT(60), <1>1, <1>2, <1>3, HeldGrows, HeldType DEF Held
<1>6. Buckets'
  <2>1. exact' \in [Sources -> Bucket'] /\ tick' \in Nat
    BY <1>1, <1>2, <1>4
  <2>2. \A s \in Sources \ DOMAIN seen' : Held(exact[s])' >= Burst'
    BY <1>1, <1>5, Rates, BurstType DEF LInv, Buckets, Burst
  <2> QED BY ZenonT(60), <2>1, <2>2, <1>1 DEF LInv, Buckets
<1>7. /\ budget.tokens \in Nat /\ budget.last \in 0..tick /\ debt \in Nat
      /\ debt + Refill(budget, Ceiling) <= Ceiling /\ budget \in [tokens : 0..Ceiling, last : 0..tick]
  BY BurstType DEF LInv, Budget
<1>8. Held(budget) \in Nat /\ Ceiling \in Nat /\ Held(budget)' = Held(budget) + PerSecond
  BY ZenonT(60), <1>1, <1>2, <1>7, HeldType, HeldGrows, BurstType DEF Held
<1>9. /\ Refill(budget, Ceiling) = IF Held(budget) > Ceiling THEN Ceiling ELSE Held(budget)
      /\ Refill(budget, Ceiling)' = IF Held(budget)' > Ceiling THEN Ceiling ELSE Held(budget)'
  BY ZenonT(60), RefillHeld DEF Refill, AtMost, Held, Ceiling
<1>10. debt' \in Nat /\ debt' + Refill(budget, Ceiling)' <= Ceiling
  BY <1>1, <1>7, <1>8, <1>9, Rates
<1>11. budget' \in [tokens : 0..Ceiling, last : 0..tick']
  BY <1>1, <1>2, <1>7
<1>12. Budget'
  BY <1>1, <1>2, <1>10, <1>11 DEF Budget, Ceiling
<1> QED BY ZenonT(60), <1>1, <1>6, <1>12 DEF LInv

LEMMA LimitsInductive == LInv /\ [LimitNext]_limitVars => LInv'
<1> SUFFICES ASSUME LInv, [LimitNext]_limitVars PROVE LInv'
  BY ZenonT(60)
<1>1. CASE UNCHANGED limitVars
  BY ZenonT(60), <1>1 DEF limitVars, LInv, Buckets, Budget, Bucket, Held, Refill, Burst, Ceiling
<1>2. CASE LimitTick
  BY ZenonT(60), <1>2, TickStep
<1>3. ASSUME NEW s \in Sources, Reflect(s) PROVE LInv'
  <2>1. UNCHANGED <<tick, budget, debt>>
    BY ZenonT(60), <1>3 DEF Reflect
  <2>2. Budget'
    BY ZenonT(60), <2>1 DEF LInv, Budget, Refill, Ceiling
  <2> QED BY ZenonT(60), <1>3, <2>2, ReflectStep DEF LInv
<1>4. ASSUME NEW bytes \in 1..PerSecond + 1, Spend(bytes) PROVE LInv'
  <2>1. UNCHANGED <<tick, seen, exact, agreed>>
    BY ZenonT(60), <1>4 DEF Spend
  <2>2. Buckets'
    BY ZenonT(60), <2>1 DEF LInv, Buckets, Bucket, Held, Burst
  <2>3. bytes \in Nat
    BY Rates
  <2> QED BY ZenonT(60), <1>4, <2>1, <2>2, <2>3, SpendStep DEF LInv
<1> QED BY ZenonT(60), <1>1, <1>2, <1>3, <1>4 DEF LimitNext

LEMMA LimitsStart == LimitInit => LInv
<1> SUFFICES ASSUME LimitInit PROVE LInv
  BY ZenonT(60)
<1>1. tick = 0 /\ DOMAIN seen = {} /\ exact = [s \in Sources |-> [tokens |-> Burst, last |-> 0]]
  BY ZenonT(60) DEF LimitInit, Full
<1>2. Buckets
  <2>1. exact \in [Sources -> Bucket]
    BY <1>1, BurstType DEF Bucket
  <2>2. \A s \in Sources : exact[s].tokens = Burst /\ exact[s].last = 0
    BY ZenonT(60), <1>1
  <2>3. \A s \in Sources : Held(exact[s]) >= Burst
    BY <2>2, <1>1, BurstType, HeldType
  <2> QED BY ZenonT(60), <1>1, <2>1, <2>3 DEF Buckets
<1>3. budget = [tokens |-> Ceiling, last |-> 0] /\ debt = 0
  BY ZenonT(60) DEF LimitInit, Ceiling
<1>4. budget.tokens = Ceiling /\ budget.last = 0 /\ budget \in [tokens : 0..Ceiling, last : 0..tick]
  BY <1>1, <1>3, BurstType
<1>5. Held(budget) \in Nat
  BY ZenonT(60), <1>1, <1>4, BurstType, HeldType
<1>6. Refill(budget, Ceiling) <= Ceiling
  BY <1>5, BurstType, RefillHeld
<1>7. Budget
  BY <1>1, <1>3, <1>4, <1>6, BurstType, RefillHeld, <1>5 DEF Budget
<1> QED BY ZenonT(60), <1>2, <1>7 DEF LInv, LimitInit

\* For every rate and every number of sources, forgetting sources that were idle
\* for SweepAge never changes an answer of the reflector (SourceLimiter::allow),
\* and a session never passes more than a second's bytes above its rate
\* (ByteBudget::allow).
THEOREM LimitsHoldCorrect == LimitSpec => []LimitsHold
<1>1. LInv => LimitsHold
  <2> SUFFICES ASSUME LInv PROVE LimitsHold
    BY ZenonT(60)
  <2>1. /\ budget.tokens \in Nat /\ budget.last \in 0..tick /\ debt \in Nat
        /\ debt + Refill(budget, Ceiling) <= Ceiling /\ tick \in Nat
    BY BurstType DEF LInv, Budget
  <2>2. Held(budget) \in Nat /\ Ceiling \in Nat
    BY ZenonT(60), <2>1, HeldType, BurstType
  <2>3. Refill(budget, Ceiling) \in Nat
    BY ZenonT(60), <2>2, RefillHeld
  <2>4. debt <= Ceiling
    BY <2>1, <2>2, <2>3
  <2> QED BY ZenonT(60), <2>4 DEF LInv, LimitsHold, SweepIsFree, SpendBounded, Ceiling
<1> QED BY <1>1, LimitsStart, LimitsInductive, PTL DEF LimitSpec

=============================================================================
