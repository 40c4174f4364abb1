---------------------------- MODULE SessionProofs ----------------------------
(***************************************************************************)
(* That a session implements PathStatus, and that drive never ends up with *)
(* a stale relay status, for any relay drivers and any capacities.         *)
(***************************************************************************)
EXTENDS Session, SequenceTheorems, FiniteSetTheorems, TLAPS

Live == {"opening", "spawned", "first", "select", "lagged", "route", "resub", "relay", "paths"}

RelayTypes ==
  /\ driver \in Driver /\ route \in Driver
  /\ relayNow \in [Driver -> RelayStatuses]
  /\ unsent \in [Driver -> RelayStatuses \cup {None}]
  /\ events \in Seq(RelayStatuses) /\ relayState \in RelayStatuses

\* Before the handshake is recorded the report is Rendezvous, while drive lives
\* it has not failed, and Reconnecting has a working status to return to.
ReportShape ==
  /\ previous \in Path!Working
  /\ pc = "start" => status = "Rendezvous"
  /\ pc \in Live => status \in Path!Working \cup {"Reconnecting"}
  /\ pc \in Live \cup {"start", "ended"}

\* What set_status put in the watch channel is what it is still to broadcast.
SentIsSet == \A d \in Driver : unsent[d] \in {None, relayNow[d]}

\* RelayStateCurrent with the turns on which drive is about to sample.
Sampling == pc \in {"first", "lagged", "resub"}
Current ==
  Driving /\ unsent[driver] = None =>
    /\ events # <<>> => events[Len(events)] = relayNow[driver]
    /\ events = <<>> /\ ~Sampling => relayState = relayNow[driver]

RInv == RelayTypes /\ ReportShape
CInv == RInv /\ SentIsSet /\ Current

LEMMA RecordedSame == ASSUME NEW s, status = s, Transition(s) PROVE UNCHANGED <<status, history>>
BY ZenonT(60) DEF Transition

LEMMA RecordedMove ==
  ASSUME NEW s, status # s, Transition(s)
  PROVE  status' = s /\ history' = Path!Recorded(history, s)
BY ZenonT(60) DEF Transition

-----------------------------------------------------------------------------
(* The actions that leave the report alone.                                *)

Around == Writer \/ Reader \/ Relays \/ Application \/ Surroundings
Unreported == OpenControl \/ Subscribe \/ Sample \/ ArmEvent \/ ArmNet \/ Resubscribe

LEMMA AroundKeeps == Around => UNCHANGED <<pc, report>>
<1>1. Writer \/ Reader \/ Application => UNCHANGED <<pc, report>>
  BY ZenonT(60) DEF Writer, WriteFirst, WriteRequest, Reader, ReadPunchNow, ReadGarbage,
     ReadCandidates, Application, RequestDirect, Reannounce
<1>2. Relays => UNCHANGED <<pc, report>>
  BY ZenonT(60) DEF Relays, HeardOn, SendEvent, SetStatus
<1>3. Surroundings => UNCHANGED <<pc, report>>
  BY ZenonT(60) DEF Surroundings, Close, TakeOver, Pong, IfacesChange, PollIfaces, ProofAges
<1> QED BY ZenonT(60), <1>1, <1>2, <1>3 DEF Around

LEMMA UnreportedKeeps ==
  Unreported => /\ UNCHANGED report /\ pc \in Live /\ pc' \in Live
<1>1. OpenControl \/ Subscribe \/ ArmEvent \/ ArmNet \/ Resubscribe =>
        /\ UNCHANGED report /\ pc \in Live /\ pc' \in Live
  BY ZenonT(60) DEF OpenControl, Subscribe, ArmEvent, ArmNet, Resubscribe, OnTurn, Live
<1>2. Sample => /\ UNCHANGED report /\ pc \in Live /\ pc' \in Live
  BY ZenonT(60) DEF Sample, Live
<1> QED BY ZenonT(60), <1>1, <1>2 DEF Unreported

LEMMA NextParts ==
  [Next]_vars => \/ UNCHANGED vars \/ Around \/ Unreported
                 \/ Start \/ ArmSuperseded \/ ArmClosed \/ FollowRelay \/ FollowPaths
BY ZenonT(60) DEF Next, Setup, Arm, Turn, Around, Unreported

\* The relay side of a step.
LEMMA RelayTypesStep == RelayTypes /\ [Next]_vars => RelayTypes'
<1> SUFFICES ASSUME RelayTypes, [Next]_vars PROVE RelayTypes'
  BY ZenonT(60)
<1>1. CASE UNCHANGED <<relay, drivers>>
  BY ZenonT(60), <1>1 DEF RelayTypes, relay, drivers
<1>2. CASE Subscribe \/ Resubscribe
  <2>1. driver' = route /\ events' = <<>> /\ UNCHANGED <<relayState, route, relayNow, unsent>>
    BY ZenonT(60), <1>2 DEF Subscribe, Resubscribe, drivers
  <2>2. events' \in Seq(RelayStatuses)
    BY <2>1
  <2> QED BY ZenonT(60), <2>1, <2>2 DEF RelayTypes
<1>3. CASE Sample
  BY ZenonT(60), <1>3 DEF Sample, RelayTypes, drivers
<1>4. CASE ArmEvent
  BY SMTT(30), <1>4 DEF ArmEvent, RelayTypes, drivers
<1>5. ASSUME NEW d \in Driver, HeardOn(d) PROVE RelayTypes'
  BY ZenonT(60), <1>5 DEF HeardOn, RelayTypes, relay
<1>6. ASSUME NEW d \in Driver, SendEvent(d) PROVE RelayTypes'
  <2>1. unsent[d] \in RelayStatuses
    BY ZenonT(60), <1>6 DEF SendEvent, RelayTypes
  <2>2. events' \in Seq(RelayStatuses)
    <3>1. events \in Seq(RelayStatuses)
      BY ZenonT(60) DEF RelayTypes
    <3>2. events = <<>> \/ Tail(events) \in Seq(RelayStatuses)
      BY <3>1
    <3>3. Len(events) < EventCapacity \/ events # <<>>
      BY CapsAssumption
    <3>4. \A q \in Seq(RelayStatuses) : Append(q, unsent[d]) \in Seq(RelayStatuses)
      BY <2>1
    <3> QED BY ZenonT(60), <1>6, <3>1, <3>2, <3>3, <3>4 DEF SendEvent
  <2> QED BY ZenonT(60), <1>6, <2>2 DEF SendEvent, RelayTypes
<1>7. ASSUME NEW d \in Driver, NEW t \in RelayStatuses, SetStatus(d, t) PROVE RelayTypes'
  BY ZenonT(60), <1>7 DEF SetStatus, RelayTypes, relay
<1>8. \/ UNCHANGED <<relay, drivers>> \/ Subscribe \/ Resubscribe \/ Sample \/ ArmEvent
      \/ \E d \in Driver : HeardOn(d) \/ SendEvent(d) \/ \E t \in RelayStatuses : SetStatus(d, t)
  BY ZenonT(60) DEF Next, Setup, Arm, Turn, Writer, Reader, Relays, Application, Surroundings, vars,
         Start, OpenControl, ArmSuperseded, ArmClosed, ArmNet, FollowRelay, FollowPaths,
         WriteFirst, WriteRequest, ReadPunchNow, ReadGarbage, ReadCandidates, RequestDirect,
         Reannounce, Close, TakeOver, Pong, IfacesChange, PollIfaces, ProofAges
<1> QED BY ZenonT(60), <1>1, <1>2, <1>3, <1>4, <1>5, <1>6, <1>7, <1>8

-----------------------------------------------------------------------------
(* Every step of the report is one PathStatus allows.                      *)

LEMMA WorkingFacts ==
  /\ Path!Working = {"Relayed", "Probing", "Direct"}
  /\ Path!Failures = {"FailedRelay", "FailedTimeout", "FailedSuperseded"}
  /\ Path!Statuses = {"Rendezvous", "Reconnecting"} \cup Path!Working \cup Path!Failures
BY ZenonT(60) DEF Path!Working, Path!Failures, Path!Statuses

LEMMA FailStep ==
  ASSUME NEW f \in Path!Failures, status \in Path!Working \cup {"Reconnecting"},
         Transition(f), UNCHANGED previous
  PROVE  Path!Step
<1>1. status # f /\ status \in Path!Statuses \ Path!Failures
  BY ZenonT(60), WorkingFacts
<1>2. status' = f /\ history' = Path!Recorded(history, f)
  BY ZenonT(60), <1>1, RecordedMove
<1>3. Path!Fail(f)
  BY ZenonT(60), <1>1, <1>2 DEF Path!Fail, Path!Move
<1> QED BY ZenonT(60), <1>3 DEF Path!Step

LEMMA TurnSteps ==
  ASSUME RInv, FollowRelay
  PROVE  (Path!Step \/ UNCHANGED report) /\ ReportShape'
<1>0. pc \in Live /\ status \in Path!Working \cup {"Reconnecting"} /\ previous \in Path!Working
      /\ relayState \in RelayStatuses
  <2>1. pc \in Live
    BY ZenonT(60) DEF FollowRelay, RelayKnown, OnTurn, Live
  <2> QED BY ZenonT(60), <2>1 DEF RInv, ReportShape, RelayTypes
<1>1. CASE relayState = "Superseded"
  <2>1. pc' = "ended" /\ Transition("FailedSuperseded") /\ UNCHANGED previous
    BY ZenonT(60), <1>1 DEF FollowRelay, Down
  <2>2. Path!Step
    BY ZenonT(60), <1>0, <2>1, FailStep, WorkingFacts
  <2> QED BY ZenonT(60), <1>0, <2>1, <2>2 DEF ReportShape, Live
<1>2. CASE relayState = "Failed"
  <2>1. pc' = "ended" /\ Transition("FailedRelay") /\ UNCHANGED previous
    BY ZenonT(60), <1>2 DEF FollowRelay, Down
  <2>2. Path!Step
    BY ZenonT(60), <1>0, <2>1, FailStep, WorkingFacts
  <2> QED BY ZenonT(60), <1>0, <2>1, <2>2 DEF ReportShape, Live
<1>3. CASE relayState \in Down
  <2>1. /\ pc' = "select" /\ Transition("Reconnecting")
        /\ previous' = IF status = "Reconnecting" THEN previous ELSE status
    BY ZenonT(60), <1>3 DEF FollowRelay, Down
  <2>2. CASE status = "Reconnecting"
    <3>1. UNCHANGED report
      BY ZenonT(60), <2>1, <2>2, RecordedSame DEF report
    <3> QED BY ZenonT(60), <1>0, <2>1, <2>2, <3>1 DEF ReportShape, Live, report
  <2>3. CASE status # "Reconnecting"
    <3>1. status \in Path!Working /\ previous' = status
      BY ZenonT(60), <1>0, <2>1, <2>3
    <3>2. status' = "Reconnecting" /\ history' = Path!Recorded(history, "Reconnecting")
      BY ZenonT(60), <2>1, <2>3, RecordedMove
    <3>3. Path!RelayLost
      BY ZenonT(60), <3>1, <3>2 DEF Path!RelayLost, Path!Move
    <3> QED BY ZenonT(60), <2>1, <3>1, <3>2, <3>3 DEF Path!Step, ReportShape, Live
  <2> QED BY ZenonT(60), <2>2, <2>3
<1>4. CASE relayState = "Up"
  <2>1. pc' = "paths" /\ Transition(previous) /\ UNCHANGED previous /\ status = "Reconnecting"
    BY ZenonT(60), <1>4 DEF FollowRelay, Down, RelayStays
  <2>2. status # previous
    BY ZenonT(60), <1>0, <2>1, WorkingFacts
  <2>3. status' = previous /\ history' = Path!Recorded(history, previous)
    BY ZenonT(60), <2>1, <2>2, RecordedMove
  <2>4. Path!RelayBack
    BY ZenonT(60), <2>1, <2>3 DEF Path!RelayBack, Path!Move
  <2> QED BY ZenonT(60), <1>0, <2>1, <2>3, <2>4 DEF Path!Step, ReportShape, Live
<1> QED BY ZenonT(60), <1>0, <1>1, <1>2, <1>3, <1>4 DEF RelayStatuses, Down

LEMMA PathsMoves ==
  FollowPaths =>
      \/ UNCHANGED <<status, history>>
      \/ status = "Relayed" /\ (Transition("Direct") \/ Transition("Probing"))
      \/ status = "Probing" /\ (Transition("Direct") \/ Transition("Relayed"))
      \/ status = "Direct" /\ Transition("Relayed")
<1> SUFFICES ASSUME FollowPaths
    PROVE  \/ UNCHANGED <<status, history>>
           \/ status = "Relayed" /\ (Transition("Direct") \/ Transition("Probing"))
           \/ status = "Probing" /\ (Transition("Direct") \/ Transition("Relayed"))
           \/ status = "Direct" /\ Transition("Relayed")
  BY ZenonT(60)
<1>1. CASE ~allowDirect
  BY ZenonT(60), <1>1 DEF FollowPaths
<1>2. ASSUME NEW asked, Relayed(asked) \/ Probing(asked) \/ Direct(asked)
      PROVE  \/ UNCHANGED <<status, history>>
             \/ status = "Relayed" /\ (Transition("Direct") \/ Transition("Probing"))
             \/ status = "Probing" /\ (Transition("Direct") \/ Transition("Relayed"))
             \/ status = "Direct" /\ Transition("Relayed")
  <2>1. CASE Relayed(asked)
    BY ZenonT(60), <2>1, Zenon DEF Relayed
  <2>2. CASE Probing(asked)
    BY ZenonT(60), <2>2, Zenon DEF Probing
  <2>3. CASE Direct(asked)
    BY ZenonT(60), <2>3, Zenon DEF Direct
  <2> QED BY ZenonT(60), <1>2, <2>1, <2>2, <2>3
<1>3. CASE allowDirect
  <2>1. PICK due \in BOOLEAN : \/ Relayed(due \/ probeNow) \/ Probing(due \/ probeNow)
                               \/ Direct(due \/ probeNow)
    BY ZenonT(60), <1>3, Zenon DEF FollowPaths
  <2> QED BY ZenonT(60), <2>1, <1>2
<1> QED BY ZenonT(60), <1>1, <1>3

LEMMA PathsSteps ==
  ASSUME RInv, FollowPaths
  PROVE  (Path!Step \/ UNCHANGED report) /\ ReportShape'
<1>0. /\ pc \in Live /\ pc' = "select" /\ UNCHANGED previous /\ previous \in Path!Working
      /\ status \in Path!Working \cup {"Reconnecting"}
  <2>1. pc \in Live /\ pc' = "select" /\ UNCHANGED previous
    BY ZenonT(60) DEF FollowPaths, RelayStays, RelayKnown, OnTurn, Live
  <2> QED BY ZenonT(60), <2>1 DEF RInv, ReportShape
<1>1. \/ UNCHANGED <<status, history>>
      \/ status = "Relayed" /\ (Transition("Direct") \/ Transition("Probing"))
      \/ status = "Probing" /\ (Transition("Direct") \/ Transition("Relayed"))
      \/ status = "Direct" /\ Transition("Relayed")
  BY ZenonT(60), PathsMoves
<1>2. CASE UNCHANGED <<status, history>>
  BY ZenonT(60), <1>0, <1>2 DEF report, ReportShape, Live
<1>3. CASE status = "Relayed" /\ Transition("Direct")
  <2>1. status' = "Direct" /\ history' = Path!Recorded(history, "Direct")
    BY ZenonT(60), <1>3, RecordedMove
  <2>2. Path!Proved
    BY ZenonT(60), <1>0, <1>3, <2>1 DEF Path!Proved, Path!Move
  <2> QED BY ZenonT(60), <1>0, <2>1, <2>2, WorkingFacts DEF Path!Step, ReportShape, Live
<1>4. CASE status = "Relayed" /\ Transition("Probing")
  <2>1. status' = "Probing" /\ history' = Path!Recorded(history, "Probing")
    BY ZenonT(60), <1>4, RecordedMove
  <2>2. Path!RoundStarts
    BY ZenonT(60), <1>0, <1>4, <2>1 DEF Path!RoundStarts, Path!Move
  <2> QED BY ZenonT(60), <1>0, <2>1, <2>2, WorkingFacts DEF Path!Step, ReportShape, Live
<1>5. CASE status = "Probing" /\ Transition("Direct")
  <2>1. status' = "Direct" /\ history' = Path!Recorded(history, "Direct")
    BY ZenonT(60), <1>5, RecordedMove
  <2>2. Path!Proved
    BY ZenonT(60), <1>0, <1>5, <2>1 DEF Path!Proved, Path!Move
  <2> QED BY ZenonT(60), <1>0, <2>1, <2>2, WorkingFacts DEF Path!Step, ReportShape, Live
<1>6. CASE status = "Probing" /\ Transition("Relayed")
  <2>1. status' = "Relayed" /\ history' = Path!Recorded(history, "Relayed")
    BY ZenonT(60), <1>6, RecordedMove
  <2>2. Path!RoundFails
    BY ZenonT(60), <1>0, <1>6, <2>1 DEF Path!RoundFails, Path!Move
  <2> QED BY ZenonT(60), <1>0, <2>1, <2>2, WorkingFacts DEF Path!Step, ReportShape, Live
<1>7. CASE status = "Direct" /\ Transition("Relayed")
  <2>1. status' = "Relayed" /\ history' = Path!Recorded(history, "Relayed")
    BY ZenonT(60), <1>7, RecordedMove
  <2>2. Path!ProofLost
    BY ZenonT(60), <1>0, <1>7, <2>1 DEF Path!ProofLost, Path!Move
  <2> QED BY ZenonT(60), <1>0, <2>1, <2>2, WorkingFacts DEF Path!Step, ReportShape, Live
<1> QED BY ZenonT(60), <1>1, <1>2, <1>3, <1>4, <1>5, <1>6, <1>7

LEMMA ReportStep ==
  RInv /\ [Next]_vars => RInv' /\ (Path!Step \/ UNCHANGED report)
<1> SUFFICES ASSUME RInv, [Next]_vars PROVE ReportShape' /\ (Path!Step \/ UNCHANGED report)
  BY ZenonT(60), RelayTypesStep DEF RInv
<1>0. ReportShape
  BY ZenonT(60) DEF RInv
<1>1. CASE UNCHANGED vars \/ Around
  <2>1. UNCHANGED <<pc, report>>
    BY ZenonT(60), <1>1, AroundKeeps DEF vars
  <2> QED BY ZenonT(60), <1>0, <2>1 DEF ReportShape, report
<1>2. CASE Unreported
  <2>1. UNCHANGED report /\ pc \in Live /\ pc' \in Live
    BY ZenonT(60), <1>2, UnreportedKeeps
  <2> QED BY ZenonT(60), <1>0, <2>1 DEF ReportShape, report, Live
<1>3. CASE Start
  <2>1. pc = "start" /\ pc' = "opening" /\ Transition("Relayed") /\ UNCHANGED previous
    BY ZenonT(60), <1>3 DEF Start
  <2>2. status = "Rendezvous"
    BY ZenonT(60), <1>0, <2>1 DEF ReportShape
  <2>3. status' = "Relayed" /\ history' = Path!Recorded(history, "Relayed")
    BY ZenonT(60), <2>1, <2>2, RecordedMove
  <2>4. Path!HandshakeDone
    BY ZenonT(60), <2>1, <2>2, <2>3 DEF Path!HandshakeDone, Path!Move
  <2> QED BY ZenonT(60), <1>0, <2>1, <2>3, <2>4, WorkingFacts DEF Path!Step, ReportShape, Live
<1>4. CASE ArmSuperseded
  <2>1. pc = "select" /\ pc' = "ended" /\ Transition("FailedSuperseded") /\ UNCHANGED previous
    BY ZenonT(60), <1>4 DEF ArmSuperseded
  <2>2. Path!Step
    BY ZenonT(60), <1>0, <2>1, FailStep, WorkingFacts DEF ReportShape, Live
  <2> QED BY ZenonT(60), <1>0, <2>1, <2>2 DEF ReportShape, Live
<1>5. CASE ArmClosed
  <2>1. /\ pc = "select" /\ pc' = "ended" /\ UNCHANGED previous
        /\ \/ \E f \in Path!Failures : Transition(f)
           \/ UNCHANGED <<status, history>>
    BY ZenonT(60), <1>5, WorkingFacts DEF ArmClosed
  <2>2. Path!Step \/ UNCHANGED report
    BY ZenonT(60), <1>0, <2>1, FailStep DEF ReportShape, Live, report
  <2> QED BY ZenonT(60), <1>0, <2>1, <2>2 DEF ReportShape, Live
<1> QED BY ZenonT(60), <1>1, <1>2, <1>3, <1>4, <1>5, TurnSteps, PathsSteps, NextParts

LEMMA ReportInit == Init => RInv /\ Path!Begin
BY HomeAssumption, WorkingFacts
   DEF Init, RInv, RelayTypes, ReportShape, Live, RelayStatuses, Path!Begin

LEMMA ReportInvariant == Spec => []RInv
<1>1. RInv /\ [Next]_vars => RInv'
  BY ZenonT(60), ReportStep
<1> QED BY <1>1, ReportInit, PTL DEF Spec

\* A session implements PathStatus, for any drivers and any capacities: every
\* step of drive, of its environment and of the control tasks is a move the
\* abstract state machine allows or leaves the report alone (transition,
\* Session::start, drive).
THEOREM ReportsAsPromisedCorrect == Spec => ReportsAsPromised
<1>1. RInv /\ [Next]_vars => [Path!Step]_(Path!report)
  BY ZenonT(60), ReportStep DEF Path!report, report
<1>2. Init => Path!Begin
  BY ZenonT(60), ReportInit
<1> QED BY <1>1, <1>2, ReportInvariant, PTL DEF Spec, ReportsAsPromised, Path!Spec

-----------------------------------------------------------------------------
(* The relay status drive believes.                                        *)

\* Steps that neither move the subscription nor the drivers' status.
LEMMA CurrentKept ==
  ASSUME CInv, UNCHANGED <<driver, events, relayState, relayNow, unsent>>,
         Driving' => Driving, ~Sampling' => ~Sampling \/ ~Driving'
  PROVE  SentIsSet' /\ Current'
BY ZenonT(60) DEF CInv, SentIsSet, Current

LEMMA CurrentStep == CInv /\ [Next]_vars => CInv'
<1> SUFFICES ASSUME CInv, [Next]_vars PROVE SentIsSet' /\ Current'
  BY ZenonT(60), ReportStep DEF CInv
<1> USE NoneAssumption
<1>0. RelayTypes /\ SentIsSet /\ Current /\ pc \in Live \cup {"start", "ended"}
  BY ZenonT(60) DEF CInv, RInv, ReportShape
<1>1. CASE UNCHANGED vars \/ Writer \/ Reader \/ Application \/ Surroundings
           \/ \E d \in Driver : HeardOn(d)
  <2>1. UNCHANGED <<pc, driver, events, relayState, relayNow, unsent>>
    <3>1. CASE UNCHANGED vars \/ Writer \/ Reader \/ Application
      BY ZenonT(60), <3>1 DEF vars, relay, drivers, Writer, WriteFirst, WriteRequest, Reader,
         ReadPunchNow, ReadGarbage, ReadCandidates, Application, RequestDirect, Reannounce
    <3>2. CASE Surroundings
      BY ZenonT(60), <3>2 DEF relay, drivers, Surroundings, Close, TakeOver, Pong, IfacesChange,
         PollIfaces, ProofAges
    <3>3. CASE \E d \in Driver : HeardOn(d)
      BY ZenonT(60), <3>3 DEF relay, HeardOn
    <3> QED BY ZenonT(60), <1>1, <3>1, <3>2, <3>3
  <2> QED BY ZenonT(60), <2>1, CurrentKept DEF Driving, Sampling
<1>2. CASE Start \/ OpenControl \/ ArmSuperseded \/ ArmClosed \/ ArmNet \/ FollowRelay
           \/ FollowPaths
  <2>1. /\ UNCHANGED <<driver, events, relayState, relayNow, unsent>>
        /\ ~Driving' \/ (Driving /\ ~Sampling)
    <3>1. CASE Start \/ OpenControl \/ ArmSuperseded \/ ArmClosed
      BY ZenonT(60), <3>1 DEF Start, OpenControl, ArmSuperseded, ArmClosed, relay, drivers, Driving
    <3>2. CASE ArmNet
      BY ZenonT(60), <3>2 DEF ArmNet, relay, drivers, Driving, Sampling
    <3>3. CASE FollowRelay \/ FollowPaths
      <4>1. pc \in {"select", "route", "relay", "paths"}
        BY ZenonT(60), <3>3 DEF FollowRelay, FollowPaths, RelayStays, RelayKnown, OnTurn
      <4>2. UNCHANGED <<driver, events, relayState, relayNow, unsent>>
        BY ZenonT(60), <3>3 DEF FollowRelay, FollowPaths, relay, drivers
      <4> QED BY ZenonT(60), <4>1, <4>2 DEF Driving, Sampling
    <3> QED BY ZenonT(60), <1>2, <3>1, <3>2, <3>3
  <2> QED BY ZenonT(60), <2>1, CurrentKept
<1>3. CASE Subscribe \/ Resubscribe
  BY ZenonT(60), <1>0, <1>3 DEF Subscribe, Resubscribe, drivers, SentIsSet, Current, Sampling
<1>4. CASE Sample
  <2>1. /\ UNCHANGED <<driver, events, relayNow, unsent>> /\ relayState' = relayNow[driver]
        /\ Driving
    BY ZenonT(60), <1>4 DEF Sample, drivers, Driving
  <2> QED BY ZenonT(60), <1>0, <2>1 DEF SentIsSet, Current
<1>5. CASE ArmEvent
  <2>1. UNCHANGED <<driver, relayNow, unsent>> /\ Driving /\ ~Sampling /\ events # <<>>
    BY ZenonT(60), <1>5 DEF ArmEvent, drivers, Driving, Sampling
  <2>2. CASE lagged
    <3>1. UNCHANGED events
      BY ZenonT(60), <1>5, <2>2 DEF ArmEvent
    <3> QED BY ZenonT(60), <1>0, <2>1, <3>1 DEF SentIsSet, Current
  <2>3. CASE ~lagged
    <3>1. relayState' = Head(events) /\ events' = Tail(events)
      BY ZenonT(60), <1>5, <2>3 DEF ArmEvent
    <3>2. events \in Seq(RelayStatuses)
      BY ZenonT(60), <1>0 DEF RelayTypes
    <3>3. Len(events) \in Nat \ {0}
      BY <2>1, <3>2
    <3>4. Tail(events) \in Seq(RelayStatuses) /\ Len(Tail(events)) = Len(events) - 1
      BY <2>1, <3>2
    <3>5. Tail(events) # <<>> => Tail(events)[Len(Tail(events))] = events[Len(events)]
      <4>1. ASSUME Len(events) > 1 PROVE Tail(events)[Len(events) - 1] = events[Len(events)]
        BY <2>1, <3>2, <3>3, <4>1
      <4> QED BY <3>3, <3>4, <4>1
    <3>6. Tail(events) = <<>> => Head(events) = events[Len(events)]
      <4>1. Tail(events) = <<>> => Len(Tail(events)) = 0
        BY ZenonT(60), EmptySeq
      <4>2. Tail(events) = <<>> => Len(events) = 1
        BY <3>3, <3>4, <4>1
      <4> QED BY <3>2, <4>2
    <3> QED BY ZenonT(60), <1>0, <2>1, <3>1, <3>5, <3>6 DEF SentIsSet, Current
  <2> QED BY ZenonT(60), <2>2, <2>3
<1>6. ASSUME NEW d \in Driver, SendEvent(d) PROVE SentIsSet' /\ Current'
  <2>1. /\ unsent[d] # None /\ unsent' = [unsent EXCEPT ![d] = None]
        /\ UNCHANGED <<pc, driver, relayState, relayNow>>
    BY ZenonT(60), <1>6 DEF SendEvent
  <2>2. unsent[d] = relayNow[d] /\ unsent[d] \in RelayStatuses
    BY ZenonT(60), <1>0, <2>1 DEF SentIsSet, RelayTypes
  <2>3. SentIsSet'
    BY ZenonT(60), <1>0, <2>1 DEF SentIsSet, RelayTypes
  <2>4. CASE Subscribed(d)
    <3>1. PICK kept \in Seq(RelayStatuses) : events' = Append(kept, unsent[d])
      <4>1. events \in Seq(RelayStatuses)
        BY ZenonT(60), <1>0 DEF RelayTypes
      <4>2. events = <<>> \/ Tail(events) \in Seq(RelayStatuses)
        BY <4>1
      <4>3. Len(events) < EventCapacity \/ events # <<>>
        BY CapsAssumption
      <4> QED BY ZenonT(60), <1>6, <2>4, <4>1, <4>2, <4>3 DEF SendEvent
    <3>2. events' # <<>> /\ events'[Len(events')] = unsent[d] /\ d = driver
      BY SMTT(30), <2>2, <2>4, <3>1 DEF Subscribed
    <3> QED BY ZenonT(60), <2>1, <2>2, <2>3, <3>2 DEF Current
  <2>5. CASE ~Subscribed(d)
    <3>1. UNCHANGED events
      BY ZenonT(60), <1>6, <2>5 DEF SendEvent
    <3>2. Driving' => Driving /\ d # driver /\ unsent'[driver] = unsent[driver]
      BY ZenonT(60), <1>0, <2>1, <2>5 DEF Driving, Subscribed, RelayTypes
    <3> QED BY ZenonT(60), <1>0, <2>1, <2>3, <3>1, <3>2 DEF Current, Sampling
  <2> QED BY ZenonT(60), <2>4, <2>5
<1>7. ASSUME NEW d \in Driver, NEW t \in RelayStatuses, SetStatus(d, t)
      PROVE  SentIsSet' /\ Current'
  <2>1. /\ relayNow' = [relayNow EXCEPT ![d] = t] /\ unsent' = [unsent EXCEPT ![d] = t]
        /\ UNCHANGED <<pc, driver, events, relayState>>
    BY ZenonT(60), <1>7 DEF SetStatus, relay
  <2>2. SentIsSet'
    BY ZenonT(60), <1>0, <2>1 DEF SentIsSet, RelayTypes
  <2>3. unsent'[driver] = None => driver # d
    BY ZenonT(60), <1>0, <2>1 DEF RelayTypes
  <2>4. driver # d => unsent'[driver] = unsent[driver] /\ relayNow'[driver] = relayNow[driver]
    BY ZenonT(60), <1>0, <2>1 DEF RelayTypes
  <2> QED BY ZenonT(60), <1>0, <2>1, <2>2, <2>3, <2>4 DEF Current, Driving, Sampling
<1> QED BY ZenonT(60), <1>1, <1>2, <1>3, <1>4, <1>5, <1>6, <1>7
        DEF Next, Setup, Arm, Turn, Relays

\* Whatever was lost in the broadcast channel and however often the peer moves to
\* another relay driver, the last thing drive has read or will read of a driver
\* is the status the driver has (the Lagged arm of drive, set_status).
THEOREM RelayStateCurrentCorrect == Spec => []RelayStateCurrent
<1>1. Init => CInv
  BY ZenonT(60), ReportInit DEF Init, CInv, SentIsSet, Current, Driving
<1>2. CInv /\ [Next]_vars => CInv'
  BY ZenonT(60), CurrentStep
<1>3. CInv => RelayStateCurrent
  BY ZenonT(60) DEF CInv, Current, RelayStateCurrent, LastKnown, Sampling
<1> QED BY <1>1, <1>2, <1>3, PTL DEF Spec

-----------------------------------------------------------------------------
(* Types of the rest.                                                      *)

ControlTypes ==
  /\ requests \in Seq({"Candidates", "PunchNow"})
  /\ writer \in {"none", "first", "loop"} /\ reader \in {"first", "reading", "stopped"}
  /\ announced \in BOOLEAN \cup {None}
  /\ allowDirect \in BOOLEAN /\ ifaces \in BOOLEAN

TimerTypes ==
  /\ attemptNow \in BOOLEAN /\ probeDue \in BOOLEAN /\ reannounceAt \in BOOLEAN
  /\ probeNow \in BOOLEAN /\ owed \in BOOLEAN /\ refused \in BOOLEAN
  /\ proof \in {"none", "stale", "fresh"}

OtherTypes ==
  /\ lagged \in BOOLEAN /\ told \in BOOLEAN /\ candidates \in BOOLEAN
  /\ polled \in BOOLEAN /\ netChanged \in BOOLEAN /\ ifaces \in BOOLEAN
  /\ sampled \in BOOLEAN /\ losses \in Nat /\ left \in 0..MaxEvents
  /\ conn \in {"open", "application", "timeout", "other"}

\* The record never holds more losses than entries.
HistoryShape ==
  /\ history \in [length : 1..HistoryCap, lost : 0..HistoryCap]
  /\ history.lost <= history.length

LEMMA RequestTypes ==
  ASSUME NEW q \in Seq({"Candidates", "PunchNow"}), NEW r \in {"Candidates", "PunchNow"}
  PROVE  TrySend(q, r) \in Seq({"Candidates", "PunchNow"})
BY DEF TrySend

LEMMA ControlStep == ControlTypes /\ [Next]_vars => ControlTypes'
<1> SUFFICES ASSUME ControlTypes, [Next]_vars PROVE ControlTypes'
  BY ZenonT(60)
<1>1. CASE UNCHANGED <<control, allowDirect, ifaces>>
  BY ZenonT(60), <1>1 DEF control, ControlTypes
<1>2. CASE OpenControl
  BY ZenonT(60), <1>2 DEF OpenControl, world, net, ControlTypes
<1>3. CASE WriteFirst
  BY ZenonT(60), <1>3 DEF WriteFirst, LocalCandidates, world, net, ControlTypes
<1>4. CASE WriteRequest
  <2>1. announced' \in BOOLEAN \cup {None} /\ UNCHANGED <<writer, reader, allowDirect, ifaces>>
    BY ZenonT(60), <1>4 DEF WriteRequest, LocalCandidates, world, net, ControlTypes
  <2>2. requests' \in Seq({"Candidates", "PunchNow"})
    BY <1>4 DEF WriteRequest, ControlTypes
  <2> QED BY ZenonT(60), <2>1, <2>2 DEF ControlTypes
<1>5. CASE Reader
  BY ZenonT(60), <1>5 DEF Reader, ReadPunchNow, ReadGarbage, ReadCandidates, control, world, net, ControlTypes
<1>6. CASE RequestDirect \/ Reannounce
  <2>1. requests' \in Seq({"Candidates", "PunchNow"})
    BY ZenonT(60), <1>6, RequestTypes DEF RequestDirect, Reannounce, ControlTypes
  <2>2. UNCHANGED <<writer, reader, announced, allowDirect, ifaces>>
    BY ZenonT(60), <1>6 DEF RequestDirect, Reannounce, world, net
  <2> QED BY ZenonT(60), <2>1, <2>2 DEF ControlTypes
<1>7. CASE FollowPaths
  <2>1. requests' \in Seq({"Candidates", "PunchNow"})
    <3>1. CASE allowDirect
      <4>1. PICK due \in BOOLEAN : TakeRequests(due)
        BY ZenonT(60), <1>7, <3>1 DEF FollowPaths
      <4> QED BY ZenonT(60), <4>1, RequestTypes DEF TakeRequests, ControlTypes
    <3>2. CASE ~allowDirect
      BY ZenonT(60), <1>7, <3>2 DEF FollowPaths, ControlTypes
    <3> QED BY ZenonT(60), <3>1, <3>2
  <2>2. UNCHANGED <<writer, reader, announced, allowDirect, ifaces>>
    BY ZenonT(60), <1>7 DEF FollowPaths, net
  <2> QED BY ZenonT(60), <2>1, <2>2 DEF ControlTypes
<1>8. CASE IfacesChange
  BY ZenonT(60), <1>8 DEF IfacesChange, asks, control, ControlTypes
<1>9. \/ UNCHANGED <<control, allowDirect, ifaces>> \/ OpenControl \/ Writer \/ Reader
      \/ Application \/ FollowPaths \/ IfacesChange
  BY ZenonT(60) DEF Next, Setup, Arm, Turn, Relays, Surroundings, vars, asks, world, net, Start,
     Subscribe, Sample, ArmSuperseded, ArmClosed, ArmEvent, ArmNet, Resubscribe, FollowRelay,
     HeardOn, SendEvent, SetStatus, Close, TakeOver, Pong, PollIfaces, ProofAges
<1> QED BY ZenonT(60), <1>1, <1>2, <1>3, <1>4, <1>5, <1>6, <1>7, <1>8, <1>9 DEF Writer, Application

LEMMA TimerStep == TimerTypes /\ [Next]_vars => TimerTypes'
<1> SUFFICES ASSUME TimerTypes, [Next]_vars PROVE TimerTypes'
  BY ZenonT(60)
<1>1. CASE UNCHANGED <<timers, probeNow, proof, owed, refused>>
  BY ZenonT(60), <1>1 DEF timers, TimerTypes
<1>2. CASE ReadPunchNow \/ RequestDirect \/ Reannounce
  <2>1. UNCHANGED <<attemptNow, probeDue, reannounceAt, proof, refused>>
    BY ZenonT(60), <1>2 DEF ReadPunchNow, RequestDirect, Reannounce, timers, world, paths
  <2>2. probeNow' \in BOOLEAN /\ owed' \in BOOLEAN
    BY ZenonT(60), <1>2 DEF ReadPunchNow, RequestDirect, Reannounce
  <2> QED BY ZenonT(60), <2>1, <2>2 DEF TimerTypes
<1>3. CASE TakeOver \/ Pong \/ ProofAges
  <2>1. UNCHANGED <<attemptNow, probeDue, reannounceAt, probeNow, owed, refused>>
    BY ZenonT(60), <1>3 DEF TakeOver, Pong, ProofAges, timers, asks, observers
  <2>2. proof' \in {"none", "stale", "fresh"}
    BY ZenonT(60), <1>3 DEF TakeOver, Pong, ProofAges
  <2> QED BY ZenonT(60), <2>1, <2>2 DEF TimerTypes
<1>4. CASE FollowPaths
  <2>1. CASE ~allowDirect
    BY ZenonT(60), <1>4, <2>1 DEF FollowPaths, timers, TimerTypes
  <2>2. CASE allowDirect
    <3>1. PICK due \in BOOLEAN :
            TakeRequests(due) /\ \/ Relayed(due \/ probeNow) \/ Probing(due \/ probeNow)
                                 \/ Direct(due \/ probeNow)
      BY ZenonT(60), <1>4, <2>2 DEF FollowPaths
    <3>2. reannounceAt' \in BOOLEAN /\ refused' \in BOOLEAN /\ probeNow' \in BOOLEAN
      BY ZenonT(60), <3>1 DEF TakeRequests
    <3>3. ASSUME NEW asked, Relayed(asked) \/ Probing(asked) \/ Direct(asked)
          PROVE  /\ attemptNow' \in BOOLEAN /\ probeDue' \in BOOLEAN /\ owed' \in BOOLEAN
                 /\ proof' \in {"none", "stale", "fresh"}
      <4>1. Quiet(asked) \/ SendProbes => probeDue' \in BOOLEAN /\ owed' \in BOOLEAN
        BY ZenonT(60) DEF Quiet, SendProbes
      <4>2. CASE Relayed(asked)
        BY ZenonT(60), <4>1, <4>2 DEF Relayed, TimerTypes
      <4>3. CASE Probing(asked)
        BY ZenonT(60), <4>1, <4>3 DEF Probing, SendProbesAgain, TimerTypes
      <4>4. CASE Direct(asked)
        BY ZenonT(60), <4>1, <4>4 DEF Direct, SendProbesAgain, TimerTypes
      <4> QED BY ZenonT(60), <3>3, <4>2, <4>3, <4>4
    <3> QED BY ZenonT(60), <3>1, <3>2, <3>3 DEF TimerTypes
  <2> QED BY ZenonT(60), <2>1, <2>2
<1>5. CASE ArmNet
  BY ZenonT(60), <1>5 DEF ArmNet, paths, asks, observers, TimerTypes
<1>6. \/ UNCHANGED <<timers, probeNow, proof, owed, refused>>
      \/ ReadPunchNow \/ Application \/ ArmNet \/ TakeOver \/ Pong \/ ProofAges \/ FollowPaths
  BY ZenonT(60) DEF Next, Setup, Arm, Turn, Writer, Reader, Relays, Surroundings, vars, asks, world,
     paths, observers, Start, OpenControl, Subscribe, Sample, ArmSuperseded, ArmClosed, ArmEvent,
     Resubscribe, FollowRelay, WriteFirst, WriteRequest, ReadGarbage, ReadCandidates, HeardOn,
     SendEvent, SetStatus, Close, IfacesChange, PollIfaces
<1> QED BY ZenonT(60), <1>1, <1>2, <1>3, <1>4, <1>5, <1>6 DEF Application

LEMMA OtherStep == OtherTypes /\ RelayTypes /\ [Next]_vars => OtherTypes'
<1> SUFFICES ASSUME OtherTypes, RelayTypes, [Next]_vars PROVE OtherTypes'
  BY ZenonT(60)
<1>1. CASE UNCHANGED <<lagged, told, candidates, net, sampled, losses, left, conn>>
  BY ZenonT(60), <1>1 DEF net, OtherTypes
<1>2. CASE Subscribe
  BY ZenonT(60), <1>2 DEF Subscribe, paths, observers, OtherTypes
<1>3. CASE Sample
  <2>1. UNCHANGED <<lagged, told, candidates, net, losses, left, conn>>
    BY ZenonT(60), <1>3 DEF Sample, world, paths
  <2>2. sampled' \in BOOLEAN
    BY ZenonT(60), <1>3 DEF Sample
  <2> QED BY ZenonT(60), <2>1, <2>2 DEF net, OtherTypes
<1>4. CASE ArmEvent \/ Resubscribe
  <2>1. UNCHANGED <<told, candidates, net, sampled, losses, left, conn>>
    BY ZenonT(60), <1>4 DEF ArmEvent, Resubscribe, world, paths, observers
  <2>2. lagged' \in BOOLEAN
    BY ZenonT(60), <1>4 DEF ArmEvent, Resubscribe, OtherTypes
  <2> QED BY ZenonT(60), <2>1, <2>2 DEF net, OtherTypes
<1>5. CASE ArmSuperseded
  BY ZenonT(60), <1>5 DEF ArmSuperseded, relay, paths, net, observers, OtherTypes
<1>6. CASE ArmNet
  BY ZenonT(60), <1>6 DEF ArmNet, relay, paths, observers, OtherTypes
<1>7. ASSUME NEW d \in Driver, SendEvent(d) PROVE OtherTypes'
  <2>1. UNCHANGED <<told, candidates, net, sampled, left, conn>>
    BY ZenonT(60), <1>7 DEF SendEvent, world, paths
  <2>2. lagged' \in BOOLEAN
    BY ZenonT(60), <1>7 DEF SendEvent, OtherTypes
  <2>3. losses' \in {losses, losses + 1}
    BY ZenonT(60), <1>7 DEF SendEvent
  <2> QED BY <2>1, <2>2, <2>3 DEF net, OtherTypes
<1>h. left' \in {left, left - 1} /\ (left' = left \/ left > 0) => left' \in 0..MaxEvents
  BY CapsAssumption DEF OtherTypes
<1>8. ASSUME NEW d \in Driver, HeardOn(d) \/ \E t \in RelayStatuses : SetStatus(d, t)
      PROVE  OtherTypes'
  <2>1. UNCHANGED <<lagged, told, candidates, net, sampled, losses, conn>>
    BY ZenonT(60), <1>8 DEF HeardOn, SetStatus, relay, world, paths, observers
  <2>2. left' \in {left, left - 1} /\ (left' = left \/ left > 0)
    BY ZenonT(60), <1>8 DEF HeardOn, SetStatus, Happens
  <2> QED BY ZenonT(60), <2>1, <2>2, <1>h DEF net, OtherTypes
<1>9. CASE Reader \/ Application
  <2>1. UNCHANGED <<lagged, told, net, sampled, losses, conn>> /\ candidates' \in BOOLEAN
    BY ZenonT(60), <1>9 DEF Reader, ReadPunchNow, ReadGarbage, ReadCandidates, Application,
       RequestDirect, Reannounce, relay, world, paths, observers, OtherTypes
  <2>2. left' \in {left, left - 1} /\ (left' = left \/ left > 0)
    BY ZenonT(60), <1>9 DEF Reader, ReadPunchNow, ReadGarbage, ReadCandidates, Application,
       RequestDirect, Reannounce, Happens
  <2> QED BY ZenonT(60), <2>1, <2>2, <1>h DEF net, OtherTypes
<1>10. CASE Surroundings
  <2>1. UNCHANGED <<lagged, sampled, losses>>
    BY ZenonT(60), <1>10 DEF Surroundings, Close, TakeOver, Pong, IfacesChange, PollIfaces,
       ProofAges, relay, observers
  <2>2. left' \in {left, left - 1} /\ (left' = left \/ left > 0)
    BY ZenonT(60), <1>10 DEF Surroundings, Close, TakeOver, Pong, IfacesChange, PollIfaces,
       ProofAges, Happens
  <2>3. conn' \in {"open", "application", "timeout", "other"}
    BY ZenonT(60), <1>10 DEF Surroundings, Close, TakeOver, Pong, IfacesChange, PollIfaces,
       ProofAges, OtherTypes
  <2>4. told' \in BOOLEAN /\ candidates' \in BOOLEAN
    BY ZenonT(60), <1>10 DEF Surroundings, Close, TakeOver, Pong, IfacesChange, PollIfaces,
       ProofAges, OtherTypes, paths
  <2>5. ifaces' \in BOOLEAN /\ polled' \in BOOLEAN /\ netChanged' \in BOOLEAN
    BY ZenonT(60), <1>10 DEF Surroundings, Close, TakeOver, Pong, IfacesChange, PollIfaces,
       ProofAges, OtherTypes, net
  <2> QED BY ZenonT(60), <2>1, <2>2, <2>3, <2>4, <2>5, <1>h DEF OtherTypes
<1>11. \/ UNCHANGED <<lagged, told, candidates, net, sampled, losses, left, conn>>
       \/ Subscribe \/ Sample \/ ArmEvent \/ Resubscribe \/ ArmSuperseded \/ ArmNet
       \/ \E d \in Driver : \/ SendEvent(d) \/ HeardOn(d)
                            \/ \E t \in RelayStatuses : SetStatus(d, t)
       \/ Reader \/ Application \/ Surroundings
  BY ZenonT(60) DEF Next, Setup, Arm, Turn, Writer, Relays, vars, relay, world, paths, observers,
     Start, OpenControl, ArmClosed, FollowRelay, FollowPaths, WriteFirst, WriteRequest
<1> QED BY ZenonT(60), <1>1, <1>2, <1>3, <1>4, <1>5, <1>6, <1>7, <1>8, <1>9, <1>10, <1>11

\* A move of the report adds at most one entry, and one loss with it.
LEMMA HistoryStep == RInv /\ HistoryShape /\ [Next]_vars => HistoryShape'
<1> SUFFICES ASSUME RInv, HistoryShape, [Next]_vars PROVE HistoryShape'
  BY ZenonT(60)
<1>1. \/ history' = history
      \/ \E x : history' = Path!Recorded(history, x)
  BY ZenonT(60), ReportStep DEF report, Path!Step, Path!HandshakeDone, Path!RoundStarts,
     Path!RoundFails, Path!Proved, Path!ProofLost, Path!RelayLost, Path!RelayBack, Path!Fail,
     Path!Move
<1>2. CASE history' = history
  BY ZenonT(60), <1>2 DEF HistoryShape
<1>3. ASSUME NEW x, history' = Path!Recorded(history, x) PROVE HistoryShape'
  BY <1>3, CapsAssumption DEF HistoryShape, Path!Recorded
<1> QED BY ZenonT(60), <1>1, <1>2, <1>3

-----------------------------------------------------------------------------
(* The losses of the relay session.                                        *)

\* Losses in the channel, and the one drive has read and not yet acted on.
Waiting == {i \in DOMAIN events : Lossy(i)}
Unacted == IF relayState \in Down /\ status # "Reconnecting" THEN 1 ELSE 0

\* Until the first sample nothing is lost; what is sent before it is sampled.
NothingLost ==
  /\ pc \in {"start", "opening", "spawned", "first"} => history.lost = 0
  /\ pc \in {"opening", "spawned", "first"} => status = "Relayed"
  /\ pc \in {"start", "opening", "spawned"} \/ (pc = "first" /\ events = <<>>) => losses = 0

\* Between turns the report agrees with the relay status drive has read.
ReportFollows ==
  /\ pc = "relay" => sampled
  /\ pc = "select" /\ ~sampled => /\ relayState \in Down \cup {"Up"}
                                  /\ relayState \in Down <=> status = "Reconnecting"
  /\ pc = "paths" => relayState = "Up" /\ status # "Reconnecting"

Counted == pc \in {"select", "route", "paths"} /\ ~sampled /\ ~lagged /\ history.length < HistoryCap
LossesCounted == Counted => losses = history.lost + Unacted + Cardinality(Waiting)

LEMMA WaitingFinite ==
  ASSUME events \in Seq(RelayStatuses)
  PROVE  Waiting \in SUBSET (1..Len(events)) /\ IsFiniteSet(Waiting) /\ Cardinality(Waiting) \in Nat
<1>1. DOMAIN events = 1..Len(events) /\ Len(events) \in Nat
  OBVIOUS
<1>2. IsFiniteSet(1..Len(events)) /\ Waiting \in SUBSET (1..Len(events))
  BY <1>1, FS_Interval DEF Waiting
<1>3. IsFiniteSet(Waiting)
  BY ZenonT(60), <1>2, FS_Subset
<1> QED BY ZenonT(60), <1>2, <1>3, FS_CardinalityType

\* recv takes the oldest event: the others keep being losses or not.
LEMMA WaitingTail ==
  ASSUME events \in Seq(RelayStatuses), events # <<>>, events' = Tail(events),
         relayState' = Head(events)
  PROVE  /\ Cardinality(Waiting) = Cardinality(Waiting') + (IF 1 \in Waiting THEN 1 ELSE 0)
         /\ Cardinality(Waiting') \in Nat
         /\ 1 \in Waiting <=> Head(events) \in Down /\ relayState \notin Down
<1> DEFINE n == Len(events)
<1>1. /\ n \in Nat \ {0} /\ DOMAIN events = 1..n /\ DOMAIN events' = 1..(n - 1)
      /\ \A i \in 1..(n - 1) : events'[i] = events[i + 1]
      /\ Head(events) = events[1]
  OBVIOUS
<1>2. \A i \in 1..(n - 1) : Lossy(i)' <=> Lossy(i + 1)
  <2> SUFFICES ASSUME NEW i \in 1..(n - 1) PROVE Lossy(i)' <=> Lossy(i + 1)
    BY ZenonT(60)
  <2>1. i + 1 # 1 /\ (i + 1) - 1 = i /\ events'[i] = events[i + 1]
    BY <1>1
  <2>2. CASE i = 1
    BY ZenonT(60), <1>1, <2>1, <2>2 DEF Lossy
  <2>3. CASE i # 1
    <3>1. i - 1 \in 1..(n - 1) /\ (i - 1) + 1 = i
      BY <2>3
    <3>2. events'[i - 1] = events[i]
      BY ZenonT(60), <1>1, <3>1
    <3> QED BY ZenonT(60), <2>1, <2>3, <3>2 DEF Lossy
  <2> QED BY ZenonT(60), <2>2, <2>3
<1>3. /\ \A i \in Waiting' : i + 1 \in Waiting \ {1}
      /\ \A j \in Waiting \ {1} : j - 1 \in Waiting'
      /\ Waiting' \in SUBSET Nat /\ Waiting \in SUBSET Nat
  BY SMTT(30), <1>1, <1>2 DEF Waiting
<1>4. ExistsBijection(Waiting', Waiting \ {1})
  <2> DEFINE f == [i \in Waiting' |-> i + 1]
  <2>1. f \in [Waiting' -> Waiting \ {1}]
    BY ZenonT(60), <1>3
  <2>2. \A i, j \in Waiting' : f[i] = f[j] => i = j
    BY <1>3
  <2>3. \A j \in Waiting \ {1} : \E i \in Waiting' : f[i] = j
    <3> TAKE j \in Waiting \ {1}
    <3>1. j - 1 \in Waiting' /\ (j - 1) + 1 = j
      BY <1>3
    <3> QED BY ZenonT(60), <3>1
  <2> HIDE DEF f
  <2>4. f \in Bijection(Waiting', Waiting \ {1})
    BY ZenonT(60), <2>1, <2>2, <2>3 DEF Bijection, Injection, Surjection, IsInjective
  <2> QED BY ZenonT(60), <2>4 DEF ExistsBijection
<1>5. IsFiniteSet(Waiting) /\ Cardinality(Waiting) \in Nat
  BY ZenonT(60), WaitingFinite
<1>6. IsFiniteSet(Waiting') /\ Cardinality(Waiting') \in Nat
  <2>1. \A i \in Waiting' : i <= n
    BY <1>1, <1>3 DEF Waiting
  <2> QED BY ZenonT(60), <1>1, <1>3, <2>1, FS_BoundedSetOfNaturals, FS_CardinalityType
<1>7. Cardinality(Waiting \ {1}) = Cardinality(Waiting')
  BY ZenonT(60), <1>4, <1>6, FS_Bijection
<1>8. Cardinality(Waiting \ {1}) = IF 1 \in Waiting THEN Cardinality(Waiting) - 1
                                   ELSE Cardinality(Waiting)
  BY ZenonT(60), <1>5, FS_RemoveElement
<1>9. 1 \in Waiting <=> Head(events) \in Down /\ relayState \notin Down
  BY <1>1 DEF Waiting, Lossy
<1> QED BY SMTT(30), <1>5, <1>6, <1>7, <1>8, <1>9

\* A broadcast adds a loss if it takes the relay down.
LEMMA WaitingAppend ==
  ASSUME events \in Seq(RelayStatuses), NEW x \in RelayStatuses, events' = Append(events, x),
         relayState' = relayState
  PROVE  Cardinality(Waiting') =
           Cardinality(Waiting) + (IF x \in Down /\ LastKnown \notin Down THEN 1 ELSE 0)
<1> DEFINE n == Len(events)
<1>1. /\ n \in Nat /\ DOMAIN events = 1..n /\ DOMAIN events' = 1..(n + 1)
      /\ \A i \in 1..n : events'[i] = events[i]
      /\ events'[n + 1] = x /\ (events = <<>> <=> n = 0)
  OBVIOUS
<1>2. \A i \in 1..n : Lossy(i)' <=> Lossy(i)
  <2> SUFFICES ASSUME NEW i \in 1..n PROVE Lossy(i)' <=> Lossy(i)
    BY ZenonT(60)
  <2>1. i # 1 => i - 1 \in 1..n
    BY <1>1
  <2> QED BY ZenonT(60), <1>1, <2>1 DEF Lossy
<1>3. \A i : i = n + 1 => (Lossy(i)' <=> x \in Down /\ LastKnown \notin Down)
  <2>1. (IF n + 1 = 1 THEN relayState' ELSE events'[(n + 1) - 1]) = LastKnown
    <3>1. CASE n = 0
      BY <1>1, <3>1 DEF LastKnown
    <3>2. CASE n # 0
      <4>1. n + 1 # 1 /\ (n + 1) - 1 = n /\ n \in 1..n /\ events # <<>>
        BY <1>1, <3>2
      <4>2. events'[n] = events[n]
        BY ZenonT(60), <1>1, <4>1
      <4> QED BY ZenonT(60), <4>1, <4>2 DEF LastKnown
    <3> QED BY ZenonT(60), <3>1, <3>2
  <2>2. \A i : Lossy(i)' <=> /\ events'[i] \in Down
                             /\ (IF i = 1 THEN relayState' ELSE events'[i - 1]) \notin Down
    BY ZenonT(60) DEF Lossy, Down
  <2> QED BY ZenonT(60), <1>1, <2>1, <2>2
<1>4. Waiting' = IF x \in Down /\ LastKnown \notin Down THEN Waiting \cup {n + 1} ELSE Waiting
  <2>1. \A i : i \in 1..(n + 1) <=> i \in 1..n \/ i = n + 1
    BY <1>1
  <2>2. \A i : i \in Waiting' <=> i \in 1..(n + 1) /\ Lossy(i)'
    BY ZenonT(60), <1>1 DEF Waiting
  <2>3. \A i : i \in Waiting <=> i \in 1..n /\ Lossy(i)
    BY ZenonT(60), <1>1 DEF Waiting
  <2> QED BY ZenonT(60), <2>1, <2>2, <2>3, <1>2, <1>3
<1>5. IsFiniteSet(Waiting) /\ Cardinality(Waiting) \in Nat /\ n + 1 \notin Waiting
  BY <1>1, WaitingFinite
<1>6. Cardinality(Waiting \cup {n + 1}) = Cardinality(Waiting) + 1
  BY ZenonT(60), <1>5, FS_AddElement
<1> QED BY <1>4, <1>5, <1>6

\* A record that is not full keeps its losses, but for one on Reconnecting.
LEMMA LostKept ==
  ASSUME HistoryShape, NEW s, Transition(s), s = status \/ s # "Reconnecting"
  PROVE  history'.length < HistoryCap =>
           history.length < HistoryCap /\ history'.lost = history.lost
BY ZenonT(60), CapsAssumption DEF HistoryShape, Transition, Path!Recorded

LEMMA LostAdded ==
  ASSUME HistoryShape, Transition("Reconnecting"), status # "Reconnecting"
  PROVE  history'.length < HistoryCap =>
           history.length < HistoryCap /\ history'.lost = history.lost + 1
BY ZenonT(60), CapsAssumption DEF HistoryShape, Transition, Path!Recorded

LossShape == NothingLost /\ ReportFollows /\ LossesCounted
LInv == RInv /\ HistoryShape /\ OtherTypes /\ LossShape

LEMMA OneMore ==
  ASSUME NEW a \in Nat, NEW w \in Nat
  PROVE  a + (w + 1) = (a + w) + 1 /\ a + (w + 0) = a + w
OBVIOUS

LEMMA LossSetup ==
  ASSUME LInv, Start \/ OpenControl \/ Subscribe \/ Sample
  PROVE  LossShape'
<1>1. CASE Start
  <2>1. /\ pc = "start" /\ pc' = "opening" /\ Transition("Relayed")
        /\ UNCHANGED <<events, losses, sampled>>
    BY ZenonT(60), <1>1 DEF Start, relay, observers
  <2>2. history.lost = 0 /\ losses = 0 /\ status = "Rendezvous"
    BY ZenonT(60), <2>1 DEF LInv, LossShape, NothingLost, RInv, ReportShape
  <2>3. status' = "Relayed" /\ history' = Path!Recorded(history, "Relayed")
    BY ZenonT(60), <2>1, <2>2, RecordedMove
  <2>4. history'.lost = 0
    BY ZenonT(60), <2>2, <2>3 DEF Path!Recorded
  <2> QED BY ZenonT(60), <2>1, <2>2, <2>3, <2>4
          DEF LossShape, NothingLost, ReportFollows, LossesCounted, Counted
<1>2. CASE OpenControl
  <2>1. /\ pc = "opening" /\ pc' = "spawned" /\ UNCHANGED <<report, losses>>
    BY ZenonT(60), <1>2 DEF OpenControl, observers
  <2> QED BY ZenonT(60), <2>1 DEF LInv, LossShape, NothingLost, ReportFollows, LossesCounted, Counted, report
<1>3. CASE Subscribe
  <2>1. /\ pc = "spawned" /\ pc' = "first" /\ UNCHANGED <<report, losses>>
    BY ZenonT(60), <1>3 DEF Subscribe, observers
  <2> QED BY ZenonT(60), <2>1 DEF LInv, LossShape, NothingLost, ReportFollows, LossesCounted, Counted, report
<1>4. CASE Sample
  <2>1. /\ pc \in {"first", "lagged", "resub"} /\ pc' \in {"select", "route", "relay"}
        /\ pc # "first" => sampled'
        /\ UNCHANGED <<report, events, losses>>
    BY ZenonT(60), <1>4 DEF Sample
  <2>2. CASE sampled'
    BY ZenonT(60), <2>1, <2>2 DEF LossShape, NothingLost, ReportFollows, LossesCounted, Counted
  <2>3. CASE ~sampled'
    <3>1. pc = "first" /\ pc' = "select" /\ events = <<>> /\ relayState' = "Up"
      BY ZenonT(60), <1>4, <2>3 DEF Sample
    <3>2. history.lost = 0 /\ losses = 0 /\ status = "Relayed"
      BY ZenonT(60), <3>1 DEF LInv, LossShape, NothingLost
    <3>3. Waiting' = {}
      BY <2>1, <3>1 DEF Waiting
    <3>4. Cardinality(Waiting') = 0
      BY ZenonT(60), <3>3, FS_EmptySet
    <3>5. Unacted' = 0
      BY ZenonT(60), <3>1 DEF Unacted, Down
    <3> QED BY SMTT(30), <2>1, <3>1, <3>2, <3>4, <3>5
            DEF LossShape, NothingLost, ReportFollows, LossesCounted, report, Down
  <2> QED BY ZenonT(60), <2>2, <2>3
<1> QED BY ZenonT(60), <1>1, <1>2, <1>3, <1>4

\* A step that leaves all of it alone, but perhaps takes the turn to the route.
LEMMA LossKept ==
  ASSUME LossShape, UNCHANGED <<report, relay, sampled, losses>>,
         pc' = pc \/ (pc = "select" /\ pc' = "route")
  PROVE  LossShape'
<1>1. Unacted' = Unacted /\ Waiting' = Waiting
  BY ZenonT(60) DEF Unacted, Waiting, Lossy, report, relay
<1>2. NothingLost' /\ ReportFollows'
  BY ZenonT(60) DEF LossShape, NothingLost, ReportFollows, report, relay
<1>3. LossesCounted'
  BY ZenonT(60), <1>1 DEF LossShape, LossesCounted, Counted, report, relay
<1> QED BY ZenonT(60), <1>2, <1>3 DEF LossShape

LEMMA LossEvent ==
  ASSUME LInv, ArmEvent
  PROVE  LossShape'
<1>1. CASE lagged
  <2>1. pc' = "lagged"
    BY ZenonT(60), <1>1 DEF ArmEvent
  <2> QED BY ZenonT(60), <2>1 DEF LossShape, NothingLost, ReportFollows, LossesCounted, Counted
<1>2. CASE ~lagged
  <2>1. /\ pc = "select" /\ pc' = "route" /\ events # <<>>
        /\ relayState' = Head(events) /\ events' = Tail(events)
        /\ UNCHANGED <<report, lagged, losses, sampled>>
    BY ZenonT(60), <1>2 DEF ArmEvent, observers
  <2>2. /\ Cardinality(Waiting) = Cardinality(Waiting') + (IF 1 \in Waiting THEN 1 ELSE 0)
        /\ Cardinality(Waiting') \in Nat
        /\ 1 \in Waiting <=> Head(events) \in Down /\ relayState \notin Down
    BY ZenonT(60), <2>1, WaitingTail DEF LInv, RInv, RelayTypes
  <2>3. ASSUME ~sampled
        PROVE  Unacted = 0 /\ Unacted' = IF 1 \in Waiting THEN 1 ELSE 0
    <3>1. relayState \in Down <=> status = "Reconnecting"
      BY ZenonT(60), <2>1, <2>3 DEF LInv, LossShape, ReportFollows
    <3> QED BY ZenonT(60), <2>1, <2>2, <3>1 DEF Unacted, report
  <2>4. history.lost \in Nat
    BY CapsAssumption DEF LInv, HistoryShape
  <2>5. LossesCounted'
    BY SMTT(30), <2>1, <2>2, <2>3, <2>4 DEF LInv, LossShape, LossesCounted, Counted, report
  <2> QED BY ZenonT(60), <2>1, <2>5 DEF LossShape, NothingLost, ReportFollows
<1> QED BY ZenonT(60), <1>1, <1>2

\* The relay's turn records a loss exactly when it has an unacted one.
LEMMA LossRelay ==
  ASSUME LInv, FollowRelay
  PROVE  LossShape'
<1>1. /\ RelayKnown /\ pc \in {"select", "route", "relay"} /\ ~RelayStays
      /\ UNCHANGED <<relay, losses, sampled>>
  BY ZenonT(60) DEF FollowRelay, RelayKnown, OnTurn, observers
<1>2. /\ relayState \in RelayStatuses /\ previous \in {"Relayed", "Probing", "Direct"}
      /\ history.lost \in Nat /\ (pc = "relay" => sampled)
  BY SMTT(30), WorkingFacts, CapsAssumption
     DEF LInv, RInv, ReportShape, RelayTypes, HistoryShape, LossShape, ReportFollows
<1>3. Waiting' = Waiting
  BY ZenonT(60), <1>1 DEF Waiting, Lossy, relay
<1>4. CASE relayState \in {"Superseded", "Failed"}
  <2>1. pc' = "ended"
    BY ZenonT(60), <1>4 DEF FollowRelay, Down
  <2> QED BY ZenonT(60), <2>1 DEF LossShape, NothingLost, ReportFollows, LossesCounted, Counted
<1>5. CASE relayState \in Down
  <2>1. pc' = "select" /\ Transition("Reconnecting")
    BY ZenonT(60), <1>5 DEF FollowRelay, Down
  <2>2. status' = "Reconnecting" /\ Unacted' = 0 /\ relayState' = relayState
    BY ZenonT(60), <1>1, <2>1 DEF Transition, Unacted, relay
  <2>3. history'.length < HistoryCap =>
          history.length < HistoryCap /\ history'.lost = history.lost + Unacted
    <3>1. CASE status = "Reconnecting"
      BY <1>2, <2>1, <3>1, LostKept DEF LInv, Unacted
    <3>2. CASE status # "Reconnecting"
      BY ZenonT(60), <1>5, <2>1, <3>2, LostAdded DEF LInv, Unacted
    <3> QED BY ZenonT(60), <3>1, <3>2
  <2>4. Cardinality(Waiting) \in Nat
    BY ZenonT(60), WaitingFinite DEF LInv, RInv, RelayTypes
  <2>5. Unacted \in {0, 1}
    BY ZenonT(60) DEF Unacted
  <2>6. LossesCounted'
    BY SMTT(30), <1>1, <1>2, <1>3, <2>1, <2>2, <2>3, <2>4, <2>5
       DEF LInv, LossShape, LossesCounted, Counted, relay
  <2> QED BY ZenonT(60), <1>5, <2>1, <2>2, <2>6 DEF LossShape, NothingLost, ReportFollows
<1>6. CASE relayState = "Up"
  <2>1. pc' = "paths" /\ Transition(previous)
    BY ZenonT(60), <1>6 DEF FollowRelay, Down
  <2>2. /\ status' \in {"Relayed", "Probing", "Direct"} /\ relayState' = "Up"
        /\ Unacted' = 0 /\ Unacted = 0
    BY ZenonT(60), <1>1, <1>2, <1>6, <2>1 DEF Transition, Unacted, relay, Down
  <2>3. history'.length < HistoryCap =>
          history.length < HistoryCap /\ history'.lost = history.lost
    BY ZenonT(60), <1>2, <2>1, LostKept DEF LInv
  <2>4. LossesCounted'
    BY ZenonT(60), <1>1, <1>2, <1>3, <2>1, <2>2, <2>3 DEF LInv, LossShape, LossesCounted, Counted, relay
  <2> QED BY ZenonT(60), <2>1, <2>2, <2>4 DEF LossShape, NothingLost, ReportFollows
<1> QED BY ZenonT(60), <1>2, <1>4, <1>5, <1>6 DEF RelayStatuses, Down

LEMMA LossPaths ==
  ASSUME LInv, FollowPaths
  PROVE  LossShape'
<1>1. /\ pc \in {"select", "route", "relay", "paths"} /\ pc' = "select"
      /\ UNCHANGED <<relay, losses, sampled>>
  BY ZenonT(60) DEF FollowPaths, RelayStays, RelayKnown, OnTurn
<1>2. /\ relayState = "Up" /\ status # "Reconnecting" /\ (pc = "relay" => sampled)
  BY ZenonT(60) DEF FollowPaths, RelayStays, LInv, LossShape, ReportFollows
<1>3. Waiting' = Waiting
  BY ZenonT(60), <1>1 DEF Waiting, Lossy, relay
<1>4. /\ status' # "Reconnecting"
      /\ history'.length < HistoryCap =>
           history.length < HistoryCap /\ history'.lost = history.lost
  <2>1. ASSUME NEW s \in {"Relayed", "Probing", "Direct"}, Transition(s)
        PROVE  /\ status' # "Reconnecting"
               /\ history'.length < HistoryCap =>
                    history.length < HistoryCap /\ history'.lost = history.lost
    <3>1. status' # "Reconnecting"
      BY ZenonT(60), <2>1 DEF Transition
    <3> QED BY ZenonT(60), <2>1, <3>1, LostKept DEF LInv
  <2>2. CASE UNCHANGED <<status, history>>
    BY ZenonT(60), <1>2, <2>2
  <2> QED BY ZenonT(60), <2>1, <2>2, PathsMoves
<1>5. Unacted = 0 /\ Unacted' = 0 /\ relayState' = "Up"
  BY ZenonT(60), <1>1, <1>2 DEF Unacted, Down, relay
<1>6. LossesCounted'
  BY ZenonT(60), <1>1, <1>2, <1>3, <1>4, <1>5 DEF LInv, LossShape, LossesCounted, Counted, relay
<1> QED BY ZenonT(60), <1>1, <1>4, <1>5, <1>6 DEF LossShape, NothingLost, ReportFollows, Down

\* What the driver sends is counted when it is sent, and waits in the channel.
LEMMA LossSend ==
  ASSUME LInv, NEW d \in Driver, SendEvent(d)
  PROVE  LossShape'
<1>1. UNCHANGED <<pc, report, relayState, driver, sampled>> /\ unsent[d] # None
  BY ZenonT(60) DEF SendEvent
<1>2. CASE ~Subscribed(d)
  <2>1. UNCHANGED <<events, lagged, losses>>
    BY ZenonT(60), <1>2 DEF SendEvent
  <2> QED BY ZenonT(60), <1>1, <2>1, LossKept DEF LInv, relay
<1>3. CASE Subscribed(d)
  <2>1. /\ unsent[d] \in RelayStatuses /\ pc \notin {"start", "opening", "spawned", "ended"}
        /\ events \in Seq(RelayStatuses) /\ history.lost \in Nat
    BY SMTT(30), <1>1, <1>3, CapsAssumption DEF Subscribed, LInv, RInv, RelayTypes, HistoryShape
  <2>2. events' # <<>>
    <3>1. PICK kept \in Seq(RelayStatuses) : events' = Append(kept, unsent[d])
      <4>1. events = <<>> \/ Tail(events) \in Seq(RelayStatuses)
        BY <2>1
      <4>2. Len(events) < EventCapacity \/ events # <<>>
        BY CapsAssumption
      <4> QED BY ZenonT(60), <1>3, <2>1, <4>1, <4>2 DEF SendEvent
    <3> QED BY <2>1, <3>1
  <2>3. NothingLost' /\ ReportFollows'
    BY ZenonT(60), <1>1, <2>1, <2>2 DEF LInv, LossShape, NothingLost, ReportFollows, report
  <2>4. ASSUME ~lagged' PROVE LossesCounted'
    <3>1. Len(events) < EventCapacity /\ ~lagged
      <4>1. ~lagged /\ ~(Len(events) >= EventCapacity)
        BY ZenonT(60), <1>3, <2>4 DEF SendEvent
      <4> QED BY <2>1, <4>1, CapsAssumption
    <3>2. /\ events' = Append(events, unsent[d])
          /\ losses' = IF unsent[d] \in Down /\ LastKnown \notin Down THEN losses + 1 ELSE losses
      BY ZenonT(60), <1>3, <3>1 DEF SendEvent
    <3>3. Cardinality(Waiting') = Cardinality(Waiting)
            + (IF unsent[d] \in Down /\ LastKnown \notin Down THEN 1 ELSE 0)
      BY ZenonT(60), <1>1, <2>1, <3>2, WaitingAppend
    <3>4. Cardinality(Waiting) \in Nat
      BY ZenonT(60), <2>1, WaitingFinite
    <3>5. Unacted' = Unacted /\ Unacted \in {0, 1}
      BY ZenonT(60), <1>1 DEF Unacted, report
    <3>6. Counted' => Counted /\ history' = history
      BY ZenonT(60), <1>1, <3>1 DEF Counted, report
    <3>7. history.lost + Unacted \in Nat
      BY <2>1, <3>5
    <3>8. CASE unsent[d] \in Down /\ LastKnown \notin Down
      <4>1. losses' = losses + 1 /\ Cardinality(Waiting') = Cardinality(Waiting) + 1
        BY ZenonT(60), <3>2, <3>3, <3>8
      <4> QED BY ZenonT(60), <3>4, <3>5, <3>6, <3>7, <4>1, OneMore DEF LInv, LossShape, LossesCounted
    <3>9. CASE ~(unsent[d] \in Down /\ LastKnown \notin Down)
      <4>1. losses' = losses /\ Cardinality(Waiting') = Cardinality(Waiting) + 0
        BY ZenonT(60), <3>2, <3>3, <3>9
      <4> QED BY ZenonT(60), <3>4, <3>5, <3>6, <3>7, <4>1, OneMore DEF LInv, LossShape, LossesCounted
    <3> QED BY ZenonT(60), <3>8, <3>9
  <2>5. LossesCounted'
    BY ZenonT(60), <2>4 DEF LossesCounted, Counted
  <2> QED BY ZenonT(60), <2>3, <2>5 DEF LossShape
<1> QED BY ZenonT(60), <1>2, <1>3

LEMMA LossStep == LInv /\ [Next]_vars => LossShape'
<1> SUFFICES ASSUME LInv, [Next]_vars PROVE LossShape'
  BY ZenonT(60)
<1>1. CASE UNCHANGED <<pc, report, relay, sampled, losses>>
  BY ZenonT(60), <1>1, LossKept DEF LInv
<1>2. CASE ArmNet
  <2>1. pc = "select" /\ pc' = "route" /\ UNCHANGED <<report, relay, sampled, losses>>
    BY ZenonT(60), <1>2 DEF ArmNet, observers
  <2> QED BY ZenonT(60), <2>1, LossKept DEF LInv
<1>3. CASE ArmSuperseded \/ ArmClosed \/ Resubscribe
  <2>1. pc' \in {"ended", "resub"}
    BY ZenonT(60), <1>3 DEF ArmSuperseded, ArmClosed, Resubscribe
  <2> QED BY ZenonT(60), <2>1 DEF LossShape, NothingLost, ReportFollows, LossesCounted, Counted
<1>4. \/ UNCHANGED <<pc, report, relay, sampled, losses>>
      \/ Setup \/ ArmNet \/ ArmSuperseded \/ ArmClosed \/ Resubscribe \/ ArmEvent
      \/ FollowRelay \/ FollowPaths \/ \E d \in Driver : SendEvent(d)
  BY ZenonT(60) DEF Next, Arm, Turn, Writer, Reader, Relays, Application, Surroundings, vars,
     observers, WriteFirst, WriteRequest, ReadPunchNow, ReadGarbage, ReadCandidates,
     RequestDirect, Reannounce, HeardOn, SetStatus, Close, TakeOver, Pong, IfacesChange,
     PollIfaces, ProofAges
<1> QED BY ZenonT(60), <1>1, <1>2, <1>3, <1>4, LossSetup, LossEvent, LossRelay, LossPaths, LossSend DEF Setup

FInv == CInv /\ LInv /\ ControlTypes /\ TimerTypes

LEMMA FollowedInit == Init => FInv
<1> SUFFICES ASSUME Init PROVE FInv
  BY ZenonT(60)
<1>1. CInv
  BY ZenonT(60), ReportInit DEF Init, CInv, SentIsSet, Current, Driving
<1>2. ControlTypes
  <2>1. requests \in Seq({"Candidates", "PunchNow"})
    <3>1. requests = <<>>
      BY ZenonT(60) DEF Init
    <3> QED BY <3>1
  <2> QED BY ZenonT(60), <2>1 DEF Init, ControlTypes
<1>3. TimerTypes /\ OtherTypes
  <2>1. TimerTypes
    BY ZenonT(60) DEF Init, TimerTypes
  <2>2. left \in 0..MaxEvents /\ losses \in Nat
    <3>1. left = MaxEvents /\ losses = 0 /\ MaxEvents \in Nat
      BY ZenonT(60), CapsAssumption DEF Init
    <3> QED BY <3>1
  <2>3. OtherTypes
    BY ZenonT(60), <2>2 DEF Init, OtherTypes
  <2> QED BY ZenonT(60), <2>1, <2>3
<1>4. HistoryShape
  <2>1. history = [length |-> 1, lost |-> 0] /\ HistoryCap \in Nat \ {0}
    BY ZenonT(60), CapsAssumption DEF Init
  <2> QED BY <2>1 DEF HistoryShape
<1>5. LossShape
  BY ZenonT(60) DEF Init, LossShape, NothingLost, ReportFollows, LossesCounted, Counted
<1> QED BY ZenonT(60), <1>1, <1>2, <1>3, <1>4, <1>5 DEF FInv, LInv, CInv

LEMMA FollowedStep == FInv /\ [Next]_vars => FInv'
<1> SUFFICES ASSUME FInv, [Next]_vars PROVE FInv'
  BY ZenonT(60)
<1>1. CInv' /\ ControlTypes' /\ TimerTypes' /\ LossShape'
  BY ZenonT(60), CurrentStep, ControlStep, TimerStep, LossStep DEF FInv
<1>2. RInv' /\ OtherTypes' /\ HistoryShape'
  BY ZenonT(60), <1>1, OtherStep, HistoryStep DEF FInv, LInv, RInv, CInv
<1> QED BY ZenonT(60), <1>1, <1>2 DEF FInv, LInv

\* The report is a status: after its end too.
StatusType == status \in Path!Statuses

\* drive follows its relay driver, for any drivers and any capacities: the last
\* event it reads is the driver's status, every loss of the relay session it was
\* sent is in the record or still to be acted on, and every variable stays in
\* its range (drive, set_status, transition).
THEOREM RelayFollowedCorrect == Spec => []RelayFollowed
<1>1. FInv /\ StatusType /\ [Next]_vars => StatusType'
  <2> SUFFICES ASSUME FInv, StatusType, [Next]_vars PROVE StatusType'
    BY ZenonT(60)
  <2>1. Path!Step \/ UNCHANGED report
    BY ZenonT(60), ReportStep DEF FInv, LInv
  <2>2. previous \in Path!Working
    BY ZenonT(60) DEF FInv, LInv, RInv, ReportShape
  <2>3. \/ status' = status
        \/ status' \in {"Relayed", "Probing", "Direct", "Reconnecting", previous}
        \/ status' \in Path!Failures
    BY ZenonT(60), <2>1 DEF report, Path!Step, Path!HandshakeDone, Path!RoundStarts,
       Path!RoundFails, Path!Proved, Path!ProofLost, Path!RelayLost, Path!RelayBack, Path!Fail,
       Path!Move
  <2> QED BY ZenonT(60), <2>2, <2>3, WorkingFacts DEF StatusType
<1>2. FInv /\ StatusType => TypeOK
  BY ZenonT(60) DEF FInv, LInv, RInv, CInv, RelayTypes, ReportShape, Live, ControlTypes, TimerTypes,
     OtherTypes, HistoryShape, StatusType, TypeOK
<1>3. FInv => RelayStateCurrent
  BY ZenonT(60) DEF FInv, CInv, Current, RelayStateCurrent, LastKnown, Sampling
<1>4. FInv => LossesRecorded
  <2> SUFFICES ASSUME FInv, pc = "select" /\ ~sampled /\ ~lagged /\ history.length < HistoryCap
      PROVE  losses = history.lost + Cardinality(Waiting)
    BY ZenonT(60) DEF LossesRecorded, Waiting
  <2>1. losses = history.lost + Unacted + Cardinality(Waiting)
    BY ZenonT(60) DEF FInv, LInv, LossShape, LossesCounted, Counted
  <2>2. relayState \in Down <=> status = "Reconnecting"
    BY ZenonT(60) DEF FInv, LInv, LossShape, ReportFollows
  <2>3. Unacted = 0
    BY ZenonT(60), <2>2 DEF Unacted
  <2>4. history.lost \in Nat
    BY CapsAssumption DEF FInv, LInv, HistoryShape
  <2> QED BY <2>1, <2>3, <2>4
<1>5. Init => StatusType
  BY ZenonT(60), WorkingFacts DEF Init, StatusType
<1> QED BY <1>1, <1>2, <1>3, <1>4, <1>5, FollowedInit, FollowedStep, PTL DEF Spec, RelayFollowed
=============================================================================
