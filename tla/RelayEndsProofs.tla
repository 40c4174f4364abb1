--------------------------- MODULE RelayEndsProofs ---------------------------
(***************************************************************************)
(* Proofs about a node's end of its connections: the relay driver, for any *)
(* list of relays, any durations and any number of changes; the browser's  *)
(* relay sockets and their receive queue, for any number of sockets and    *)
(* messages and any bounds; and blobs, for any number of fetches.          *)
(***************************************************************************)
EXTENDS RelayDriver, Streams, Integers, FiniteSetTheorems, WellFoundedInduction, TLAPS

(* Sequences and their positions.                                          *)

LEMMA Appended ==
  ASSUME NEW S, NEW q \in Seq(S), NEW m \in S
  PROVE  /\ Len(q) \in Nat /\ Append(q, m) \in Seq(S) /\ Len(Append(q, m)) = Len(q) + 1
         /\ \A i \in 1..Len(q) : Append(q, m)[i] = q[i]
         /\ Append(q, m)[Len(q) + 1] = m
  OBVIOUS

LEMMA Popped ==
  ASSUME NEW S, NEW q \in Seq(S), q # <<>>
  PROVE  /\ Len(q) \in Nat \ {0} /\ Head(q) = q[1] /\ q[1] \in S
         /\ Tail(q) \in Seq(S) /\ Len(Tail(q)) = Len(q) - 1
         /\ Len(Tail(q)) \in Nat /\ Len(Tail(q)) <= Len(q)
         /\ \A i \in 1..(Len(q) - 1) : Tail(q)[i] = q[i + 1]
  OBVIOUS

LEMMA Joined ==
  ASSUME NEW S, NEW r \in Seq(S), NEW q \in Seq(S)
  PROVE  /\ DOMAIN (r \o q) = 1..(Len(r) + Len(q)) /\ Len(r) \in Nat /\ Len(q) \in Nat
         /\ \A i \in 1..Len(r) : (r \o q)[i] = r[i]
         /\ \A i \in 1..Len(q) : (r \o q)[Len(r) + i] = q[i]
  OBVIOUS

LEMMA Domain ==
  ASSUME NEW S, NEW q \in Seq(S)
  PROVE  Len(q) \in Nat /\ DOMAIN q = 1..Len(q) /\ \A i \in 1..Len(q) : q[i] \in S
  OBVIOUS

\* One position more.
LEMMA Grown ==
  ASSUME NEW n \in Nat
  PROVE  /\ \A i \in 1..(n + 1) : i \in 1..n \/ i = n + 1
         /\ n + 1 \in 1..(n + 1) /\ ~(n + 1 < n + 1)
         /\ \A i \in 1..n : i \in 1..(n + 1) /\ i < n + 1 /\ ~(n + 1 < i)
  OBVIOUS

\* One position less.
LEMMA Shrunk ==
  ASSUME NEW n \in Nat \ {0}
  PROVE  /\ 1 \in 1..n
         /\ \A i \in 1..(n - 1) : i + 1 \in 1..n /\ 1 < i + 1
         /\ \A i, j \in 1..(n - 1) : i < j => i + 1 < j + 1
         /\ \A j \in 1..n : j = 1 \/ (j - 1 \in 1..(n - 1) /\ (j - 1) + 1 = j)
  OBVIOUS

\* A position of a concatenation is one of its parts.
LEMMA Halves ==
  ASSUME NEW l \in Nat, NEW n \in Nat
  PROVE  /\ \A i \in 1..(l + n) : \/ i \in 1..l
                                  \/ i > l /\ i - l \in 1..n /\ l + (i - l) = i
         /\ \A i \in 1..l : i \in 1..(l + n)
         /\ \A i \in 1..n : l + i \in 1..(l + n)
         /\ \A i \in 1..(l + n), j \in 1..l : i < j => i \in 1..l
         /\ \A i, j \in 1..(l + n) : i < j => i - l < j - l
  OBVIOUS

(***************************************************************************)
(* The driver of a relay connection.                                       *)
(***************************************************************************)
\* The conjuncts of TypeOK, the Boolean ones apart.
Flags == tagMode \in BOOLEAN /\ empty \in BOOLEAN /\ ticked \in BOOLEAN /\ stop \in BOOLEAN
Values ==
  /\ pc \in Labels /\ index \in 0..(Relays - 1) /\ status \in Statuses
  /\ backoff \in 1..BackoffMax /\ timer \in Nat \cup {None}
  /\ downFor \in (0..Cap) \cup {None} /\ outage \in 0..Cap
  /\ book \in Nat /\ announced \in 0..book
  /\ noticed \in 0..announced /\ lastVersion \in 0..announced
  /\ epoch \in Nat /\ lastEpoch \in 0..epoch
  /\ reg \in 0..book /\ regEpoch \in 0..epoch

LEMMA TypeParts == TypeOK <=> Flags /\ Values
  BY ZenonT(60) DEF TypeOK, Flags, Values

\* RegistrationFollows, from the first Register on.
Following ==
  pc \in {"sent", "pump"} /\ reg # book => announced < book \/ noticed # announced

\* Between Register and welcome an epoch turns at most once; pump's last_epoch
\* is at most one ahead of what was registered.
EpochShape ==
  /\ pc = "sent" => epoch <= regEpoch + 1 /\ (ticked => epoch = regEpoch)
  /\ pc = "pump" => lastEpoch <= regEpoch + 1 /\ (ticked => epoch <= regEpoch + 1)

\* The clock of the deadline never runs ahead of the outage while a driver
\* looks for a relay.
OutageShape ==
  /\ InSession => status = "Up"
  /\ downFor # None /\ pc \notin {"pump", "snapshot", "returned", "stopped"} =>
       downFor <= outage

IInv == TypeOK /\ Following /\ EpochShape /\ OutageShape /\ FailedMeansOutage

LEMMA CapType == Cap \in Nat /\ LongestOutage \in Nat /\ Deadline < Cap
  BY TimesAssumption DEF Cap, LongestOutage

LEMMA LaterType ==
  ASSUME NEW t \in 0..Cap PROVE Later(t) \in 0..Cap /\ t <= Later(t)
  BY CapType DEF Later

LEMMA DoubledType ==
  ASSUME NEW b \in 1..BackoffMax PROVE Doubled(b) \in 1..BackoffMax
  BY TimesAssumption DEF Doubled

LEMMA NextRelayType ==
  ASSUME index \in 0..(Relays - 1), NextRelay PROVE index' \in 0..(Relays - 1)
  BY RelaysAssumption DEF NextRelay

LEMMA InitInv == Init => IInv
<1> SUFFICES ASSUME Init PROVE IInv
  BY ZenonT(60)
<1>1. Values
  BY CapType, RelaysAssumption, TimesAssumption DEF Init, Values, Labels, Statuses
<1>2. Flags
  BY ZenonT(60) DEF Init, Flags
<1> QED BY ZenonT(60), <1>1, <1>2, TypeParts DEF Init, IInv, Following, EpochShape, OutageShape, InSession,
                    FailedMeansOutage

-----------------------------------------------------------------------------
LEMMA FlagsStep == ASSUME Flags, [Next]_vars PROVE Flags'
<1> USE DEF Flags, timing, material, noted, held, clock
<1>1. CASE Next
  BY ZenonT(60), <1>1, ZenonT(60) DEF Next, Connect, Pump, Others, Idle, Attempt, Challenge, SendHello,
     Welcome, Fails, WakeUp, Refresh, Changed, Register, PumpLost, PumpSuperseded,
     Close, Stopped, WriteBook, Bump, EpochTurns, Tick
<1>2. CASE UNCHANGED vars
  BY ZenonT(60), <1>2 DEF vars
<1> QED BY ZenonT(60), <1>1, <1>2

LEMMA ValuesStep == ASSUME Values, [Next]_vars PROVE Values'
<1> USE DEF Labels, Statuses, timing, material, noted, held, clock
<1>1. CASE Idle
  <2>1. 0 \in 0..Cap
    BY CapType
  <2> QED BY ZenonT(60), <1>1, <2>1, 1 \in Nat DEF Values, Idle
<1>2. CASE Attempt
  <2>1. announced \in 0..announced /\ ConnectTimeout \in Nat
    BY TimesAssumption DEF Values
  <2> QED BY ZenonT(60), <1>2, <2>1 DEF Values, Attempt
<1>3. CASE Challenge
  BY ZenonT(60), <1>3 DEF Values, Challenge
<1>4. CASE SendHello
  <2>1. book \in 0..book /\ epoch \in 0..epoch
    BY DEF Values
  <2> QED BY ZenonT(60), <1>4, <2>1 DEF Values, SendHello
<1>5. CASE Welcome
  <2>1. epoch \in 0..epoch /\ announced \in 0..announced
    BY DEF Values
  <2>2. 1 \in 1..BackoffMax /\ 0 \in 0..Cap
    BY CapType, TimesAssumption
  <2> QED BY ZenonT(60), <1>5, <2>1, <2>2 DEF Values, Welcome
<1>6. CASE WakeUp
  BY ZenonT(60), <1>6 DEF Values, WakeUp
<1>7. CASE Fails
  <2>1. backoff' \in 1..BackoffMax /\ index' \in 0..(Relays - 1)
    BY ZenonT(60), <1>7, DoubledType, NextRelayType DEF Values, Fails
  <2>2. 0 \in 0..Cap /\ backoff \in Nat
    BY CapType, TimesAssumption DEF Values
  <2>3. downFor' \in (0..Cap) \cup {None} /\ timer' \in Nat
    BY ZenonT(60), <1>7, <2>2 DEF Values, Fails
  <2> QED BY ZenonT(60), <1>7, <2>1, <2>3 DEF Values, Fails
<1>8. CASE Refresh \/ Changed
  <2>1. epoch \in 0..epoch /\ announced \in 0..announced
    BY DEF Values
  <2> QED BY ZenonT(60), <1>8, <2>1 DEF Values, Refresh, Changed
<1>9. CASE Register
  <2>1. book \in 0..book /\ epoch \in 0..epoch
    BY DEF Values
  <2> QED BY ZenonT(60), <1>9, <2>1 DEF Values, Register
<1>10. CASE PumpLost \/ PumpSuperseded
  <2>1. index' \in 0..(Relays - 1)
    BY ZenonT(60), <1>10, NextRelayType DEF Values, PumpLost, PumpSuperseded
  <2>2. 0 \in 0..Cap /\ BackoffMax \in Nat
    BY CapType, TimesAssumption
  <2> QED BY ZenonT(60), <1>10, <2>1, <2>2 DEF Values, PumpLost, PumpSuperseded
<1>11. CASE Close \/ Stopped
  BY ZenonT(60), <1>11 DEF Values, Close, Stopped
<1>12. CASE WriteBook
  <2>1. book + 1 \in Nat /\ announced \in 0..(book + 1) /\ reg \in 0..(book + 1)
    BY DEF Values
  <2> QED BY ZenonT(60), <1>12, <2>1 DEF Values, WriteBook
<1>13. CASE Bump
  <2>1. ASSUME announced < book
        PROVE  /\ announced + 1 \in 0..book /\ noticed \in 0..(announced + 1)
               /\ lastVersion \in 0..(announced + 1)
    BY <2>1 DEF Values
  <2> QED BY ZenonT(60), <1>13, <2>1 DEF Values, Bump
<1>14. CASE EpochTurns
  <2>1. epoch + 1 \in Nat /\ lastEpoch \in 0..(epoch + 1) /\ regEpoch \in 0..(epoch + 1)
    BY DEF Values
  <2> QED BY ZenonT(60), <1>14, <2>1 DEF Values, EpochTurns
<1>15. CASE Tick
  <2>1. timer # None /\ timer # 0 => timer - 1 \in Nat
    BY DEF Values
  <2>2. timer' \in Nat \cup {None}
    BY ZenonT(60), <1>15, <2>1 DEF Tick
  <2>3. 0 \in 0..Cap
    BY CapType
  <2>4. downFor' \in (0..Cap) \cup {None} /\ outage' \in 0..Cap
    BY ZenonT(60), <1>15, <2>3, LaterType DEF Values, Tick
  <2> QED BY ZenonT(60), <1>15, <2>2, <2>4 DEF Values, Tick
<1>16. CASE UNCHANGED vars
  BY ZenonT(60), <1>16 DEF Values, vars
<1> QED BY ZenonT(60), <1>1, <1>2, <1>3, <1>4, <1>5, <1>6, <1>7, <1>8, <1>9, <1>10, <1>11,
        <1>12, <1>13, <1>14, <1>15, <1>16 DEF Next, Connect, Pump, Others

\* What a registration misses has been announced, or will be.
LEMMA FollowingStep == ASSUME Values, Following, [Next]_vars PROVE Following'
<1> USE DEF Following, timing, material, noted, held, clock
<1>1. CASE \/ Idle \/ Attempt \/ Challenge \/ SendHello \/ Welcome \/ Fails \/ WakeUp
  BY ZenonT(60), <1>1 DEF Idle, Attempt, Challenge, SendHello, Welcome, Fails, WakeUp
<1>2. CASE Refresh \/ Changed
  <2>1. pc = "pump" /\ UNCHANGED <<reg, book, announced>> /\ (UNCHANGED noticed \/ pc' = "snapshot")
    BY ZenonT(60), <1>2 DEF Refresh, Changed
  <2> QED BY ZenonT(60), <2>1
<1>3. CASE Register \/ PumpLost \/ PumpSuperseded
  BY ZenonT(60), <1>3 DEF Register, PumpLost, PumpSuperseded
<1>4. CASE Close \/ Stopped \/ EpochTurns \/ Tick
  BY ZenonT(60), <1>4 DEF Close, Stopped, EpochTurns, Tick
<1>5. CASE WriteBook
  <2>1. announced < book + 1
    BY DEF Values
  <2> QED BY ZenonT(60), <1>5, <2>1 DEF WriteBook
<1>6. CASE Bump
  <2>1. noticed # announced + 1
    BY DEF Values
  <2> QED BY ZenonT(60), <1>6, <2>1 DEF Bump
<1>7. CASE UNCHANGED vars
  BY ZenonT(60), <1>7 DEF vars
<1> QED BY ZenonT(60), <1>1, <1>2, <1>3, <1>4, <1>5, <1>6, <1>7 DEF Next, Connect, Pump, Others

LEMMA EpochStep == ASSUME Values, EpochShape, [Next]_vars PROVE EpochShape'
<1> USE DEF EpochShape, timing, material, noted, held, clock
<1>e. epoch <= epoch + 1
  BY DEF Values
<1>1. CASE Idle \/ Attempt \/ Challenge \/ SendHello
  BY ZenonT(60), <1>1, <1>e DEF Idle, Attempt, Challenge, SendHello
<1>2. CASE Welcome
  BY ZenonT(60), <1>2 DEF Welcome
<1>3. CASE Fails \/ WakeUp \/ PumpLost \/ PumpSuperseded
  BY ZenonT(60), <1>3 DEF Fails, WakeUp, PumpLost, PumpSuperseded
<1>4. CASE Refresh
  <2>1. epoch = lastEpoch /\ lastEpoch <= regEpoch + 1 => epoch <= regEpoch + 1
    OBVIOUS
  <2> QED BY ZenonT(60), <1>4, <2>1 DEF Refresh
<1>5. CASE Changed
  BY ZenonT(60), <1>5 DEF Changed
<1>6. CASE Register
  <2>1. lastEpoch <= epoch + 1
    BY DEF Values
  <2> QED BY ZenonT(60), <1>6, <1>e, <2>1 DEF Register
<1>7. CASE Close \/ Stopped \/ WriteBook \/ Bump \/ Tick
  <2>1. UNCHANGED <<lastEpoch, regEpoch, epoch, ticked>> /\ (UNCHANGED pc \/ pc' = "stopped")
    BY ZenonT(60), <1>7 DEF Close, Stopped, WriteBook, Bump, Tick
  <2> QED BY ZenonT(60), <2>1
<1>8. CASE EpochTurns
  <2>1. epoch = regEpoch => epoch + 1 <= regEpoch + 1
    BY DEF Values
  <2> QED BY ZenonT(60), <1>8, <2>1 DEF EpochTurns, InSession
<1>9. CASE UNCHANGED vars
  BY ZenonT(60), <1>9 DEF vars
<1> QED BY ZenonT(60), <1>1, <1>2, <1>3, <1>4, <1>5, <1>6, <1>7, <1>8, <1>9
        DEF Next, Connect, Pump, Others

LEMMA OutageStep ==
  ASSUME Values, OutageShape, FailedMeansOutage, [Next]_vars
  PROVE  (OutageShape /\ FailedMeansOutage)'
<1> USE NoneAssumption, TimesAssumption, CapType
    DEF Values, OutageShape, FailedMeansOutage, InSession,
        timing, material, noted, held, clock
<1>1. CASE Idle \/ Attempt \/ Challenge \/ SendHello \/ Welcome \/ WakeUp
  BY ZenonT(60), <1>1 DEF Idle, Attempt, Challenge, SendHello, Welcome, WakeUp
<1>2. CASE Fails
  BY <1>2 DEF Fails, Connecting
<1>3. CASE Refresh \/ Changed \/ Register
  <2>1. UNCHANGED <<status, downFor, outage>> /\ InSession /\ InSession'
    BY ZenonT(60), <1>3 DEF Refresh, Changed, Register
  <2> QED BY ZenonT(60), <2>1
<1>4. CASE PumpLost \/ PumpSuperseded
  BY <1>4 DEF PumpLost, PumpSuperseded
<1>7. CASE Close \/ WriteBook \/ Bump \/ EpochTurns
  <2>1. UNCHANGED <<pc, status, downFor, outage>>
    BY ZenonT(60), <1>7 DEF Close, WriteBook, Bump, EpochTurns
  <2> QED BY ZenonT(60), <2>1
<1>8. CASE Stopped
  <2>1. UNCHANGED <<downFor, outage>> /\ pc' = "stopped"
    BY ZenonT(60), <1>8 DEF Stopped
  <2> QED BY ZenonT(60), <2>1
<1>5. CASE Tick
  BY <1>5 DEF Tick, Later
<1>6. CASE UNCHANGED vars
  BY ZenonT(60), <1>6 DEF vars
<1> QED BY ZenonT(60), <1>1, <1>2, <1>3, <1>4, <1>5, <1>6, <1>7, <1>8 DEF Next, Connect, Pump, Others

-----------------------------------------------------------------------------
\* IInv is inductive.
THEOREM DriverInvariant == Spec => []IInv
<1>1. ASSUME IInv, [Next]_vars PROVE IInv'
  <2>1. TypeOK'
    BY ZenonT(60), <1>1, FlagsStep, ValuesStep, TypeParts DEF IInv, TypeOK, Flags, Values
  <2> QED BY ZenonT(60), <1>1, <2>1, TypeParts, FollowingStep, EpochStep, OutageStep DEF IInv
<1> QED BY InitInv, <1>1, PTL DEF Spec

\* Every variable stays in its range, the backoff below BACKOFF_MAX and the
\* index within the list of relays included.
THEOREM TypeCorrect == Spec => []TypeOK
<1>1. IInv => TypeOK
  BY ZenonT(60) DEF IInv
<1> QED BY DriverInvariant, <1>1, PTL

\* On a live session no write of the tag book is lost, whatever the interleaving
\* of writers, bump, connect and pump, and after the tick that follows the turn
\* of an epoch the relay holds the tags of the current one.
THEOREM RegistrationCurrentCorrect == Spec => []RegistrationCurrent
<1>1. IInv => RegistrationCurrent
  BY ZenonT(60) DEF IInv, Following, EpochShape, RegistrationFollows, CurrentEpochHeld, RegistrationCurrent
<1> QED BY DriverInvariant, <1>1, PTL

-----------------------------------------------------------------------------
(* The deadline.                                                           *)

Searching == pc \in {"top", "wait", "open", "challenged", "sent"}

\* How much longer the driver waits, counted from the start of the attempt.
Left == IF pc = "wait" THEN timer ELSE IF pc = "top" THEN 0 ELSE timer - ConnectTimeout

Timers ==
  /\ pc = "wait" => timer \in 0..BackoffMax
  /\ Connecting => timer \in 0..ConnectTimeout

\* Before the first failure of an outage only an idle pause and one attempt pass;
\* after it down_since runs, at most that far behind the outage, and the driver
\* waits no longer than the backoff past the deadline before it tries again.
Window ==
  Searching /\ status # "Failed" =>
    /\ downFor = None => outage + Left <= 1
    /\ downFor # None => /\ outage <= downFor + 1 + ConnectTimeout
                         /\ downFor + Left <= Deadline + BackoffMax

Ended ==
  /\ InSession => outage = 0 /\ timer = None
  /\ pc = "returned" => status = "Superseded"
  /\ pc = "stopped" => status = "Failed"
  /\ Searching /\ status = "Failed" => downFor # None /\ downFor > Deadline

DInv == Timers /\ Window /\ Ended

LEMMA DeadlineStep == IInv /\ DInv /\ [Next]_vars => DInv'
<1> SUFFICES ASSUME IInv, DInv, [Next]_vars PROVE DInv'
  BY ZenonT(60)
<1> USE TimesAssumption, NoneAssumption
<1>t. Values /\ OutageShape
  BY ZenonT(60), TypeParts DEF IInv
<1>v. /\ pc \in Labels /\ backoff \in 1..BackoffMax /\ timer \in Nat \cup {None}
      /\ downFor \in (0..Cap) \cup {None} /\ outage \in 0..Cap /\ status \in Statuses
  BY ZenonT(60), <1>t DEF Values
<1>d. Timers /\ Window /\ Ended
  BY ZenonT(60) DEF DInv
<1>c. Cap \in Nat /\ Cap = 2 + ConnectTimeout + Deadline + BackoffMax + ConnectTimeout
  BY DEF Cap, LongestOutage
<1>1. CASE UNCHANGED <<pc, status, timer, downFor, outage>>
  BY ZenonT(60), <1>1, <1>d DEF DInv, Timers, Window, Ended, Searching, Left, Connecting, InSession
<1>2. CASE Idle
  BY <1>2 DEF Idle, DInv, Timers, Window, Ended, Searching, Left, Connecting, InSession
<1>3. CASE Attempt
  BY <1>3, <1>d, <1>v DEF Attempt, DInv, Timers, Window, Ended, Searching, Left, Connecting,
     InSession
<1>4. CASE Challenge \/ SendHello
  BY ZenonT(60), <1>4, <1>d, <1>v DEF Challenge, SendHello, timing, DInv, Timers, Window, Ended, Searching,
     Left, Connecting, InSession
<1>5. CASE Welcome
  BY ZenonT(60), <1>5 DEF Welcome, DInv, Timers, Window, Ended, Searching, Left, Connecting, InSession
<1>6. CASE Fails
  <2> DEFINE since == IF downFor = None THEN 0 ELSE downFor
  <2>1. /\ Connecting /\ pc' = "wait" /\ timer' = backoff /\ downFor' = since
        /\ status' = IF since > Deadline THEN "Failed" ELSE "Reconnecting"
        /\ outage' = outage
    BY ZenonT(60), <1>6 DEF Fails
  <2>2. timer \in 0..ConnectTimeout /\ Left = timer - ConnectTimeout /\ Searching
    BY ZenonT(60), <2>1, <1>d DEF Timers, Left, Connecting, Searching
  <2>3. since \in 0..Cap
    BY <1>v, <1>c
  <2>4. status = "Failed" => since > Deadline
    BY ZenonT(60), <2>2, <1>d DEF Ended
  <2>5. status # "Failed" => outage <= since + 1 + ConnectTimeout
    BY <2>2, <1>d, <1>v DEF Window
  <2>6. Timers'
    BY <2>1, <1>v DEF Timers, Connecting
  <2>7. Ended'
    BY <2>1, <2>3 DEF Ended, InSession, Searching
  <2>8. Window'
    <3>1. CASE since > Deadline
      BY ZenonT(60), <3>1, <2>1 DEF Window
    <3>2. CASE ~(since > Deadline)
      <4>1. downFor' # None /\ Left' = backoff
        BY <2>1, <2>3 DEF Left
      <4>2. outage' <= downFor' + 1 + ConnectTimeout /\ downFor' + Left' <= Deadline + BackoffMax
        BY <3>2, <4>1, <2>1, <2>3, <2>4, <2>5, <1>v
      <4> QED BY ZenonT(60), <4>1, <4>2 DEF Window
    <3> QED BY ZenonT(60), <3>1, <3>2
  <2> QED BY ZenonT(60), <2>6, <2>7, <2>8 DEF DInv
<1>7. CASE WakeUp
  BY ZenonT(60), <1>7, <1>d, <1>v DEF WakeUp, DInv, Timers, Window, Ended, Searching, Left,
     Connecting, InSession
<1>8. CASE Refresh \/ Changed \/ Register
  BY ZenonT(60), <1>8, <1>d DEF Refresh, Changed, Register, timing, DInv, Timers, Window, Ended,
     Searching,
        Left, Connecting, InSession
<1>9. CASE PumpLost
  BY SMTT(30), <1>9, <1>d DEF PumpLost, DInv, Timers, Window, Ended, Searching, Left, Connecting,
     InSession
<1>10. CASE PumpSuperseded
  BY SMTT(30), <1>10, <1>d DEF PumpSuperseded, DInv, Timers, Window, Ended, Searching, Left,
     Connecting, InSession
<1>11. CASE Stopped
  BY ZenonT(60), <1>11 DEF Stopped, DInv, Timers, Window, Ended, Searching, Connecting, InSession
<1>12. CASE Others
  BY ZenonT(60), <1>12, <1>1 DEF Others, Close, WriteBook, Bump, EpochTurns, timing
<1>13. CASE Tick
  <2>1. /\ UNCHANGED <<pc, status>> /\ pc \notin {"top", "snapshot", "returned", "stopped"}
        /\ timer # 0 /\ timer' = IF timer = None THEN None ELSE timer - 1
        /\ downFor' = IF downFor = None THEN None ELSE Later(downFor)
        /\ outage' = IF InSession THEN 0 ELSE Later(outage)
    BY ZenonT(60), <1>13 DEF Tick
  <2>2. /\ outage < Cap => Later(outage) = outage + 1
        /\ outage = Cap => Later(outage) = Cap
        /\ downFor # None => /\ downFor < Cap => Later(downFor) = downFor + 1
                             /\ downFor = Cap => Later(downFor) = Cap
    BY <1>v, <1>c DEF Later
  <2>3. CASE InSession
    BY ZenonT(60), <2>1, <2>3, <1>d DEF DInv, Timers, Window, Ended, Searching, Connecting, InSession
  <2>4. CASE ~InSession
    <3>1. pc \in {"wait", "open", "challenged", "sent"} /\ Searching
      BY ZenonT(60), <2>1, <2>4, <1>v DEF Labels, InSession, Searching
    <3>2. timer \in Nat \ {0} /\ timer' = timer - 1 /\ Left' = Left - 1
      BY <2>1, <3>1, <1>d DEF Timers, Left, Connecting
    <3>3. Timers'
      BY <2>1, <3>2, <1>d DEF Timers, Connecting
    <3>4. Ended'
      BY <2>1, <2>2, <2>4, <3>1, <1>d, <1>v, <1>c DEF Ended, InSession, Searching
    <3>5. Left \in Int
      BY <3>1, <3>2 DEF Left
    <3>6. ASSUME status # "Failed", downFor = None
          PROVE  downFor' = None /\ outage' + Left' <= 1
      BY <3>6, <2>1, <2>2, <2>4, <3>1, <3>2, <3>5, <1>d, <1>v, <1>c DEF Window
    <3>7. ASSUME status # "Failed", downFor # None
          PROVE  /\ downFor' # None /\ outage' <= downFor' + 1 + ConnectTimeout
                 /\ downFor' + Left' <= Deadline + BackoffMax
      <4>1. /\ outage <= downFor + 1 + ConnectTimeout
            /\ downFor + Left <= Deadline + BackoffMax
        BY ZenonT(60), <3>1, <3>7, <1>d DEF Window
      <4>2. outage' = Later(outage) /\ downFor' = Later(downFor) /\ downFor \in 0..Cap
        BY ZenonT(60), <2>1, <2>4, <3>7, <1>v
      <4> QED BY <4>1, <4>2, <2>2, <3>2, <3>5, <3>7, <1>v, <1>c
    <3>8. Window'
      BY ZenonT(60), <3>6, <3>7, <2>1 DEF Window
    <3> QED BY ZenonT(60), <3>3, <3>4, <3>8 DEF DInv
  <2> QED BY ZenonT(60), <2>3, <2>4
<1> QED BY ZenonT(60), <1>1, <1>2, <1>3, <1>4, <1>5, <1>6, <1>7, <1>8, <1>9, <1>10, <1>11, <1>12, <1>13
        DEF Next, Connect, Pump, vars, timing

LEMMA DeadlineImplied == IInv /\ DInv => FailureIsTimely
<1> SUFFICES ASSUME IInv, DInv, outage > LongestOutage, status \notin {"Failed", "Superseded"}
             PROVE  FALSE
  BY ZenonT(60) DEF FailureIsTimely
<1> USE TimesAssumption, NoneAssumption
<1>1. /\ pc \in Labels /\ timer \in Nat \cup {None}
      /\ downFor \in (0..Cap) \cup {None} /\ outage \in 0..Cap
  BY ZenonT(60), TypeParts DEF IInv, Values
<1>2. Cap \in Nat /\ LongestOutage = 1 + ConnectTimeout + Deadline + BackoffMax + ConnectTimeout
  BY ZenonT(60), CapType DEF LongestOutage
<1>3. Searching
  BY <1>1, <1>2 DEF DInv, Ended, Searching, InSession, Labels
<1>4. Left \in Int /\ Left >= -ConnectTimeout
  BY <1>1, <1>3 DEF DInv, Timers, Left, Searching, Connecting
<1> QED BY <1>1, <1>2, <1>3, <1>4 DEF DInv, Window

\* Failed means that there was no relay for the whole of RECONNECT_DEADLINE, and
\* it comes at the latest one backoff and one attempt after it, for any
\* durations: down_since and the test of the deadline after each attempt.
THEOREM FailureHonestCorrect == Spec => []FailureHonest
<1>1. Init => DInv
  BY TimesAssumption, NoneAssumption
     DEF Init, DInv, Timers, Window, Ended, Searching, Left, Connecting, InSession
<1>2. IInv /\ DInv /\ [Next]_vars => DInv'
  BY ZenonT(60), DeadlineStep
<1>3. IInv /\ DInv => FailureHonest
  BY ZenonT(60), DeadlineImplied DEF IInv, FailureHonest
<1> QED BY DriverInvariant, <1>1, <1>2, <1>3, PTL DEF Spec

(***************************************************************************)
(* The least of a set of numbers, and induction over the numbers in a set. *)
(***************************************************************************)
LEMMA Least ==
  ASSUME NEW T, T \subseteq Nat, T # {}
  PROVE  \E x \in T : \A y \in T : x <= y
<1> DEFINE R == {p \in Nat \X Nat : p[1] < p[2]}
<1>1. IsWellFoundedOn(R, Nat)
  BY ZenonT(60), NatLessThanWellFounded DEF OpToRel
<1> HIDE DEF R
<1>2. PICK x \in T : \A y \in T : ~ (<<y, x>> \in R)
  BY ZenonT(60), <1>1, WFMin
<1>3. \A y \in T : ~ (y < x)
  BY ZenonT(60), <1>2 DEF R
<1> QED BY <1>3, x \in T

LEMMA MinOf ==
  ASSUME NEW T, T \subseteq Nat, T # {}
  PROVE  Min(T) \in T /\ \A y \in T : Min(T) <= y
BY ZenonT(60), Least DEF Min

LEMMA Induction ==
  ASSUME NEW S, 0 \in S, \A n \in Nat : n \in S => n + 1 \in S
  PROVE  \A n \in Nat : n \in S
<1> SUFFICES ASSUME NEW m \in Nat, m \notin S PROVE FALSE
  BY ZenonT(60)
<1> DEFINE T == Nat \ S
<1>1. T \subseteq Nat /\ T # {}
  BY ZenonT(60)
<1> HIDE DEF T
<1>2. PICK x \in T : \A y \in T : x <= y
  BY ZenonT(60), <1>1, Least
<1>3. x \in Nat /\ x # 0 /\ x \notin S
  BY ZenonT(60), <1>2 DEF T
<1>4. x - 1 \in Nat /\ ~(x <= x - 1) /\ (x - 1) + 1 = x
  BY <1>3
<1>5. x - 1 \in S
  BY ZenonT(60), <1>2, <1>4 DEF T
<1> QED BY ZenonT(60), <1>3, <1>4, <1>5

(***************************************************************************)
(* Blobs.                                                                  *)
(***************************************************************************)
BlobTypes ==
  /\ fetch \in [Fetches -> {"idle", "requested", "body", "failed", "errored", "ended", "dropped"}]
  /\ server \in [Fetches -> {"none", "request", "newer", "garbage", "refused", "blob",
                             "finished", "silent"}]
  /\ declared \in [Fetches -> Nat] /\ got \in [Fetches -> Nat] /\ sent \in [Fetches -> Nat]
  /\ size \in [Fetches -> Nat] /\ holds \in [Fetches -> Nat]

\* Nothing is read before the header, the size a body was declared with is still
\* the one the server answered with, and the server sends nothing, and has no
\* size, before the source gave it a blob.
BlobShape ==
  \A f \in Fetches :
    /\ fetch[f] = "idle" => server[f] = "none"
    /\ fetch[f] \in {"idle", "requested"} => got[f] = 0
    /\ fetch[f] \in {"body", "ended"} =>
         declared[f] = size[f] /\ server[f] \in {"blob", "finished"}
    /\ server[f] \notin {"blob", "finished"} => sent[f] = 0

BInv == BlobTypes /\ BlobShape /\ ExactBody

LEMMA BlobRequest ==
  ASSUME BInv, NEW f \in Fetches, NEW owner, NEW kind \in {"request", "newer", "garbage"},
         Request(f, owner, kind)
  PROVE  BInv'
<1>1. /\ fetch[f] = "idle" /\ fetch' = [fetch EXCEPT ![f] = "requested"]
      /\ server' = [server EXCEPT ![f] = kind]
      /\ UNCHANGED <<declared, got, size, holds, sent>>
  BY ZenonT(60) DEF Request
<1>2. BlobTypes'
  BY ZenonT(60), <1>1 DEF BInv, BlobTypes
<1>3. BlobShape'
  BY ZenonT(60), <1>1 DEF BInv, BlobTypes, BlobShape
<1>4. ExactBody'
  BY ZenonT(60), <1>1 DEF BInv, BlobTypes, ExactBody
<1> QED BY ZenonT(60), <1>2, <1>3, <1>4 DEF BInv

LEMMA BlobFound ==
  ASSUME BInv, NEW f \in Fetches, NEW stated \in Nat, NEW real \in Nat,
         Found(f, stated, real)
  PROVE  BInv'
<1>1. /\ server[f] = "request" /\ server' = [server EXCEPT ![f] = "blob"]
      /\ size' = [size EXCEPT ![f] = stated] /\ holds' = [holds EXCEPT ![f] = real]
      /\ UNCHANGED <<fetch, declared, got, sent>>
  BY ZenonT(60) DEF Found, client
<1>2. BlobTypes'
  BY ZenonT(60), <1>1 DEF BInv, BlobTypes
<1>3. BlobShape'
  BY ZenonT(60), <1>1 DEF BInv, BlobTypes, BlobShape
<1>4. ExactBody'
  <2>1. fetch[f] # "ended" /\ sent[f] = 0 /\ 0 <= stated
    <3>1. 0 <= stated OBVIOUS
    <3> QED BY ZenonT(60), <1>1, <3>1 DEF BInv, BlobShape
  <2> QED BY ZenonT(60), <1>1, <2>1 DEF BInv, BlobTypes, ExactBody
<1> QED BY ZenonT(60), <1>2, <1>3, <1>4 DEF BInv

\* The server's other steps move it on and may add to what it sent.
LEMMA BlobServes ==
  ASSUME BInv, NEW f \in Fetches,
         \/ Refused(f) \/ NotFound(f) \/ BodyEnds(f) \/ SourceFails(f)
         \/ \E n \in 1..Chunk : SendPart(f, n)
  PROVE  BInv'
<1>1. /\ UNCHANGED <<fetch, declared, got, size, holds>>
      /\ fetch[f] \in {"requested", "body"}
  BY ZenonT(60) DEF Refused, NotFound, BodyEnds, SourceFails, SendPart, Served, client
<1>2. \/ /\ server[f] \in {"newer", "garbage", "request", "blob"} /\ sent' = sent
         /\ \/ server[f] # "blob" /\ server' = [server EXCEPT ![f] = "silent"]
            \/ server[f] # "blob" /\ server' = [server EXCEPT ![f] = "refused"]
            \/ server[f] = "blob" /\ server' = [server EXCEPT ![f] = "finished"]
      \/ \E n \in 1..Chunk : /\ server[f] = "blob" /\ server' = server /\ sent[f] + n <= size[f]
                             /\ sent' = [sent EXCEPT ![f] = @ + n]
  <2>1. CASE Refused(f) BY ZenonT(60), <2>1 DEF Refused, BInv, BlobTypes
  <2>2. CASE NotFound(f) BY ZenonT(60), <2>2 DEF NotFound, BInv, BlobTypes
  <2>3. CASE BodyEnds(f) BY ZenonT(60), <2>3 DEF BodyEnds, BInv, BlobTypes
  <2>4. CASE SourceFails(f) BY ZenonT(60), <2>4 DEF SourceFails, BInv, BlobTypes
  <2>5. ASSUME NEW n \in 1..Chunk, SendPart(f, n)
        PROVE  \/ sent' = sent /\ server[f] = "blob" /\ server' = [server EXCEPT ![f] = "finished"]
               \/ /\ server[f] = "blob" /\ server' = server /\ sent[f] + n <= size[f]
                  /\ sent' = [sent EXCEPT ![f] = @ + n]
    BY <2>5, BlossomBounds DEF SendPart, BInv, BlobTypes
  <2> QED BY ZenonT(60), <2>1, <2>2, <2>3, <2>4, <2>5
<1>a. ASSUME NEW n \in 1..Chunk
      PROVE  sent[f] + n \in Nat /\ (got[f] <= sent[f] => got[f] <= sent[f] + n)
  <2>1. sent[f] \in Nat /\ got[f] \in Nat /\ Chunk \in Nat
    BY ZenonT(60), BlossomBounds DEF BInv, BlobTypes
  <2> QED BY <2>1
<1>3. BlobTypes'
  BY ZenonT(60), <1>1, <1>2, <1>a DEF BInv, BlobTypes
<1>4. BlobShape'
  BY ZenonT(60), <1>1, <1>2 DEF BInv, BlobTypes, BlobShape
<1>5. ExactBody'
  BY ZenonT(60), <1>1, <1>2, <1>a DEF BInv, BlobTypes, BlobShape, ExactBody
<1> QED BY ZenonT(60), <1>3, <1>4, <1>5 DEF BInv

\* The client's steps move it on, read the header or read a part of the body.
LEMMA BlobFetches ==
  ASSUME BInv, NEW f \in Fetches, Fetching(f) \/ DropBody(f)
  PROVE  BInv'
<1>1. UNCHANGED <<server, size, holds, sent>>
  BY ZenonT(60) DEF Fetching, ReadHeader, HeaderFails, ReadBody, ReadFails, BodyDone, DropBody, serving
<1>2. CASE ReadHeader(f)
  <2>1. /\ fetch[f] = "requested" /\ server[f] \in {"blob", "finished"} /\ got' = got
        /\ declared' = [declared EXCEPT ![f] = size[f]]
        /\ \/ fetch' = [fetch EXCEPT ![f] = "body"]
           \/ fetch' = [fetch EXCEPT ![f] = "failed"]
    BY ZenonT(60), <1>2 DEF ReadHeader
  <2>2. BlobTypes' BY ZenonT(60), <1>1, <2>1 DEF BInv, BlobTypes
  <2>3. BlobShape' BY ZenonT(60), <1>1, <2>1 DEF BInv, BlobTypes, BlobShape
  <2>4. ExactBody'
    <3>1. size[f] \in Nat /\ (0 \in Nat => 0 <= size[f])
      <4>1. size[f] \in Nat BY ZenonT(60) DEF BInv, BlobTypes
      <4> QED BY <4>1
    <3>2. got[f] = 0 /\ got[f] <= size[f]
      <4>1. 0 \in Nat OBVIOUS
      <4> QED BY ZenonT(60), <2>1, <3>1, <4>1 DEF BInv, BlobShape
    <3> QED BY ZenonT(60), <1>1, <2>1, <3>2 DEF BInv, BlobTypes, ExactBody
  <2> QED BY ZenonT(60), <2>2, <2>3, <2>4 DEF BInv
<1>3. CASE ReadBody(f)
  <2>1. /\ fetch[f] = "body" /\ UNCHANGED <<fetch, declared>>
        /\ got' = [got EXCEPT ![f] = @ + Wanted(f)] /\ got[f] < declared[f]
        /\ sent[f] - got[f] >= Wanted(f)
    BY ZenonT(60), <1>3 DEF ReadBody
  <2>2. declared[f] \in Nat /\ got[f] \in Nat /\ sent[f] \in Nat /\ Chunk \in Nat
    BY ZenonT(60), BlossomBounds DEF BInv, BlobTypes
  <2>3. Wanted(f) \in Nat /\ Wanted(f) <= declared[f] - got[f]
    <3> DEFINE rest == declared[f] - got[f]
    <3>1. rest \in Nat /\ Chunk \in Nat
      BY <2>1, <2>2
    <3> HIDE DEF rest
    <3>2. /\ Min({rest, Chunk}) \in {rest, Chunk}
          /\ Min({rest, Chunk}) <= rest
      BY ZenonT(60), <3>1, MinOf
    <3>3. Wanted(f) = Min({rest, Chunk})
      BY ZenonT(60) DEF rest, Wanted
    <3>4. Wanted(f) \in Nat /\ Wanted(f) <= rest
      BY ZenonT(60), <3>1, <3>2, <3>3, <2>2
    <3> QED BY ZenonT(60), <3>4 DEF rest
  <2>a. /\ got[f] + Wanted(f) \in Nat /\ got[f] + Wanted(f) <= declared[f]
        /\ got[f] + Wanted(f) <= sent[f]
    BY <2>1, <2>2, <2>3
  <2>4. BlobTypes' BY ZenonT(60), <1>1, <2>1, <2>a DEF BInv, BlobTypes
  <2>5. BlobShape' BY ZenonT(60), <1>1, <2>1 DEF BInv, BlobTypes, BlobShape
  <2>6. ExactBody' BY ZenonT(60), <1>1, <2>1, <2>a DEF BInv, BlobTypes, ExactBody
  <2> QED BY ZenonT(60), <2>4, <2>5, <2>6 DEF BInv
<1>4. CASE HeaderFails(f) \/ ReadFails(f) \/ BodyDone(f) \/ DropBody(f)
  <2>1. /\ UNCHANGED <<declared, got>>
        /\ \/ /\ fetch[f] \in {"requested", "body"}
              /\ \E x \in {"failed", "errored", "dropped"} : fetch' = [fetch EXCEPT ![f] = x]
           \/ /\ fetch[f] = "body" /\ got[f] = declared[f]
              /\ fetch' = [fetch EXCEPT ![f] = "ended"]
    BY ZenonT(60), <1>4 DEF HeaderFails, ReadFails, BodyDone, DropBody
  <2>2. BlobTypes' BY ZenonT(60), <1>1, <2>1 DEF BInv, BlobTypes
  <2>3. BlobShape' BY ZenonT(60), <1>1, <2>1 DEF BInv, BlobTypes, BlobShape
  <2>a. fetch[f] = "body" /\ got[f] = declared[f] => declared[f] = size[f] /\ sent[f] = size[f]
    <3>1. got[f] \in Nat /\ sent[f] \in Nat /\ size[f] \in Nat /\ got[f] <= sent[f] /\ sent[f] <= size[f]
      BY ZenonT(60) DEF BInv, BlobTypes, ExactBody
    <3>2. got[f] = size[f] => sent[f] = size[f]
      BY <3>1
    <3> QED BY ZenonT(60), <3>2 DEF BInv, BlobShape
  <2>4. ExactBody' BY ZenonT(60), <1>1, <2>1, <2>a DEF BInv, BlobTypes, ExactBody
  <2> QED BY ZenonT(60), <2>2, <2>3, <2>4 DEF BInv
<1> QED BY ZenonT(60), <1>2, <1>3, <1>4 DEF Fetching

LEMMA BlobStutter ==
  ASSUME BInv, UNCHANGED <<fetch, declared, got, server, size, holds, sent>>
  PROVE  BInv'
BY ZenonT(60) DEF BInv, BlobTypes, BlobShape, ExactBody

LEMMA BlobStep ==
  ASSUME BInv, [StreamsNext]_streamVars
  PROVE  BInv'
<1>1. CASE BlobNext
  <2>1. PICK f \in Fetches :
          \/ \E owner \in {"owned", "shared"}, kind \in {"request", "newer", "garbage"} :
               Request(f, owner, kind)
          \/ Serves(f) \/ SourceFails(f) \/ Fetching(f) \/ DropBody(f) \/ SessionLost(f)
    BY ZenonT(60), <1>1 DEF BlobNext
  <2>2. CASE Serves(f) \/ SourceFails(f)
    BY ZenonT(60), <2>2, BlobFound, BlobServes, BlossomBounds DEF Serves
  <2>3. CASE SessionLost(f)
    BY ZenonT(60), <2>3, BlobStutter DEF SessionLost, client, serving
  <2> QED BY ZenonT(60), <2>1, <2>2, <2>3, BlobRequest, BlobFetches
<1>2. CASE UNCHANGED blobVars
  BY ZenonT(60), <1>2, BlobStutter DEF blobVars
<1> QED BY ZenonT(60), <1>1, <1>2 DEF StreamsNext, streamVars

\* A body that ends without an error has exactly the declared size, and the
\* server had written all of it, though its stream ends alike when its source
\* ends early, overruns or fails: for any number of fetches, any sizes and any
\* chunk (link_body in client.rs, send_blob and serve_stream in server.rs).
THEOREM ExactBodyCorrect == StreamsSpec => []ExactBody
<1>1. StreamsInit => BInv
  <2>1. BlobInit \/ BlobEnded => BInv
    <3> SUFFICES ASSUME BlobInit \/ BlobEnded PROVE BInv OBVIOUS
    <3>1. 0 \in Nat /\ 0 <= 0 OBVIOUS
    <3>2. /\ declared = [f \in Fetches |-> 0] /\ got = [f \in Fetches |-> 0]
          /\ sent = [f \in Fetches |-> 0] /\ size = [f \in Fetches |-> 0]
          /\ holds = [f \in Fetches |-> 0] /\ server = [f \in Fetches |-> "none"]
          /\ \/ fetch = [f \in Fetches |-> "idle"]
             \/ fetch = [f \in Fetches |-> "dropped"]
      BY ZenonT(60) DEF BlobInit, BlobEnded
    <3>3. BlobTypes BY ZenonT(60), <3>1, <3>2 DEF BlobTypes
    <3>4. BlobShape BY ZenonT(60), <3>1, <3>2 DEF BlobShape
    <3>5. ExactBody BY ZenonT(60), <3>1, <3>2 DEF ExactBody
    <3> QED BY ZenonT(60), <3>3, <3>4, <3>5 DEF BInv
  <2> QED BY ZenonT(60), <2>1 DEF StreamsInit
<1>2. BInv => ExactBody
  BY ZenonT(60) DEF BInv
<1> QED BY <1>1, <1>2, BlobStep, PTL DEF StreamsSpec

(***************************************************************************)
(* The browser's relay sockets.                                            *)
(***************************************************************************)
\* A socket that is not closed is counted, the driver holds one exactly while it
\* opens or reads it, and a driver that finished had none left to count.
SocketShape ==
  /\ ws \in [Ids -> {"none", "connecting", "open", "closing", "closed"}]
  /\ cur \in Ids \cup {0}
  /\ \A i \in Ids : ws[i] \in {"none", "closed"} \/ i \in guards
  /\ cur # 0 => cur \in guards
  /\ task \in {"opening", "reading"} <=> cur # 0
  /\ task = "finished" => guards = {}

LEMMA IdsType == Ids \subseteq Nat /\ 0 \notin Ids
BY SocketBounds DEF Ids

\* Only Open counts another socket, and only a socket that is CLOSED and let go
\* leaves the count.
LEMMA ReleaseShape ==
  ASSUME SocketShape, cur # 0, Release, task' \notin {"opening", "reading", "finished"}
  PROVE  SocketShape'
BY ZenonT(60), IdsType DEF SocketShape, Release

LEMMA SocketStep ==
  ASSUME SocketShape, [StreamsNext]_streamVars
  PROVE  SocketShape'
<1>1. CASE UNCHANGED pageVars
  BY ZenonT(60), <1>1 DEF pageVars, SocketShape
<1>2. CASE Open
  <2>1. PICK i \in Ids : /\ ws[i] = "none" /\ ws' = [ws EXCEPT ![i] = "connecting"]
                         /\ guards' = guards \cup {i} /\ cur' = i
    BY ZenonT(60), <1>2 DEF Open
  <2>2. task' = "opening"
    BY ZenonT(60), <1>2 DEF Open
  <2> QED BY ZenonT(60), <2>1, <2>2, IdsType DEF SocketShape
<1>3. CASE Leaves /\ task \in {"opening", "reading"}
  <2>1. Release /\ task' = "between" /\ cur # 0
    BY ZenonT(60), <1>3 DEF Leaves, SocketShape
  <2> QED BY ZenonT(60), <2>1, ReleaseShape
<1>4. CASE (PollOpen \/ PollNext) /\ ~Leaves
  <2>1. /\ UNCHANGED <<ws, guards, cur>> /\ task \in {"opening", "reading"}
        /\ task' \in {task, "reading"}
    BY ZenonT(60), <1>4 DEF PollOpen, PollNext
  <2> QED BY ZenonT(60), <2>1 DEF SocketShape
<1>5. CASE Stops
  <2>1. /\ task' = "stopped"
        /\ (cur = 0 /\ UNCHANGED <<ws, guards, cur>>) \/ (cur # 0 /\ Release)
    BY ZenonT(60), <1>5 DEF Stops
  <2> QED BY ZenonT(60), <2>1, ReleaseShape DEF SocketShape
<1>6. CASE Finishes
  BY ZenonT(60), <1>6 DEF Finishes, SocketShape
<1>7. CASE Stop
  BY ZenonT(60), <1>7 DEF Stop, SocketShape
<1>8. ASSUME NEW kind, NEW len, PageMessage(kind, len) PROVE SocketShape'
  <2>1. /\ cur # 0 /\ UNCHANGED <<guards, cur, task>>
        /\ ws' = ws \/ ws' = [ws EXCEPT ![cur] = "closing"]
    BY ZenonT(60), <1>8 DEF PageMessage
  <2> QED BY ZenonT(60), <2>1 DEF SocketShape
<1>9. ASSUME NEW i \in Ids, PageOpens(i) \/ PageCloses(i) \/ GuardDrops(i)
      PROVE  SocketShape'
  <2>1. CASE PageOpens(i)
    BY ZenonT(60), <2>1 DEF PageOpens, SocketShape
  <2>2. CASE PageCloses(i)
    BY ZenonT(60), <2>2 DEF PageCloses, SocketShape
  <2>3. CASE GuardDrops(i)
    <3>1. /\ i \in guards /\ i # cur /\ ws[i] = "closed" /\ guards' = guards \ {i}
          /\ UNCHANGED <<ws, cur, task>>
      BY ZenonT(60), <2>3 DEF GuardDrops
    <3> QED BY ZenonT(60), <3>1 DEF SocketShape
  <2> QED BY ZenonT(60), <1>9, <2>1, <2>2, <2>3
<1>10. CASE PageNext
  <2>1. GivesUp \/ PollOpen \/ PollNext => task \in {"opening", "reading"}
    BY ZenonT(60) DEF GivesUp, PollOpen, PollNext
  <2>2. GivesUp => Leaves
    BY ZenonT(60) DEF GivesUp
  <2> QED BY ZenonT(60), <1>10, <1>2, <1>3, <1>4, <1>5, <1>6, <1>7, <1>8, <1>9, <2>1, <2>2 DEF PageNext
<1> QED BY ZenonT(60), <1>1, <1>10 DEF StreamsNext, streamVars

\* The driver reports finished only when every socket it ever opened is CLOSED:
\* for any number of sockets (SocketShutdown, Drop for RelaySocket, spawn_driver).
THEOREM FinishedMeansClosedCorrect == StreamsSpec => []FinishedMeansClosed
<1>1. StreamsInit => SocketShape
  <2>1. PageInit => SocketShape
    BY ZenonT(60), IdsType DEF PageInit, SocketShape
  <2>2. PageEnded => SocketShape
    BY ZenonT(60), IdsType DEF PageEnded, SocketShape
  <2> QED BY ZenonT(60), <2>1, <2>2 DEF StreamsInit
<1>2. SocketShape => FinishedMeansClosed
  BY ZenonT(60) DEF SocketShape, FinishedMeansClosed
<1> QED BY <1>1, <1>2, SocketStep, PTL DEF StreamsSpec

\* The driver never sleeps while its socket has news for it, for any order of
\* events and polls (`wake` in web.rs, before every return of an event handler).
THEOREM NeverAsleepOnNewsCorrect == StreamsSpec => []NeverAsleepOnNews
<1>1. StreamsInit => NeverAsleepOnNews
  BY ZenonT(60) DEF StreamsInit, PageInit, PageEnded, NeverAsleepOnNews
<1>2. NeverAsleepOnNews /\ [StreamsNext]_streamVars => NeverAsleepOnNews'
  <2> SUFFICES ASSUME NeverAsleepOnNews, [StreamsNext]_streamVars PROVE NeverAsleepOnNews'
    BY ZenonT(60)
  <2>1. CASE UNCHANGED pageVars
    BY ZenonT(60), <2>1 DEF pageVars, NeverAsleepOnNews
  <2>2. CASE PageNext
    <3>1. CASE woken'
      BY ZenonT(60), <3>1 DEF NeverAsleepOnNews
    <3>2. CASE task' \notin {"opening", "reading"}
      BY ZenonT(60), <3>2 DEF NeverAsleepOnNews
    <3>3. CASE UNCHANGED <<task, woken, shared>>
      BY ZenonT(60), <3>3 DEF NeverAsleepOnNews
    <3>4. CASE PollOpen
      BY ZenonT(60), <3>4 DEF PollOpen, Leaves, NeverAsleepOnNews
    <3>5. CASE PollNext
      BY ZenonT(60), <3>5 DEF PollNext, Leaves, NeverAsleepOnNews
    <3>6. ASSUME NEW kind, NEW len, PageMessage(kind, len) PROVE woken'
      BY ZenonT(60), <3>6 DEF PageMessage, Ends
    <3>7. ASSUME NEW i, PageOpens(i) \/ PageCloses(i) \/ GuardDrops(i)
          PROVE  woken' \/ UNCHANGED <<task, woken, shared>>
      BY ZenonT(60), <3>7 DEF PageOpens, PageCloses, GuardDrops, Ends
    <3>8. ASSUME Open \/ GivesUp \/ Stops \/ Finishes \/ Stop
          PROVE  woken' \/ task' \notin {"opening", "reading"} \/ UNCHANGED <<task, woken, shared>>
      BY ZenonT(60), <3>8 DEF Open, GivesUp, Leaves, Stops, Finishes, Stop
    <3> QED BY ZenonT(60), <2>2, <3>1, <3>2, <3>3, <3>4, <3>5, <3>6, <3>7, <3>8 DEF PageNext
  <2> QED BY ZenonT(60), <2>1, <2>2 DEF StreamsNext, streamVars
<1> QED BY <1>1, <1>2, PTL DEF StreamsSpec

(***************************************************************************)
(* The receive queue.                                                      *)
(***************************************************************************)
Message == [kind : {"control", "datagram"}, len : Nat, n : Nat]

Sums(q, sum) == sum = [i \in 0..Len(q) |-> IF i = 0 THEN 0 ELSE sum[i - 1] + q[i].len]

\* `sum` adds up the first n messages of q, one after another.
Adds(q, n, sum) ==
  /\ sum \in [0..n -> Nat] /\ sum[0] = 0
  /\ \A i \in 0..n-1 : sum[i + 1] = sum[i] + q[i + 1].len

LEMMA AddsExists ==
  ASSUME NEW q \in Seq(Message)
  PROVE  \A n \in Nat : n <= Len(q) => \E sum : Adds(q, n, sum)
<1> DEFINE S == {n \in Nat : n <= Len(q) => \E sum : Adds(q, n, sum)}
<1>1. 0 \in S
  <2>1. Adds(q, 0, [i \in 0..0 |-> 0])
    BY DEF Adds
  <2> QED BY ZenonT(60), <2>1
<1>2. ASSUME NEW n \in Nat, n \in S PROVE n + 1 \in S
  <2> SUFFICES ASSUME n + 1 <= Len(q) PROVE \E sum : Adds(q, n + 1, sum)
    OBVIOUS
  <2>1. n <= Len(q) /\ n + 1 \in 1..Len(q)
    OBVIOUS
  <2>2. PICK sum : Adds(q, n, sum)
    BY ZenonT(60), <1>2, <2>1
  <2>3. q[n + 1].len \in Nat
    <3>1. q[n + 1] \in Message
      BY <2>1
    <3> QED BY ZenonT(60), <3>1 DEF Message
  <2> DEFINE more == [i \in 0..n+1 |-> IF i <= n THEN sum[i] ELSE sum[n] + q[n + 1].len]
  <2>4. Adds(q, n + 1, more)
    <3>1. more \in [0..n+1 -> Nat] /\ more[0] = 0
      BY <2>2, <2>3 DEF Adds
    <3>2. ASSUME NEW i \in 0..n PROVE more[i + 1] = more[i] + q[i + 1].len
      BY <2>2 DEF Adds
    <3> HIDE DEF more
    <3> QED BY <3>1, <3>2 DEF Adds
  <2> QED BY ZenonT(60), <2>4
<1> HIDE DEF S
<1>3. \A n \in Nat : n \in S
  BY ZenonT(60), <1>1, <1>2, Induction
<1> QED BY ZenonT(60), <1>3 DEF S

LEMMA LengthIs ==
  ASSUME NEW q \in Seq(Message), NEW sum, Adds(q, Len(q), sum)
  PROVE  Length(q) = sum[Len(q)]
<1>1. Sums(q, sum)
  <2>1. Len(q) \in Nat
    OBVIOUS
  <2>2. sum = [i \in 0..Len(q) |-> sum[i]]
    BY ZenonT(60) DEF Adds
  <2>3. \A i \in 0..Len(q) : sum[i] = IF i = 0 THEN 0 ELSE sum[i - 1] + q[i].len
    <3> TAKE i \in 0..Len(q)
    <3>1. CASE i = 0
      BY ZenonT(60), <3>1 DEF Adds
    <3>2. CASE i # 0
      <4>1. i - 1 \in 0..Len(q)-1 /\ (i - 1) + 1 = i
        BY <3>2
      <4> QED BY ZenonT(60), <4>1, <3>2 DEF Adds
    <3> QED BY ZenonT(60), <3>1, <3>2
  <2> QED BY ZenonT(60), <2>2, <2>3 DEF Sums
<1>2. ASSUME NEW other, Sums(q, other) PROVE other = sum
  <2> DEFINE S == {n \in Nat : n <= Len(q) => other[n] = sum[n]}
  <2>1. \A i \in 0..Len(q) : other[i] = IF i = 0 THEN 0 ELSE other[i - 1] + q[i].len
    BY ZenonT(60), <1>2 DEF Sums
  <2>2. \A i \in 0..Len(q) : sum[i] = IF i = 0 THEN 0 ELSE sum[i - 1] + q[i].len
    BY ZenonT(60), <1>1 DEF Sums
  <2>3. 0 \in S
    BY <2>1, <2>2
  <2>4. ASSUME NEW n \in Nat, n \in S PROVE n + 1 \in S
    <3> SUFFICES ASSUME n + 1 <= Len(q) PROVE other[n + 1] = sum[n + 1]
      OBVIOUS
    <3>1. n <= Len(q) /\ n + 1 \in 0..Len(q) /\ n + 1 # 0 /\ (n + 1) - 1 = n
      OBVIOUS
    <3>2. other[n] = sum[n]
      BY ZenonT(60), <2>4, <3>1
    <3>3. other[n + 1] = other[n] + q[n + 1].len /\ sum[n + 1] = sum[n] + q[n + 1].len
      BY ZenonT(60), <2>1, <2>2, <3>1
    <3> QED BY ZenonT(60), <3>2, <3>3
  <2> HIDE DEF S
  <2>5. \A n \in Nat : n \in S
    BY ZenonT(60), <2>3, <2>4, Induction
  <2>6. \A i \in 0..Len(q) : other[i] = sum[i]
    BY <2>5 DEF S
  <2>7. other = [i \in 0..Len(q) |-> other[i]] /\ sum = [i \in 0..Len(q) |-> sum[i]]
    <3>1. other = [i \in 0..Len(q) |-> IF i = 0 THEN 0 ELSE other[i - 1] + q[i].len]
      BY ZenonT(60), <1>2 DEF Sums
    <3> QED BY ZenonT(60), <3>1 DEF Adds
  <2> QED BY ZenonT(60), <2>6, <2>7
<1>3. sum = CHOOSE s : Sums(q, s)
  BY ZenonT(60), <1>1, <1>2
<1> QED BY ZenonT(60), <1>3 DEF Length, Sums

LEMMA LengthAppend ==
  ASSUME NEW q \in Seq(Message), NEW m \in Message
  PROVE  Length(q) \in Nat /\ Length(Append(q, m)) = Length(q) + m.len
<1>1. /\ Len(q) \in Nat /\ Append(q, m) \in Seq(Message) /\ Len(Append(q, m)) = Len(q) + 1
      /\ \A i \in 1..Len(q) : Append(q, m)[i] = q[i]
      /\ Append(q, m)[Len(q) + 1] = m /\ m.len \in Nat
  BY DEF Message
<1> DEFINE n == Len(q)
<1>2. PICK sum : Adds(q, n, sum)
  <2>1. n \in Nat /\ n <= Len(q)
    BY <1>1
  <2> QED BY ZenonT(60), <2>1, AddsExists
<1> DEFINE more == [i \in 0..n+1 |-> IF i <= n THEN sum[i] ELSE sum[n] + m.len]
<1>3. Adds(Append(q, m), n + 1, more)
  <2>1. more \in [0..n+1 -> Nat] /\ more[0] = 0
    BY <1>1, <1>2 DEF Adds
  <2>2. ASSUME NEW i \in 0..n PROVE more[i + 1] = more[i] + Append(q, m)[i + 1].len
    <3>1. CASE i = n
      BY <1>1, <1>2, <3>1 DEF Adds
    <3>2. CASE i < n
      BY <1>1, <1>2, <3>2 DEF Adds
    <3> QED BY <1>1, <3>1, <3>2
  <2> HIDE DEF more
  <2>3. \A i \in 0..(n + 1)-1 : more[i + 1] = more[i] + Append(q, m)[i + 1].len
    BY <2>2, <1>1
  <2> QED BY ZenonT(60), <2>1, <2>3 DEF Adds
<1>4. more[n + 1] = sum[n] + m.len /\ sum[n] \in Nat
  BY <1>1, <1>2 DEF Adds
<1> HIDE DEF more
<1>5. Length(q) = sum[n] /\ Length(Append(q, m)) = more[n + 1]
  BY ZenonT(60), <1>1, <1>2, <1>3, LengthIs
<1> QED BY ZenonT(60), <1>4, <1>5

LEMMA LengthTail ==
  ASSUME NEW q \in Seq(Message), q # <<>>
  PROVE  Length(Tail(q)) <= Length(q)
<1>1. /\ Len(q) \in Nat \ {0} /\ Tail(q) \in Seq(Message) /\ Len(Tail(q)) = Len(q) - 1
      /\ \A i \in 1..(Len(q) - 1) : Tail(q)[i] = q[i + 1]
      /\ q[1] \in Message
  BY ZenonT(60), Popped
<1> DEFINE n == Len(q)
<1>2. PICK sum : Adds(q, n, sum)
  <2>1. n \in Nat /\ n <= Len(q)
    BY <1>1
  <2> QED BY ZenonT(60), <2>1, AddsExists
<1>3. PICK rest : Adds(Tail(q), n - 1, rest)
  <2>1. n - 1 \in Nat /\ n - 1 <= Len(Tail(q))
    BY <1>1
  <2> QED BY ZenonT(60), <1>1, <2>1, AddsExists
<1> DEFINE S == {i \in Nat : i <= n - 1 => sum[i + 1] = rest[i] + q[1].len}
<1> HIDE DEF Message
<1>4. q[1].len \in Nat
  BY ZenonT(60), <1>1 DEF Message
<1>5. 0 \in S
  BY <1>1, <1>4, <1>2, <1>3 DEF Adds
<1>6. ASSUME NEW i \in Nat, i \in S PROVE i + 1 \in S
  <2> SUFFICES ASSUME i + 1 <= n - 1 PROVE sum[(i + 1) + 1] = rest[i + 1] + q[1].len
    OBVIOUS
  <2>1. sum[i + 1] = rest[i] + q[1].len
    BY <1>1, <1>6
  <2>2. sum[(i + 1) + 1] = sum[i + 1] + q[(i + 1) + 1].len
    BY <1>1, <1>2 DEF Adds
  <2>3. rest[i + 1] = rest[i] + Tail(q)[i + 1].len /\ rest[i] \in Nat
    <3>1. i \in 0..(n - 1)-1 /\ i \in 0..n-1
      BY <1>1
    <3> QED BY ZenonT(60), <1>3, <3>1 DEF Adds
  <2>4. Tail(q)[i + 1] = q[(i + 1) + 1] /\ q[(i + 1) + 1] \in Message
    BY <1>1
  <2>5. q[(i + 1) + 1].len \in Nat
    BY ZenonT(60), <2>4 DEF Message
  <2> QED BY <1>1, <2>1, <2>2, <2>3, <2>4, <2>5, <1>4
<1> HIDE DEF S
<1>7. \A i \in Nat : i \in S
  BY ZenonT(60), <1>5, <1>6, Induction
<1>8. sum[n] = rest[n - 1] + q[1].len /\ rest[n - 1] \in Nat
  BY <1>1, <1>3, <1>7, <1>4 DEF S, Adds
<1>9. Length(q) = sum[n] /\ Length(Tail(q)) = rest[n - 1]
  BY ZenonT(60), <1>1, <1>2, <1>3, LengthIs
<1> QED BY <1>4, <1>8, <1>9

Ordered(q) == \A i, j \in 1..Len(q) : i < j => q[i].n < q[j].n

LEMMA RankOrder ==
  ASSUME NEW S, IsFiniteSet(S), S \subseteq Nat
  PROVE  /\ \A i \in S : Rank(S, i) \in 1..Cardinality(S)
         /\ \A i, j \in S : i < j => Rank(S, i) < Rank(S, j)
<1> DEFINE upto(i) == {j \in S : j <= i}
<1>1. ASSUME NEW i \in S
      PROVE  /\ IsFiniteSet(upto(i)) /\ i \in upto(i) /\ Rank(S, i) = Cardinality(upto(i))
             /\ Cardinality(upto(i)) \in Nat /\ Cardinality(upto(i)) <= Cardinality(S)
             /\ Cardinality(upto(i)) # 0 /\ Cardinality(S) \in Nat
  <2>1. upto(i) \in SUBSET S /\ i \in upto(i) /\ Rank(S, i) = Cardinality(upto(i))
    BY DEF Rank
  <2> HIDE DEF upto
  <2>2. IsFiniteSet(upto(i)) /\ Cardinality(upto(i)) <= Cardinality(S)
    BY ZenonT(60), <2>1, FS_Subset
  <2>3. Cardinality(upto(i)) # 0
    BY ZenonT(60), <2>1, <2>2, FS_EmptySet
  <2> QED BY ZenonT(60), <2>1, <2>2, <2>3, FS_CardinalityType
<1>2. ASSUME NEW i \in S, NEW j \in S, i < j PROVE Rank(S, i) < Rank(S, j)
  <2>1. upto(i) \in SUBSET upto(j) /\ j \notin upto(i)
    <3>1. \A h \in S : h <= i => h <= j
      BY <1>2
    <3>2. ~(j <= i)
      BY <1>2
    <3> QED BY ZenonT(60), <3>1, <3>2
  <2>2. j \in upto(j)
    BY ZenonT(60), <1>1
  <2> HIDE DEF upto
  <2>3. upto(i) # upto(j)
    BY ZenonT(60), <2>1, <2>2
  <2>4. Cardinality(upto(i)) <= Cardinality(upto(j)) /\ Cardinality(upto(i)) # Cardinality(upto(j))
    BY ZenonT(60), <1>1, <2>1, <2>3, FS_Subset
  <2>5. /\ Cardinality(upto(i)) \in Nat /\ Cardinality(upto(j)) \in Nat
        /\ Rank(S, i) = Cardinality(upto(i)) /\ Rank(S, j) = Cardinality(upto(j))
    BY ZenonT(60), <1>1
  <2> QED BY <2>4, <2>5
<1>3. ASSUME NEW i \in S PROVE Rank(S, i) \in 1..Cardinality(S)
  <2>1. /\ Rank(S, i) \in Nat /\ Rank(S, i) # 0 /\ Rank(S, i) <= Cardinality(S)
        /\ Cardinality(S) \in Nat
    BY ZenonT(60), <1>1
  <2> QED BY <2>1
<1> QED BY ZenonT(60), <1>2, <1>3

LEMMA RankOnto ==
  ASSUME NEW S, IsFiniteSet(S), S \subseteq Nat, NEW k \in 1..Cardinality(S)
  PROVE  \E i \in S : Rank(S, i) = k
<1> DEFINE T == 1..Cardinality(S)
<1> DEFINE f == [i \in S |-> Rank(S, i)]
<1>1. f \in Injection(S, T)
  <2>1. f \in [S -> T]
    BY ZenonT(60), RankOrder
  <2>2. ASSUME NEW i \in S, NEW j \in S, f[i] = f[j] PROVE i = j
    <3>1. Rank(S, i) = Rank(S, j) /\ Rank(S, i) \in Nat
      <4>1. Rank(S, i) \in T
        BY ZenonT(60), RankOrder
      <4> QED BY <2>2, <4>1
    <3>2. ~(Rank(S, i) < Rank(S, j)) /\ ~(Rank(S, j) < Rank(S, i))
      BY <3>1
    <3>3. ~(i < j) /\ ~(j < i)
      BY ZenonT(60), <3>2, RankOrder
    <3> QED BY <3>3
  <2> QED BY ZenonT(60), <2>1, <2>2 DEF Injection, IsInjective
<1>2. Cardinality(S) \in Nat
  BY ZenonT(60), FS_CardinalityType
<1>3. IsFiniteSet(T) /\ Cardinality(S) = Cardinality(T)
  BY <1>2, FS_Interval
<1>4. f \in Surjection(S, T)
  <2> HIDE DEF f, T
  <2> QED BY ZenonT(60), <1>1, <1>3, FS_Injection
<1> QED BY ZenonT(60), <1>4 DEF Surjection

\* w holds the messages of q at the positions `place`, ever later ones, no control
\* frame left out.
Picks(q, w, place) ==
  /\ place \in [1..Len(w) -> 1..Len(q)]
  /\ \A i \in 1..Len(w) : w[i] = q[place[i]]
  /\ \A i, j \in 1..Len(w) : i < j => place[i] < place[j]
  /\ \A j \in 1..Len(q) : IsControl(q[j]) => \E i \in 1..Len(w) : place[i] = j

LEMMA Positions ==
  ASSUME NEW q \in Seq(Message), NEW k
  PROVE  /\ WithoutOldest(q, k) \in Seq(Message) /\ Len(WithoutOldest(q, k)) \in Nat
         /\ \E place : Picks(q, WithoutOldest(q, k), place)
<1> DEFINE S == Remaining(q, k)
<1> DEFINE n == Cardinality(S)
<1> DEFINE pos(i) == CHOOSE j \in S : Rank(S, j) = i
<1> DEFINE w == [i \in 1..n |-> q[pos(i)]]
<1>1. w = WithoutOldest(q, k)
  BY ZenonT(60) DEF WithoutOldest
<1>2. S \subseteq 1..Len(q) /\ S \subseteq Nat /\ IsFiniteSet(S) /\ n \in Nat
  <2>1. DOMAIN q = 1..Len(q) /\ Len(q) \in Int /\ 1 \in Int
    OBVIOUS
  <2>2. S \in SUBSET (1..Len(q))
    BY ZenonT(60), <2>1 DEF Remaining
  <2>3. IsFiniteSet(S)
    BY ZenonT(60), <2>1, <2>2, FS_Interval, FS_Subset
  <2>4. \A x \in 1..Len(q) : x \in Nat
    BY <2>1
  <2> QED BY ZenonT(60), <2>2, <2>3, <2>4, FS_CardinalityType
<1>3. ASSUME NEW j \in 1..Len(q), IsControl(q[j]) PROVE j \in S
  BY <1>3 DEF Remaining, Datagrams
<1> HIDE DEF S
<1>4. \A i \in 1..n : pos(i) \in S /\ Rank(S, pos(i)) = i
  BY ZenonT(60), <1>2, RankOnto
<1>5. \A j \in S : Rank(S, j) \in 1..n /\ pos(Rank(S, j)) = j
  <2> TAKE j \in S
  <2>1. Rank(S, j) \in 1..n
    BY ZenonT(60), <1>2, RankOrder
  <2> DEFINE i == pos(Rank(S, j))
  <2>2. i \in S /\ Rank(S, i) = Rank(S, j)
    BY ZenonT(60), <1>4, <2>1
  <2> HIDE DEF i
  <2>3. Rank(S, i) \in Nat /\ i \in Nat /\ j \in Nat
    BY <2>1, <2>2, <1>2
  <2>4. ~(Rank(S, i) < Rank(S, j)) /\ ~(Rank(S, j) < Rank(S, i))
    BY <2>2, <2>3
  <2>5. ~(i < j) /\ ~(j < i)
    BY ZenonT(60), <2>2, <2>4, <1>2, RankOrder
  <2>6. i = j
    BY <2>3, <2>5
  <2> QED BY ZenonT(60), <2>1, <2>6 DEF i
<1>6. \A i, j \in 1..n : i < j => pos(i) < pos(j)
  <2> TAKE i, j \in 1..n
  <2> HAVE i < j
  <2> DEFINE a == pos(i) b == pos(j)
  <2>1. a \in S /\ b \in S /\ Rank(S, a) = i /\ Rank(S, b) = j
    BY ZenonT(60), <1>4
  <2> HIDE DEF a, b
  <2>2. a \in Nat /\ b \in Nat
    BY ZenonT(60), <2>1, <1>2
  <2>3. ~(j < i) /\ i # j
    BY <1>2
  <2>4. ~(b < a) /\ a # b
    BY ZenonT(60), <2>1, <2>3, <1>2, RankOrder
  <2>5. a < b
    BY <2>2, <2>4
  <2> QED BY ZenonT(60), <2>5 DEF a, b
<1>7. \A i \in 1..n : pos(i) \in 1..Len(q)
  BY ZenonT(60), <1>2, <1>4
<1> HIDE DEF pos
<1>8. w \in Seq(Message) /\ Len(w) = n /\ \A i \in 1..n : w[i] = q[pos(i)]
  <2>1. \A i \in 1..n : q[pos(i)] \in Message
    BY <1>7
  <2> QED BY <1>2, <2>1
<1> HIDE DEF w
<1> DEFINE place == [i \in 1..n |-> pos(i)]
<1>9. place \in [1..n -> 1..Len(q)] /\ \A i \in 1..n : place[i] = pos(i)
  BY ZenonT(60), <1>7
<1> HIDE DEF place
<1>10. \A j \in 1..Len(q) : IsControl(q[j]) => \E i \in 1..n : place[i] = j
  <2> TAKE j \in 1..Len(q)
  <2> HAVE IsControl(q[j])
  <2>1. Rank(S, j) \in 1..n /\ pos(Rank(S, j)) = j
    BY ZenonT(60), <1>3, <1>5
  <2> QED BY ZenonT(60), <2>1, <1>9
<1>11. /\ \A i \in 1..n : w[i] = q[place[i]]
       /\ \A i, j \in 1..n : i < j => place[i] < place[j]
  BY ZenonT(60), <1>6, <1>8, <1>9
<1>12. Len(w) = n
  BY ZenonT(60), <1>8
<1> HIDE DEF n
<1>13. Picks(q, w, place)
  BY ZenonT(60), <1>9, <1>10, <1>11, <1>12 DEF Picks
<1>14. w \in Seq(Message) /\ Len(w) \in Nat
  BY ZenonT(60), <1>2, <1>8, <1>12 DEF n
<1> QED BY ZenonT(60), <1>1, <1>13, <1>14

\* w keeps the order of q, every control frame of it, and only what was there.
Thins(q, w) ==
  /\ w \in Seq(Message) /\ Ordered(w)
  /\ \A i \in 1..Len(w) : \E j \in 1..Len(q) : w[i] = q[j]
  /\ \A j \in 1..Len(q) : IsControl(q[j]) => \E i \in 1..Len(w) : w[i] = q[j]

LEMMA Thinned ==
  ASSUME NEW q \in Seq(Message), Ordered(q), NEW k
  PROVE  Thins(q, WithoutOldest(q, k))
<1> DEFINE w == WithoutOldest(q, k)
<1>1. w \in Seq(Message)
  BY ZenonT(60), Positions
<1>2. PICK place : Picks(q, w, place)
  BY ZenonT(60), Positions
<1> HIDE DEF w
<1>3. Ordered(w)
  <2> SUFFICES ASSUME NEW i \in 1..Len(w), NEW j \in 1..Len(w), i < j PROVE w[i].n < w[j].n
    BY ZenonT(60) DEF Ordered
  <2>1. place[i] \in 1..Len(q) /\ place[j] \in 1..Len(q) /\ place[i] < place[j]
    BY ZenonT(60), <1>2 DEF Picks
  <2> QED BY ZenonT(60), <1>2, <2>1 DEF Ordered, Picks
<1>4. \A i \in 1..Len(w) : \E j \in 1..Len(q) : w[i] = q[j]
  BY ZenonT(60), <1>2 DEF Picks
<1>5. ASSUME NEW j \in 1..Len(q), IsControl(q[j]) PROVE \E i \in 1..Len(w) : w[i] = q[j]
  <2>1. PICK i \in 1..Len(w) : place[i] = j
    BY ZenonT(60), <1>2, <1>5 DEF Picks
  <2>2. w[i] = q[place[i]]
    BY ZenonT(60), <1>2 DEF Picks
  <2> QED BY ZenonT(60), <2>1, <2>2
<1> QED BY ZenonT(60), <1>1, <1>3, <1>4, <1>5 DEF w, Thins

LEMMA AddsGrow ==
  ASSUME NEW q \in Seq(Message), NEW sum, Adds(q, Len(q), sum),
         NEW i \in 0..Len(q), NEW j \in 0..Len(q), i <= j
  PROVE  sum[i] <= sum[j]
<1> DEFINE S == {d \in Nat : i + d <= Len(q) => sum[i] <= sum[i + d]}
<1>1. Len(q) \in Nat /\ \A x \in 0..Len(q) : sum[x] \in Nat
  <2>1. Len(q) \in Nat
    OBVIOUS
  <2> QED BY ZenonT(60), <2>1 DEF Adds
<1>2. 0 \in S
  BY <1>1
<1>3. ASSUME NEW d \in Nat, d \in S PROVE d + 1 \in S
  <2> SUFFICES ASSUME i + (d + 1) <= Len(q) PROVE sum[i] <= sum[i + (d + 1)]
    OBVIOUS
  <2> DEFINE x == i + d
  <2>1. x \in 0..Len(q)-1 /\ x \in 0..Len(q) /\ x + 1 \in 1..Len(q) /\ i + (d + 1) = x + 1
    BY <1>1
  <2>2. sum[i] <= sum[x] /\ sum[i] \in Nat /\ sum[x] \in Nat
    <3>1. i + d <= Len(q)
      BY <2>1
    <3> QED BY ZenonT(60), <1>1, <1>3, <2>1, <3>1
  <2> HIDE DEF x
  <2>3. sum[x + 1] = sum[x] + q[x + 1].len
    BY ZenonT(60), <2>1 DEF Adds
  <2>4. q[x + 1] \in Message
    BY <2>1
  <2>5. q[x + 1].len \in Nat
    BY ZenonT(60), <2>4 DEF Message
  <2>6. sum[i] <= sum[x + 1]
    <3>1. \A u, v, n \in Nat : u <= v => u <= v + n
      OBVIOUS
    <3> QED BY ZenonT(60), <2>2, <2>3, <2>5, <3>1
  <2> QED BY ZenonT(60), <2>1, <2>6
<1> HIDE DEF S
<1>4. \A d \in Nat : d \in S
  BY ZenonT(60), <1>2, <1>3, Induction
<1>5. j - i \in Nat /\ i + (j - i) = j
  BY <1>1
<1>6. j <= Len(q)
  BY <1>1
<1>7. j - i \in S
  BY ZenonT(60), <1>4, <1>5
<1>8. i + (j - i) <= Len(q) => sum[i] <= sum[i + (j - i)]
  BY ZenonT(60), <1>7 DEF S
<1> QED BY ZenonT(60), <1>5, <1>6, <1>8

\* Dropping datagrams shortens the queue, in messages and in bytes.
LEMMA Shorter ==
  ASSUME NEW q \in Seq(Message), NEW k
  PROVE  /\ Len(WithoutOldest(q, k)) <= Len(q)
         /\ Length(WithoutOldest(q, k)) <= Length(q)
<1> DEFINE w == WithoutOldest(q, k)
<1>1. w \in Seq(Message) /\ Len(w) \in Nat
  BY ZenonT(60), Positions
<1>2. PICK place : Picks(q, w, place)
  BY ZenonT(60), Positions
<1> HIDE DEF w
<1> DEFINE m == Len(w) n == Len(q)
<1>3. n \in Nat
  OBVIOUS
<1>4. PICK sum : Adds(q, n, sum)
  <2>1. n <= Len(q)
    BY <1>3
  <2> QED BY ZenonT(60), <1>3, <2>1, AddsExists
<1>5. PICK part : Adds(w, m, part)
  <2>1. m <= Len(w)
    BY <1>1
  <2> QED BY ZenonT(60), <1>1, <2>1, AddsExists
<1>6. /\ \A x \in 0..n : sum[x] \in Nat
      /\ \A x \in 0..m : part[x] \in Nat
      /\ sum[0] = 0 /\ part[0] = 0
  BY ZenonT(60), <1>4, <1>5 DEF Adds
\* The first i messages kept are among the first place[i] of the queue.
<1> DEFINE last(i) == IF i = 0 THEN 0 ELSE place[i]
<1> DEFINE S == {i \in Nat : i <= m => i <= last(i) /\ last(i) \in 0..n /\ part[i] <= sum[last(i)]}
<1>7. 0 \in S
  BY <1>3, <1>6
<1>8. ASSUME NEW i \in Nat, i \in S PROVE i + 1 \in S
  <2> SUFFICES ASSUME i + 1 <= m
               PROVE  /\ i + 1 <= last(i + 1) /\ last(i + 1) \in 0..n
                      /\ part[i + 1] <= sum[last(i + 1)]
    OBVIOUS
  <2> DEFINE a == last(i) b == place[i + 1]
  <2>1. /\ i \in 0..m-1 /\ i + 1 \in 1..m /\ i <= m /\ i + 1 # 0
        /\ i # 0 => i \in 1..m /\ i < i + 1
    BY <1>1
  <2>2. i <= a /\ a \in 0..n /\ part[i] <= sum[a]
    BY ZenonT(60), <1>8, <2>1
  <2>3. b \in 1..n /\ last(i + 1) = b
    BY ZenonT(60), <1>2, <2>1 DEF Picks
  <2>4. a < b
    <3>1. CASE i = 0
      BY <3>1, <2>3
    <3>2. CASE i # 0
      BY ZenonT(60), <3>2, <1>2, <2>1 DEF Picks
    <3> QED BY ZenonT(60), <3>1, <3>2
  <2>5. part[i + 1] = part[i] + w[i + 1].len /\ w[i + 1] = q[b]
    BY ZenonT(60), <1>2, <1>5, <2>1 DEF Adds, Picks
  <2> HIDE DEF a, b, last
  <2>6. b - 1 \in 0..n-1 /\ b - 1 \in 0..n /\ a <= b - 1 /\ (b - 1) + 1 = b /\ b \in 0..n
    BY <1>3, <2>2, <2>3, <2>4
  <2>7. sum[(b - 1) + 1] = sum[b - 1] + q[(b - 1) + 1].len
    BY ZenonT(60), <1>4, <2>6 DEF Adds
  <2>8. sum[a] <= sum[b - 1]
    BY ZenonT(60), <1>4, <2>2, <2>6, AddsGrow
  <2>9. q[b].len \in Nat
    <3>1. q[b] \in Message
      BY <2>3
    <3> QED BY ZenonT(60), <3>1 DEF Message
  <2>10. sum[b] = sum[b - 1] + q[b].len /\ part[i + 1] = part[i] + q[b].len
    BY ZenonT(60), <2>5, <2>6, <2>7
  <2>11. part[i] \in Nat /\ sum[a] \in Nat /\ sum[b - 1] \in Nat
    <3>1. i \in 0..m
      BY <2>1, <1>1
    <3> QED BY ZenonT(60), <3>1, <1>6, <2>2, <2>6
  <2>12. part[i + 1] <= sum[b]
    BY <2>2, <2>8, <2>9, <2>10, <2>11
  <2>13. i + 1 <= b
    BY <2>2, <2>4, <2>3
  <2> QED BY ZenonT(60), <2>3, <2>6, <2>12, <2>13
<1> HIDE DEF S
<1>9. \A i \in Nat : i \in S
  BY ZenonT(60), <1>7, <1>8, Induction
<1>10. m <= last(m) /\ last(m) \in 0..n /\ part[m] <= sum[last(m)]
  <2>1. m \in S /\ m <= m
    BY <1>1, <1>9
  <2> QED BY ZenonT(60), <2>1 DEF S
<1> HIDE DEF last
<1>11. sum[last(m)] <= sum[n]
  <2>1. n \in 0..n /\ last(m) <= n
    BY <1>3, <1>10
  <2> QED BY ZenonT(60), <1>4, <1>10, <2>1, AddsGrow
<1>12. Length(q) = sum[n] /\ Length(w) = part[m]
  BY ZenonT(60), <1>1, <1>4, <1>5, LengthIs
<1>13. part[m] \in Nat /\ sum[last(m)] \in Nat /\ sum[n] \in Nat
  <2>1. m \in 0..m /\ n \in 0..n
    BY <1>1, <1>3
  <2> QED BY ZenonT(60), <1>6, <1>10, <2>1
<1>14. m <= n /\ part[m] <= sum[n]
  BY <1>1, <1>3, <1>10, <1>11, <1>13
<1> QED BY ZenonT(60), <1>12, <1>14 DEF w

Taken(s, a) == \A i \in 1..Len(s) : s[i].n \in 1..Len(a) /\ s[i] = a[s[i].n]
Has(s, m) == \E i \in 1..Len(s) : s[i] = m

\* What was read, r, and what is queued, q, of the messages a taken in.
Faithful(r, q, a) ==
  /\ r \in Seq(Message) /\ q \in Seq(Message) /\ a \in Seq(Message)
  /\ Taken(r, a) /\ Taken(q, a) /\ Ordered(r) /\ Ordered(q)
  /\ \A i \in 1..Len(r), j \in 1..Len(q) : r[i].n < q[j].n
  /\ \A k \in 1..Len(a) : IsControl(a[k]) => Has(r, a[k]) \/ Has(q, a[k])

LEMMA FaithfulThin ==
  ASSUME NEW r, NEW q, NEW a, NEW k, Faithful(r, q, a)
  PROVE  Faithful(r, WithoutOldest(q, k), a)
<1> DEFINE w == WithoutOldest(q, k)
<1>0. q \in Seq(Message) /\ Ordered(q)
  BY ZenonT(60) DEF Faithful
<1>1. Thins(q, w)
  BY ZenonT(60), <1>0, Thinned
<1> HIDE DEF w
<1>2. Taken(w, a)
  <2> SUFFICES ASSUME NEW i \in 1..Len(w) PROVE w[i].n \in 1..Len(a) /\ w[i] = a[w[i].n]
    BY ZenonT(60) DEF Taken
  <2>1. PICK j \in 1..Len(q) : w[i] = q[j]
    BY ZenonT(60), <1>1 DEF Thins
  <2>2. q[j].n \in 1..Len(a) /\ q[j] = a[q[j].n]
    BY ZenonT(60) DEF Faithful, Taken
  <2> QED BY ZenonT(60), <2>1, <2>2
<1>3. ASSUME NEW i \in 1..Len(r), NEW j \in 1..Len(w) PROVE r[i].n < w[j].n
  <2>1. PICK x \in 1..Len(q) : w[j] = q[x]
    BY ZenonT(60), <1>1 DEF Thins
  <2>2. r[i].n < q[x].n
    BY ZenonT(60) DEF Faithful
  <2> QED BY ZenonT(60), <2>1, <2>2
<1>4. ASSUME NEW x \in 1..Len(a), IsControl(a[x]) PROVE Has(r, a[x]) \/ Has(w, a[x])
  <2>1. Has(r, a[x]) \/ Has(q, a[x])
    BY ZenonT(60), <1>4 DEF Faithful
  <2>2. ASSUME Has(q, a[x]) PROVE Has(w, a[x])
    <3>1. PICK j \in 1..Len(q) : q[j] = a[x]
      BY ZenonT(60), <2>2 DEF Has
    <3>2. \E i \in 1..Len(w) : w[i] = q[j]
      BY ZenonT(60), <1>1, <1>4, <3>1 DEF Thins
    <3> QED BY ZenonT(60), <3>1, <3>2 DEF Has
  <2> QED BY ZenonT(60), <2>1, <2>2
<1> QED BY ZenonT(60), <1>1, <1>2, <1>3, <1>4 DEF Faithful, Thins, w

LEMMA FaithfulPush ==
  ASSUME NEW r, NEW q, NEW a, NEW m \in Message, m.n = Len(a) + 1, Faithful(r, q, a)
  PROVE  Faithful(r, Append(q, m), Append(a, m))
<1> DEFINE qq == Append(q, m) aa == Append(a, m)
<1>1. /\ Len(q) \in Nat /\ qq \in Seq(Message) /\ Len(qq) = Len(q) + 1
      /\ (\A i \in 1..Len(q) : qq[i] = q[i]) /\ qq[Len(q) + 1] = m
  BY ZenonT(60), Appended DEF Faithful
<1>2. /\ Len(a) \in Nat /\ aa \in Seq(Message) /\ Len(aa) = Len(a) + 1
      /\ (\A i \in 1..Len(a) : aa[i] = a[i]) /\ aa[Len(a) + 1] = m
  BY ZenonT(60), Appended DEF Faithful
<1> HIDE DEF qq, aa
<1>3. /\ \A i \in 1..Len(qq) : i \in 1..Len(q) \/ i = Len(q) + 1
      /\ \A i \in 1..Len(aa) : i \in 1..Len(a) \/ i = Len(a) + 1
      /\ Len(q) + 1 \in 1..Len(qq) /\ Len(a) + 1 \in 1..Len(aa)
      /\ \A i \in 1..Len(q) : i \in 1..Len(qq) /\ ~(Len(q) + 1 < i)
      /\ \A i \in 1..Len(a) : i \in 1..Len(aa) /\ i < Len(a) + 1
      /\ ~(Len(q) + 1 < Len(q) + 1)
  BY ZenonT(60), <1>1, <1>2, Grown
<1>4. qq[Len(q) + 1] = m /\ aa[Len(a) + 1] = m
  BY ZenonT(60), <1>1, <1>2
<1>5. Taken(r, aa)
  <2> SUFFICES ASSUME NEW i \in 1..Len(r) PROVE r[i].n \in 1..Len(aa) /\ r[i] = aa[r[i].n]
    BY ZenonT(60) DEF Taken
  <2>1. r[i].n \in 1..Len(a) /\ r[i] = a[r[i].n]
    BY ZenonT(60) DEF Faithful, Taken
  <2> QED BY ZenonT(60), <2>1, <1>2, <1>3
<1>6. Taken(qq, aa)
  <2> SUFFICES ASSUME NEW i \in 1..Len(qq) PROVE qq[i].n \in 1..Len(aa) /\ qq[i] = aa[qq[i].n]
    BY ZenonT(60) DEF Taken
  <2>1. CASE i \in 1..Len(q)
    <3>1. qq[i] = q[i] /\ q[i].n \in 1..Len(a) /\ q[i] = a[q[i].n]
      BY ZenonT(60), <2>1, <1>1 DEF Faithful, Taken
    <3>2. q[i].n \in 1..Len(aa) /\ aa[q[i].n] = a[q[i].n]
      BY ZenonT(60), <3>1, <1>2, <1>3
    <3> QED BY ZenonT(60), <3>1, <3>2
  <2>2. CASE i = Len(q) + 1
    BY ZenonT(60), <2>2, <1>3, <1>4
  <2> QED BY ZenonT(60), <2>1, <2>2, <1>3
<1>7. Ordered(qq)
  <2> SUFFICES ASSUME NEW i \in 1..Len(qq), NEW j \in 1..Len(qq), i < j PROVE qq[i].n < qq[j].n
    BY ZenonT(60) DEF Ordered
  <2>1. i \in 1..Len(q)
    BY <1>1
  <2>2. CASE j \in 1..Len(q)
    BY ZenonT(60), <2>1, <2>2, <1>1 DEF Faithful, Ordered
  <2>3. CASE j = Len(q) + 1
    BY ZenonT(60), <2>1, <2>3, <1>1, <1>3, <1>4 DEF Faithful, Taken
  <2> QED BY ZenonT(60), <2>2, <2>3, <1>3
<1>8. ASSUME NEW i \in 1..Len(r), NEW j \in 1..Len(qq) PROVE r[i].n < qq[j].n
  <2>1. CASE j \in 1..Len(q)
    BY ZenonT(60), <2>1, <1>1 DEF Faithful
  <2>2. CASE j = Len(q) + 1
    BY ZenonT(60), <2>2, <1>3, <1>4 DEF Faithful, Taken
  <2> QED BY ZenonT(60), <2>1, <2>2, <1>3
<1>9. ASSUME NEW k \in 1..Len(aa), IsControl(aa[k]) PROVE Has(r, aa[k]) \/ Has(qq, aa[k])
  <2>1. CASE k \in 1..Len(a)
    BY ZenonT(60), <2>1, <1>9, <1>1, <1>2, <1>3 DEF Faithful, Has
  <2>2. CASE k = Len(a) + 1
    BY ZenonT(60), <2>2, <1>3, <1>4 DEF Has
  <2> QED BY ZenonT(60), <2>1, <2>2, <1>3
<1>10. r \in Seq(Message) /\ Ordered(r)
  BY ZenonT(60) DEF Faithful
<1>11. Faithful(r, qq, aa)
  BY ZenonT(60), <1>1, <1>2, <1>5, <1>6, <1>7, <1>8, <1>9, <1>10 DEF Faithful
<1> QED BY ZenonT(60), <1>11 DEF qq, aa

LEMMA FaithfulPop ==
  ASSUME NEW r, NEW q, NEW a, Faithful(r, q, a), q # <<>>
  PROVE  Faithful(Append(r, Head(q)), Tail(q), a)
<1> DEFINE rr == Append(r, Head(q)) qq == Tail(q)
<1>1. /\ Len(q) \in Nat \ {0} /\ Head(q) = q[1] /\ q[1] \in Message
      /\ qq \in Seq(Message) /\ Len(qq) = Len(q) - 1
      /\ \A i \in 1..(Len(q) - 1) : qq[i] = q[i + 1]
  BY ZenonT(60), Popped DEF Faithful
<1>2. /\ Len(r) \in Nat /\ rr \in Seq(Message) /\ Len(rr) = Len(r) + 1
      /\ \A i \in 1..Len(r) : rr[i] = r[i]
      /\ rr[Len(r) + 1] = q[1]
  <2>1. r \in Seq(Message) /\ q[1] \in Message /\ Head(q) = q[1]
    BY ZenonT(60), <1>1 DEF Faithful
  <2>2. rr = Append(r, q[1])
    BY ZenonT(60), <2>1
  <2>3. /\ Len(r) \in Nat /\ Append(r, q[1]) \in Seq(Message)
        /\ Len(Append(r, q[1])) = Len(r) + 1
        /\ \A i \in 1..Len(r) : Append(r, q[1])[i] = r[i]
        /\ Append(r, q[1])[Len(r) + 1] = q[1]
    BY <2>1, Appended
  <2> HIDE DEF rr
  <2> QED BY ZenonT(60), <2>2, <2>3
<1> HIDE DEF rr, qq
<1>s. /\ 1 \in 1..Len(q)
      /\ \A i \in 1..Len(qq) : i + 1 \in 1..Len(q) /\ 1 < i + 1
      /\ \A i, j \in 1..Len(qq) : i < j => i + 1 < j + 1
      /\ \A j \in 1..Len(q) : j = 1 \/ (j - 1 \in 1..Len(qq) /\ (j - 1) + 1 = j)
  BY ZenonT(60), <1>1, Shrunk
<1>g. /\ \A i \in 1..Len(rr) : i \in 1..Len(r) \/ i = Len(r) + 1
      /\ \A i \in 1..Len(r) : i \in 1..Len(rr)
      /\ Len(r) + 1 \in 1..Len(rr)
  BY ZenonT(60), <1>2, Grown
<1>q. \A i \in 1..Len(qq) : qq[i] = q[i + 1]
  BY ZenonT(60), <1>1
<1>3. /\ 1 \in 1..Len(q)
      /\ \A i \in 1..Len(qq) : i + 1 \in 1..Len(q) /\ 1 < i + 1 /\ qq[i] = q[i + 1]
      /\ \A i, j \in 1..Len(qq) : i < j => i + 1 < j + 1
      /\ \A j \in 1..Len(q) : j = 1 \/ (j - 1 \in 1..Len(qq) /\ (j - 1) + 1 = j)
      /\ \A i \in 1..Len(rr) : i \in 1..Len(r) \/ i = Len(r) + 1
      /\ \A i \in 1..Len(r) : i \in 1..Len(rr)
      /\ Len(r) + 1 \in 1..Len(rr)
  BY ZenonT(60), <1>s, <1>g, <1>q
<1>t. Taken(q, a) /\ Taken(r, a)
  BY ZenonT(60) DEF Faithful
<1>4. Taken(qq, a)
  <2> SUFFICES ASSUME NEW i \in 1..Len(qq) PROVE qq[i].n \in 1..Len(a) /\ qq[i] = a[qq[i].n]
    BY ZenonT(60) DEF Taken
  <2>1. i + 1 \in 1..Len(q) /\ qq[i] = q[i + 1]
    BY ZenonT(60), <1>3
  <2>2. q[i + 1].n \in 1..Len(a) /\ q[i + 1] = a[q[i + 1].n]
    BY ZenonT(60), <1>t, <2>1 DEF Taken
  <2> QED BY ZenonT(60), <2>1, <2>2
<1>5. Taken(rr, a)
  BY ZenonT(60), <1>2, <1>3 DEF Faithful, Taken
<1>6. Ordered(qq)
  BY ZenonT(60), <1>3 DEF Faithful, Ordered
<1>7. Ordered(rr)
  <2> SUFFICES ASSUME NEW i \in 1..Len(rr), NEW j \in 1..Len(rr), i < j PROVE rr[i].n < rr[j].n
    BY ZenonT(60) DEF Ordered
  <2>1. i \in 1..Len(r)
    BY <1>2
  <2>2. CASE j \in 1..Len(r)
    BY ZenonT(60), <2>1, <2>2, <1>2 DEF Faithful, Ordered
  <2>3. CASE j = Len(r) + 1
    BY ZenonT(60), <2>1, <2>3, <1>2, <1>3 DEF Faithful
  <2> QED BY ZenonT(60), <2>2, <2>3, <1>3
<1>8. ASSUME NEW i \in 1..Len(rr), NEW j \in 1..Len(qq) PROVE rr[i].n < qq[j].n
  <2>1. CASE i \in 1..Len(r)
    BY ZenonT(60), <2>1, <1>2, <1>3 DEF Faithful
  <2>2. CASE i = Len(r) + 1
    BY ZenonT(60), <2>2, <1>2, <1>3 DEF Faithful, Ordered
  <2> QED BY ZenonT(60), <2>1, <2>2, <1>3
<1>9. ASSUME NEW k \in 1..Len(a), IsControl(a[k]) PROVE Has(rr, a[k]) \/ Has(qq, a[k])
  <2>1. CASE Has(r, a[k])
    BY ZenonT(60), <2>1, <1>2, <1>3 DEF Has
  <2>2. CASE Has(q, a[k])
    <3>1. PICK j \in 1..Len(q) : q[j] = a[k]
      BY ZenonT(60), <2>2 DEF Has
    <3>2. CASE j = 1
      BY ZenonT(60), <3>1, <3>2, <1>2, <1>3 DEF Has
    <3>3. CASE j - 1 \in 1..Len(qq) /\ (j - 1) + 1 = j
      <4>1. qq[j - 1] = q[j]
        BY ZenonT(60), <3>3, <1>3
      <4> QED BY ZenonT(60), <3>1, <3>3, <4>1 DEF Has
    <3> QED BY ZenonT(60), <3>2, <3>3, <1>3
  <2> QED BY ZenonT(60), <2>1, <2>2, <1>9 DEF Faithful
<1>10. a \in Seq(Message)
  BY ZenonT(60) DEF Faithful
<1>11. Faithful(rr, qq, a)
  BY ZenonT(60), <1>1, <1>2, <1>4, <1>5, <1>6, <1>7, <1>8, <1>9, <1>10 DEF Faithful
<1> QED BY ZenonT(60), <1>11 DEF rr, qq

Complete(kept, a) ==
  /\ \A i \in DOMAIN kept : kept[i].n \in DOMAIN a /\ kept[i] = a[kept[i].n]
  /\ \A i, j \in DOMAIN kept : i < j => kept[i].n < kept[j].n
  /\ \A k \in DOMAIN a : IsControl(a[k]) => \E i \in DOMAIN kept : kept[i] = a[k]

LEMMA FaithfulHeld ==
  ASSUME NEW r, NEW q, NEW a, Faithful(r, q, a)
  PROVE  Complete(r \o q, a)
<1> DEFINE h == r \o q l == Len(r)
<1>1. /\ DOMAIN h = 1..(l + Len(q)) /\ DOMAIN a = 1..Len(a) /\ l \in Nat /\ Len(q) \in Nat
      /\ \A i \in 1..l : h[i] = r[i]
      /\ \A i \in 1..Len(q) : h[l + i] = q[i]
  <2>1. r \in Seq(Message) /\ q \in Seq(Message) /\ a \in Seq(Message)
    BY ZenonT(60) DEF Faithful
  <2>2. DOMAIN a = 1..Len(a)
    BY ZenonT(60), <2>1, Domain
  <2>3. /\ DOMAIN h = 1..(Len(r) + Len(q)) /\ Len(r) \in Nat /\ Len(q) \in Nat
        /\ \A i \in 1..Len(r) : h[i] = r[i]
        /\ \A i \in 1..Len(q) : h[Len(r) + i] = q[i]
    BY <2>1, Joined
  <2> QED BY ZenonT(60), <2>2, <2>3
<1> HIDE DEF h, l
<1>2. ASSUME NEW i \in DOMAIN h
      PROVE  i \in 1..l \/ (i > l /\ i - l \in 1..Len(q) /\ l + (i - l) = i)
  BY ZenonT(60), <1>1, Halves
<1>3. ASSUME NEW i \in DOMAIN h PROVE h[i].n \in DOMAIN a /\ h[i] = a[h[i].n]
  <2>1. CASE i \in 1..l
    BY ZenonT(60), <2>1, <1>1 DEF Faithful, Taken, l
  <2>2. CASE i - l \in 1..Len(q) /\ l + (i - l) = i
    <3>1. h[i] = q[i - l]
      BY ZenonT(60), <2>2, <1>1
    <3> QED BY ZenonT(60), <2>2, <3>1, <1>1 DEF Faithful, Taken
  <2> QED BY ZenonT(60), <2>1, <2>2, <1>2
<1>4. ASSUME NEW i \in DOMAIN h, NEW j \in DOMAIN h, i < j PROVE h[i].n < h[j].n
  <2>1. CASE j \in 1..l
    <3>1. i \in 1..l
      BY ZenonT(60), <2>1, <1>1, <1>4, Halves
    <3> QED BY ZenonT(60), <2>1, <3>1, <1>1, <1>4 DEF Faithful, Ordered, l
  <2>2. CASE j - l \in 1..Len(q) /\ l + (j - l) = j
    <3>1. h[j] = q[j - l]
      BY ZenonT(60), <2>2, <1>1
    <3>2. CASE i \in 1..l
      BY ZenonT(60), <2>2, <3>1, <3>2, <1>1 DEF Faithful, l
    <3>3. CASE i - l \in 1..Len(q) /\ l + (i - l) = i
      <4>1. h[i] = q[i - l] /\ i - l < j - l
        BY ZenonT(60), <3>3, <1>1, <1>4, Halves
      <4> QED BY ZenonT(60), <2>2, <3>1, <3>3, <4>1 DEF Faithful, Ordered
    <3> QED BY ZenonT(60), <3>2, <3>3, <1>2
  <2> QED BY ZenonT(60), <2>1, <2>2, <1>2
<1>5. ASSUME NEW k \in DOMAIN a, IsControl(a[k]) PROVE \E i \in DOMAIN h : h[i] = a[k]
  <2>1. CASE Has(r, a[k])
    <3>1. \A i \in 1..l : i \in DOMAIN h
      BY ZenonT(60), <1>1, Halves
    <3> QED BY ZenonT(60), <2>1, <3>1, <1>1 DEF Has, l
  <2>2. CASE Has(q, a[k])
    <3>1. \A i \in 1..Len(q) : l + i \in DOMAIN h
      BY ZenonT(60), <1>1, Halves
    <3> QED BY ZenonT(60), <2>2, <3>1, <1>1 DEF Has
  <2> QED BY ZenonT(60), <2>1, <2>2, <1>5, <1>1 DEF Faithful
<1>6. Complete(h, a)
  BY ZenonT(60), <1>3, <1>4, <1>5 DEF Complete
<1> QED BY ZenonT(60), <1>6 DEF h

Bounded(q) == Len(q) <= InboundBound /\ Length(q) <= InboundBytes

LEMMA Pushed ==
  ASSUME NEW r, NEW q, NEW a, NEW m \in Message, m.n = Len(a) + 1,
         Faithful(r, q, a), Bounded(q)
  PROVE  LET pushed == Push(q, m) IN
         /\ pushed.taken \in BOOLEAN
         /\ pushed.taken => Faithful(r, pushed.queue, Append(a, m)) /\ Bounded(pushed.queue)
         /\ ~pushed.taken => Faithful(r, pushed.queue, a) /\ Bounded(pushed.queue)
<1> DEFINE most == Cardinality(Datagrams(q))
<1> DEFINE fitting == {k \in 0..most : Fits(WithoutOldest(q, k), m)}
<1>1. CASE fitting = {}
  <2>1. Push(q, m) = [taken |-> FALSE, queue |-> WithoutOldest(q, most)]
    BY ZenonT(60), <1>1 DEF Push
  <2>2. Faithful(r, WithoutOldest(q, most), a)
    BY ZenonT(60), FaithfulThin
  <2>3. Bounded(WithoutOldest(q, most))
    <3> DEFINE w == WithoutOldest(q, most)
    <3>1. q \in Seq(Message) /\ w \in Seq(Message)
      BY ZenonT(60), <2>2 DEF Faithful
    <3>2. Len(w) <= Len(q) /\ Length(w) <= Length(q)
      BY ZenonT(60), <3>1, Shorter
    <3>3. Length(w) \in Nat /\ Length(q) \in Nat
      BY ZenonT(60), <3>1, LengthAppend
    <3> HIDE DEF w
    <3>4. Len(w) \in Nat /\ Len(q) \in Nat
      BY <3>1
    <3>5. Bounded(w)
      BY <3>2, <3>3, <3>4, SocketBounds DEF Bounded
    <3> QED BY ZenonT(60), <3>5 DEF w
  <2> HIDE DEF most, fitting
  <2> QED BY <2>1, <2>2, <2>3
<1>2. CASE fitting # {}
  <2> DEFINE k == Min(fitting)
  <2> DEFINE w == WithoutOldest(q, k)
  <2>1. Push(q, m) = [taken |-> TRUE, queue |-> Append(w, m)]
    BY ZenonT(60), <1>2 DEF Push
  <2>2. fitting \subseteq Nat
    BY DEF Fits
  <2>3. k \in fitting
    <3> HIDE DEF fitting
    <3> QED BY ZenonT(60), <1>2, <2>2, MinOf
  <2>4. Fits(w, m)
    BY ZenonT(60), <2>3
  <2>5. Faithful(r, w, a)
    BY ZenonT(60), FaithfulThin
  <2> HIDE DEF w, k, fitting, most
  <2>6. Faithful(r, Append(w, m), Append(a, m))
    BY ZenonT(60), <2>5, FaithfulPush
  <2>7. w \in Seq(Message)
    BY ZenonT(60), <2>5 DEF Faithful
  <2>8. Length(w) \in Nat /\ Length(Append(w, m)) = Length(w) + m.len
    BY ZenonT(60), <2>7, LengthAppend
  <2>9. Len(Append(w, m)) = Len(w) + 1 /\ Len(w) \in Nat
    BY <2>7
  <2>10. Bounded(Append(w, m))
    BY <2>4, <2>8, <2>9, SocketBounds DEF Fits, Bounded
  <2> QED BY <2>1, <2>6, <2>10
<1> QED BY ZenonT(60), <1>1, <1>2

\* What the driver read and what waits for it, as the handlers and polls leave it.
Delivery(s, r, a) ==
  /\ s = [open |-> s.open, ended |-> s.ended, queue |-> s.queue]
  /\ Faithful(r, s.queue, a) /\ Bounded(s.queue)

InboundInv == Delivery(shared, read, arrived)

LEMMA LengthEmpty == Length(<<>>) = 0
<1>1. <<>> \in Seq(Message) /\ Len(<<>>) = 0
  OBVIOUS
<1>2. 0 \in Nat /\ 0 <= Len(<<>>)
  BY <1>1
<1>3. PICK sum : Adds(<<>>, 0, sum)
  BY ZenonT(60), <1>1, <1>2, AddsExists
<1>4. sum[0] = 0
  BY ZenonT(60), <1>3 DEF Adds
<1> QED BY ZenonT(60), <1>1, <1>3, <1>4, LengthIs

LEMMA NothingYet == Delivery(Fresh, <<>>, <<>>)
<1>1. Fresh.queue = <<>> /\ Fresh = [open |-> Fresh.open, ended |-> Fresh.ended, queue |-> Fresh.queue]
  BY ZenonT(60) DEF Fresh
<1>2. <<>> \in Seq(Message) /\ Len(<<>>) = 0 /\ \A i \in 1..Len(<<>>) : FALSE
  OBVIOUS
<1>3. Faithful(<<>>, <<>>, <<>>)
  BY ZenonT(60), <1>2 DEF Faithful, Taken, Ordered, Has
<1>4. Bounded(<<>>)
  BY <1>2, LengthEmpty, SocketBounds DEF Bounded
<1> QED BY ZenonT(60), <1>1, <1>3, <1>4 DEF Delivery

\* A flag of the socket changes nothing of what was delivered.
LEMMA FlagsApart ==
  ASSUME NEW s, NEW r, NEW a, Delivery(s, r, a), NEW v
  PROVE  Delivery([s EXCEPT !.open = v], r, a) /\ Delivery([s EXCEPT !.ended = v], r, a)
<1> DEFINE x == [s EXCEPT !.open = v] y == [s EXCEPT !.ended = v]
<1>1. /\ x = [open |-> x.open, ended |-> x.ended, queue |-> x.queue] /\ x.queue = s.queue
      /\ y = [open |-> y.open, ended |-> y.ended, queue |-> y.queue] /\ y.queue = s.queue
  BY DEF Delivery
<1> HIDE DEF x, y
<1>2. Delivery(x, r, a) /\ Delivery(y, r, a)
  BY ZenonT(60), <1>1 DEF Delivery
<1> QED BY ZenonT(60), <1>2 DEF x, y

LEMMA PollDelivers ==
  ASSUME NEW s, NEW r, NEW a, Delivery(s, r, a), s.queue # <<>>
  PROVE  Delivery([s EXCEPT !.queue = Tail(@)], Append(r, Head(s.queue)), a)
<1> DEFINE x == [s EXCEPT !.queue = Tail(@)] q == s.queue
<1>1. x = [open |-> x.open, ended |-> x.ended, queue |-> x.queue] /\ x.queue = Tail(q)
  BY DEF Delivery
<1>2. Faithful(r, q, a) /\ Bounded(q) /\ q # <<>>
  BY ZenonT(60) DEF Delivery
<1> HIDE DEF x, q
<1>3. Faithful(Append(r, Head(q)), Tail(q), a)
  BY ZenonT(60), <1>2, FaithfulPop
<1>4. q \in Seq(Message)
  BY ZenonT(60), <1>2 DEF Faithful
<1>5. /\ Head(q) \in Message /\ Tail(q) \in Seq(Message)
      /\ Len(Tail(q)) <= Len(q) /\ Len(Tail(q)) \in Nat /\ Len(q) \in Nat
  BY ZenonT(60), <1>2, <1>4, Popped
<1>6. Length(Tail(q)) <= Length(q) /\ Length(q) \in Nat /\ Length(Tail(q)) \in Nat
  BY ZenonT(60), <1>2, <1>4, <1>5, LengthTail, LengthAppend
<1>7. Bounded(Tail(q))
  <2>1. \A u, v, n \in Nat : u <= v /\ v <= n => u <= n
    OBVIOUS
  <2>2. InboundBound \in Nat /\ InboundBytes \in Nat
    BY ZenonT(60), SocketBounds
  <2> QED BY ZenonT(60), <1>2, <1>5, <1>6, <2>1, <2>2 DEF Bounded
<1>8. Delivery(x, Append(r, Head(q)), a)
  BY ZenonT(60), <1>1, <1>3, <1>7 DEF Delivery
<1> QED BY ZenonT(60), <1>8 DEF x, q

LEMMA MessageDelivers ==
  ASSUME NEW s, NEW r, NEW a, Delivery(s, r, a), NEW m \in Message, m.n = Len(a) + 1
  PROVE  LET pushed == Push(s.queue, m)
             after == [open |-> s.open, ended |-> ~pushed.taken, queue |-> pushed.queue]
         IN /\ pushed.taken => Delivery(after, r, Append(a, m))
            /\ ~pushed.taken => Delivery(after, r, a)
<1> DEFINE pushed == Push(s.queue, m)
<1> DEFINE refused == ~pushed.taken
<1> DEFINE after == [open |-> s.open, ended |-> refused, queue |-> pushed.queue]
<1>1. /\ pushed.taken => Faithful(r, pushed.queue, Append(a, m)) /\ Bounded(pushed.queue)
      /\ ~pushed.taken => Faithful(r, pushed.queue, a) /\ Bounded(pushed.queue)
  BY ZenonT(60), Pushed DEF Delivery
<1> HIDE DEF pushed, refused
<1>2. /\ after = [open |-> after.open, ended |-> after.ended, queue |-> after.queue]
      /\ after.queue = pushed.queue
  BY ZenonT(60)
<1> HIDE DEF after
<1>3. /\ pushed.taken => Delivery(after, r, Append(a, m))
      /\ ~pushed.taken => Delivery(after, r, a)
  BY ZenonT(60), <1>1, <1>2 DEF Delivery
<1> QED BY ZenonT(60), <1>3 DEF pushed, after, refused

LEMMA InboundStep ==
  ASSUME InboundInv, [StreamsNext]_streamVars
  PROVE  InboundInv'
<1>1. CASE UNCHANGED <<shared, arrived, read>>
  BY ZenonT(60), <1>1 DEF InboundInv
<1>2. CASE Open
  <2>1. shared' = Fresh /\ arrived' = <<>> /\ read' = <<>>
    BY ZenonT(60), <1>2 DEF Open
  <2> QED BY ZenonT(60), <2>1, NothingYet DEF InboundInv
<1>3. CASE PollOpen \/ GivesUp \/ Stops \/ Finishes \/ Stop
  <2>1. UNCHANGED <<shared, arrived, read>>
    BY ZenonT(60), <1>3 DEF PollOpen, GivesUp, Stops, Finishes, Stop, Leaves
  <2> QED BY ZenonT(60), <2>1, <1>1
<1>4. CASE PollNext
  <2>1. CASE shared.queue # <<>>
    <3>1. /\ shared' = [shared EXCEPT !.queue = Tail(@)]
          /\ read' = Append(read, Head(shared.queue)) /\ arrived' = arrived
      BY ZenonT(60), <1>4, <2>1 DEF PollNext
    <3>2. Delivery([shared EXCEPT !.queue = Tail(@)], Append(read, Head(shared.queue)), arrived)
      BY ZenonT(60), <2>1, PollDelivers DEF InboundInv
    <3> QED BY ZenonT(60), <3>1, <3>2 DEF InboundInv
  <2>2. CASE shared.queue = <<>>
    <3>1. UNCHANGED <<shared, arrived, read>>
      BY ZenonT(60), <1>4, <2>2 DEF PollNext, Leaves
    <3> QED BY ZenonT(60), <3>1, <1>1
  <2> QED BY ZenonT(60), <2>1, <2>2
<1>5. ASSUME Ends, UNCHANGED <<arrived, read>> PROVE InboundInv'
  <2>1. shared' = [shared EXCEPT !.ended = TRUE]
    BY ZenonT(60), <1>5 DEF Ends
  <2> QED BY ZenonT(60), <1>5, <2>1, FlagsApart DEF InboundInv
<1>6. ASSUME NEW kind \in {"control", "datagram"}, NEW len \in Nat, PageMessage(kind, len)
      PROVE  InboundInv'
  <2> DEFINE m == [kind |-> kind, len |-> len, n |-> Len(arrived) + 1]
  <2> DEFINE pushed == Push(shared.queue, m)
  <2>1. CASE len > MaxMessage
    <3>1. Ends /\ UNCHANGED <<arrived, read>>
      BY ZenonT(60), <1>6, <2>1 DEF PageMessage
    <3> QED BY ZenonT(60), <3>1, <1>5
  <2>2. CASE ~(len > MaxMessage)
    <3>1. /\ shared' = [open |-> shared.open, ended |-> ~pushed.taken, queue |-> pushed.queue]
          /\ IF pushed.taken THEN arrived' = Append(arrived, m) ELSE arrived' = arrived
          /\ read' = read
      BY ZenonT(60), <1>6, <2>2 DEF PageMessage
    <3>2. Len(arrived) \in Nat
      <4>1. arrived \in Seq(Message)
        BY ZenonT(60) DEF InboundInv, Delivery, Faithful
      <4> QED BY <4>1
    <3>3. m \in Message /\ m.n = Len(arrived) + 1
      BY <3>2 DEF Message
    <3> HIDE DEF m
    <3>4. /\ pushed.taken => Delivery(shared', read, Append(arrived, m))
          /\ ~pushed.taken => Delivery(shared', read, arrived)
      BY ZenonT(60), <3>1, <3>3, MessageDelivers DEF InboundInv
    <3> QED BY ZenonT(60), <3>1, <3>4 DEF InboundInv
  <2> QED BY ZenonT(60), <2>1, <2>2
<1>7. ASSUME NEW i, PageOpens(i) \/ PageCloses(i) \/ GuardDrops(i) PROVE InboundInv'
  <2>1. CASE PageOpens(i)
    <3>1. shared' = [shared EXCEPT !.open = TRUE] /\ UNCHANGED <<arrived, read>>
      BY ZenonT(60), <2>1 DEF PageOpens
    <3> QED BY ZenonT(60), <3>1, FlagsApart DEF InboundInv
  <2>2. CASE PageCloses(i) \/ GuardDrops(i)
    <3>1. UNCHANGED <<arrived, read>> /\ (Ends \/ UNCHANGED shared)
      BY ZenonT(60), <2>2 DEF PageCloses, GuardDrops
    <3> QED BY ZenonT(60), <3>1, <1>1, <1>5
  <2> QED BY ZenonT(60), <1>7, <2>1, <2>2
<1>8. \A len \in 0..MaxMessage + 1 : len \in Nat
  BY SocketBounds
<1>9. \A len \in 1..MaxMessage + 1 : len \in Nat
  BY SocketBounds
<1>10. CASE PageNext
  BY ZenonT(60), <1>10, <1>2, <1>3, <1>4, <1>6, <1>7, <1>8, <1>9 DEF PageNext
<1>11. CASE UNCHANGED pageVars
  BY ZenonT(60), <1>11, <1>1 DEF pageVars
<1> QED BY ZenonT(60), <1>10, <1>11 DEF StreamsNext, streamVars

\* What the relay sends reaches the driver, whatever the bounds of the queue and
\* however long the messages: InboundQueue keeps the order and every control frame
\* through any number of overflows, the refused one included, and stays within its
\* bounds (push, pop and the handlers of web.rs).
THEOREM InboundKeptCorrect == StreamsSpec => []InboundKept
<1>1. StreamsInit => InboundInv
  BY ZenonT(60), NothingYet DEF StreamsInit, PageInit, PageEnded, InboundInv
<1>2. InboundInv /\ NeverAsleepOnNews => InboundKept
  <2> SUFFICES ASSUME InboundInv, NeverAsleepOnNews PROVE InboundKept
    BY ZenonT(60)
  <2>1. Faithful(read, shared.queue, arrived) /\ Bounded(shared.queue)
    BY ZenonT(60) DEF InboundInv, Delivery
  <2>2. Complete(read \o shared.queue, arrived)
    BY ZenonT(60), <2>1, FaithfulHeld
  <2> QED BY ZenonT(60), <2>1, <2>2 DEF Bounded, Complete, InboundKept
<1> QED BY <1>1, <1>2, InboundStep, NeverAsleepOnNewsCorrect, PTL DEF StreamsSpec

=============================================================================
