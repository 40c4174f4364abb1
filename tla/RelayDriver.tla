----------------------------- MODULE RelayDriver -----------------------------
(***************************************************************************)
(* One relay driver: driver, connect and pump of crates/link-endpoint/src/ *)
(* relay_client.rs.  It walks its list of relays, registers the tag book,  *)
(* re-registers when the book or the epoch changes, backs off, and tells   *)
(* the rest of the endpoint its status.  SendQueue has its send queue.     *)
(*                                                                         *)
(* pc: top (of the loop), open (waiting for the challenge), challenged,    *)
(* sent (waiting for the welcome), pump, snapshot (in pump, about to take  *)
(* a registration), wait (a sleep), returned, stopped.  An await with a    *)
(* timeout has a timer, the ticks that are left.  Durations are capped at  *)
(* Cap, beyond which nothing tells them apart.                             *)
(***************************************************************************)
EXTENDS Naturals

CONSTANTS
  Relays,          \* how many relays are configured
  Alive,           \* the indices of those that can be reached at all
  ConnectTimeout, Deadline, BackoffMax,   \* in ticks; BACKOFF_MIN is one
  MaxBook, MaxEpoch,                      \* bounds on what the model explores
  None

ASSUME RelaysAssumption == Relays \in Nat \ {0} /\ Alive \subseteq 0..(Relays - 1)
ASSUME TimesAssumption ==
  ConnectTimeout \in Nat \ {0} /\ Deadline \in Nat /\ BackoffMax \in Nat \ {0}
ASSUME BoundsAssumption == MaxBook \in Nat /\ MaxEpoch \in Nat
ASSUME NoneAssumption == None \notin Nat

VARIABLES
  pc, index, status, backoff, timer,
  downFor,      \* elapsed since down_since; None: not set
  outage,       \* observer: how long there has been no session
  tagMode,      \* registers the tags of a book instead of the node ID
  book,         \* TagBook: how often it was written
  announced,    \* how many of the writes were followed by bump
  empty,        \* it holds no pair
  noticed,      \* book_changes: the latest bump the receiver has seen
  lastVersion, lastEpoch,
  reg,          \* the book, as registered with the relay of this session
  regEpoch,     \* the epoch of that registration
  epoch,
  ticked,       \* observer: registered or refreshed since the epoch turned
  stop

timing == <<backoff, timer, downFor, outage>>
material == <<tagMode, book, announced, empty>>
noted == <<noticed, lastVersion, lastEpoch>>
held == <<reg, regEpoch>>
clock == <<epoch, ticked>>
vars == <<pc, index, status, timing, material, noted, held, clock, stop>>

\* The longest a relay can be missing before sessions are told: down_since is
\* set when the first attempt ends, perhaps after an idle pause of one tick,
\* and the deadline is tested when an attempt ends.
LongestOutage == 1 + ConnectTimeout + Deadline + BackoffMax + ConnectTimeout
Cap == LongestOutage + 1
Later(t) == IF t = Cap THEN Cap ELSE t + 1
Doubled(b) == IF 2 * b < BackoffMax THEN 2 * b ELSE BackoffMax

Init ==
  /\ pc = "top" /\ index = 0 /\ status = "Connecting"
  /\ backoff = 1 /\ timer = None /\ downFor = None /\ outage = 0
  /\ tagMode \in BOOLEAN
  /\ book = 0 /\ announced = 0 /\ empty \in BOOLEAN
  /\ noticed = 0 /\ lastVersion = 0 /\ lastEpoch = 0
  /\ reg = 0 /\ regEpoch = 0
  /\ epoch = 0 /\ ticked = TRUE
  /\ stop = FALSE

-----------------------------------------------------------------------------
(* driver and connect.                                                     *)

Connecting == pc \in {"open", "challenged", "sent"}
InSession == pc \in {"pump", "snapshot"}

\* A tag node without pairs has nothing to register: no attempt, no deadline.
Idle ==
  /\ pc = "top" /\ tagMode /\ empty
  /\ pc' = "wait" /\ timer' = 1
  /\ status' = "Connecting"
  /\ downFor' = None /\ outage' = 0
  /\ UNCHANGED <<index, backoff, material, noted, held, clock, stop>>

\* The driver subscribes to the book before connect takes its snapshot.
Attempt ==
  /\ pc = "top" /\ ~(tagMode /\ empty)
  /\ pc' = "open" /\ timer' = ConnectTimeout
  /\ noticed' = announced
  /\ UNCHANGED <<index, status, backoff, downFor, outage, material,
                 lastVersion, lastEpoch, held, clock, stop>>

\* The WebSocket is open and the challenge has come.
Challenge ==
  /\ pc = "open" /\ index \in Alive
  /\ pc' = "challenged"
  /\ UNCHANGED <<index, status, timing, material, noted, held, clock, stop>>

\* Auth, or Register with the tags of the book as it is now.
SendHello ==
  /\ pc = "challenged" /\ ~(tagMode /\ empty)
  /\ pc' = "sent"
  /\ reg' = book /\ regEpoch' = epoch /\ ticked' = TRUE
  /\ UNCHANGED <<index, status, timing, material, noted, epoch, stop>>

Welcome_SubscribesLate ==
  /\ pc = "sent"
  /\ pc' = "pump" /\ timer' = None
  /\ status' = "Up" /\ backoff' = 1 /\ outage' = 0
  /\ lastEpoch' = epoch /\ lastVersion' = announced /\ noticed' = announced
  /\ UNCHANGED <<index, downFor, material, held, clock, stop>>

\* The session is up and pump starts.
Welcome ==
  /\ pc = "sent"
  /\ pc' = "pump" /\ timer' = None
  /\ status' = "Up" /\ backoff' = 1 /\ outage' = 0
  /\ lastEpoch' = epoch /\ lastVersion' = announced
  /\ UNCHANGED <<index, downFor, material, noticed, held, clock, stop>>

\* The next relay is next, after a pause that doubles.
NextRelay == index' = (index + 1) % Relays

Fails_SameRelay ==
  LET since == IF downFor = None THEN 0 ELSE downFor IN
  /\ Connecting
  /\ pc' = "wait" /\ timer' = backoff /\ backoff' = Doubled(backoff)
  /\ downFor' = since
  /\ status' = IF since > Deadline THEN "Failed" ELSE "Reconnecting"
  /\ UNCHANGED <<index, outage, material, noted, held, clock, stop>>

\* Any error of connect, an empty book included, or its timeout.
Fails ==
  LET since == IF downFor = None THEN 0 ELSE downFor IN
  /\ Connecting
  /\ pc' = "wait" /\ timer' = backoff /\ backoff' = Doubled(backoff)
  /\ downFor' = since
  /\ status' = IF since > Deadline THEN "Failed" ELSE "Reconnecting"
  /\ NextRelay
  /\ UNCHANGED <<outage, material, noted, held, clock, stop>>

WakeUp ==
  /\ pc = "wait" /\ timer = 0
  /\ pc' = "top" /\ timer' = None
  /\ UNCHANGED <<index, status, backoff, downFor, outage, material, noted, held, clock, stop>>

-----------------------------------------------------------------------------
(* pump.                                                                   *)

\* The tick of every minute, the first one at once.
Refresh ==
  /\ pc = "pump" /\ tagMode
  /\ ticked' = TRUE
  /\ IF epoch # lastEpoch \/ announced # lastVersion
     THEN pc' = "snapshot" /\ lastEpoch' = epoch /\ lastVersion' = announced
     ELSE UNCHANGED <<pc, lastEpoch, lastVersion>>
  /\ UNCHANGED <<index, status, timing, material, noticed, held, epoch, stop>>

\* The book has been bumped since the receiver last looked.
Changed ==
  /\ pc = "pump" /\ tagMode
  /\ noticed # announced
  /\ pc' = "snapshot"
  /\ noticed' = announced /\ lastEpoch' = epoch /\ lastVersion' = announced
  /\ UNCHANGED <<index, status, timing, material, held, clock, stop>>

\* The tags are read from the book and sent.
Register ==
  /\ pc = "snapshot"
  /\ pc' = "pump"
  /\ reg' = book /\ regEpoch' = epoch
  /\ UNCHANGED <<index, status, timing, material, noted, clock, stop>>

PumpLost_KeepsSince ==
  /\ InSession
  /\ pc' = "top" /\ status' = "Reconnecting"
  /\ downFor' = IF downFor = None THEN 0 ELSE downFor
  /\ NextRelay
  /\ UNCHANGED <<backoff, timer, outage, material, noted, held, clock, stop>>

\* The session ends for any reason but supersession.
PumpLost ==
  /\ InSession
  /\ pc' = "top" /\ status' = "Reconnecting"
  /\ downFor' = 0
  /\ NextRelay
  /\ UNCHANGED <<backoff, timer, outage, material, noted, held, clock, stop>>

\* A newer session has the node ID: the driver ends.  Or a tag: it backs off.
PumpSuperseded ==
  /\ InSession
  /\ IF tagMode
     THEN /\ pc' = "wait" /\ timer' = BackoffMax
          /\ status' = "Reconnecting" /\ downFor' = 0
          /\ NextRelay
     ELSE /\ pc' = "returned" /\ status' = "Superseded"
          /\ UNCHANGED <<timer, downFor, index>>
  /\ UNCHANGED <<backoff, outage, material, noted, held, clock, stop>>

-----------------------------------------------------------------------------
(* The rest of the endpoint, and time.                                     *)

\* RelayClient::close.
Close ==
  /\ ~stop
  /\ stop' = TRUE
  /\ UNCHANGED <<pc, index, status, timing, material, noted, held, clock>>

\* The task sees it at its next await.
Stopped ==
  /\ stop /\ pc \notin {"top", "returned", "stopped"}
  /\ pc' = "stopped" /\ status' = "Failed"
  /\ UNCHANGED <<index, timing, material, noted, held, clock, stop>>

\* A pair is added, replaced or removed; bump follows outside the lock.
WriteBook ==
  /\ tagMode /\ book < MaxBook
  /\ book' = book + 1
  /\ empty' \in BOOLEAN
  /\ UNCHANGED <<pc, index, status, timing, tagMode, announced, noted, held, clock, stop>>

Bump ==
  /\ announced < book
  /\ announced' = announced + 1
  /\ UNCHANGED <<pc, index, status, timing, tagMode, book, empty, noted, held, clock, stop>>

\* An epoch is an hour: in a session a tick comes before the next one turns.
EpochTurns ==
  /\ epoch < MaxEpoch
  /\ (pc = "sent" \/ InSession) => ticked
  /\ epoch' = epoch + 1 /\ ticked' = FALSE
  /\ UNCHANGED <<pc, index, status, timing, material, noted, held, stop>>

\* Time passes while the driver awaits something, no longer than its timer.
Tick ==
  /\ pc \notin {"top", "snapshot", "returned", "stopped"}
  /\ timer # 0
  /\ timer' = IF timer = None THEN None ELSE timer - 1
  /\ downFor' = IF downFor = None THEN None ELSE Later(downFor)
  /\ outage' = IF InSession THEN 0 ELSE Later(outage)
  /\ UNCHANGED <<pc, index, status, backoff, material, noted, held, clock, stop>>

-----------------------------------------------------------------------------
Connect == Attempt \/ Challenge \/ SendHello \/ Welcome \/ Fails
Pump == Refresh \/ Changed \/ Register \/ PumpLost \/ PumpSuperseded
Others == Close \/ WriteBook \/ Bump \/ EpochTurns

Next == Idle \/ Connect \/ WakeUp \/ Pump \/ Stopped \/ Others \/ Tick

Spec == Init /\ [][Next]_vars

\* The task runs and time passes; a relay that can be reached, tried again and
\* again, answers at last.
FairSpec ==
  /\ Spec
  /\ WF_vars(Idle \/ Attempt \/ WakeUp \/ Tick \/ (Fails /\ timer = 0))
  /\ SF_vars(Challenge) /\ SF_vars(SendHello) /\ SF_vars(Welcome)

-----------------------------------------------------------------------------
(* Properties.                                                             *)

Labels == {"top", "open", "challenged", "sent", "pump", "snapshot", "wait",
           "returned", "stopped"}
Statuses == {"Connecting", "Up", "Reconnecting", "Superseded", "Failed"}

\* Every variable stays in its range.
TypeOK ==
  /\ pc \in Labels /\ index \in 0..(Relays - 1) /\ status \in Statuses
  /\ backoff \in 1..BackoffMax /\ timer \in Nat \cup {None}
  /\ downFor \in (0..Cap) \cup {None} /\ outage \in 0..Cap
  /\ tagMode \in BOOLEAN
  /\ book \in Nat /\ announced \in 0..book /\ empty \in BOOLEAN
  /\ noticed \in 0..announced /\ lastVersion \in 0..announced
  /\ epoch \in Nat /\ lastEpoch \in 0..epoch
  /\ reg \in 0..book /\ regEpoch \in 0..epoch
  /\ ticked \in BOOLEAN /\ stop \in BOOLEAN

\* "Subscribe before taking the registration snapshot": no write of the book is
\* lost on a live session.  If the relay does not hold the book as it is, a
\* bump is still to come, or has come and is still to be noticed.
RegistrationFollows ==
  pc = "pump" /\ tagMode /\ reg # book => announced < book \/ noticed # announced

\* Once the minute tick has followed the turn of an epoch, the relay holds the
\* tags of the current one.
CurrentEpochHeld ==
  pc = "pump" /\ tagMode /\ ticked => epoch <= regEpoch + 1

\* Sessions are told Failed only when there was no relay for the whole
\* deadline, however often sessions came up and were lost before.
FailedMeansOutage ==
  status = "Failed" /\ pc # "stopped" => outage > Deadline

\* ... and are told once the deadline and one more round of backoff and
\* attempt have passed.
FailureIsTimely ==
  outage > LongestOutage => status \in {"Failed", "Superseded"}

\* With a relay that answers somewhere in the list, and something to register,
\* a driver that is neither stopped nor superseded always has a session again.
FailsOver ==
  \/ []<>InSession
  \/ []<>(tagMode /\ empty)
  \/ <>(pc \in {"returned", "stopped"})

\* What the relay holds keeps up with the book and the epoch on a live session
\* (connect, the changed and tick arms of pump).
RegistrationCurrent == RegistrationFollows /\ CurrentEpochHeld

\* Failed is announced neither early nor late (driver, down_since).
FailureHonest == FailedMeansOutage /\ FailureIsTimely

====
