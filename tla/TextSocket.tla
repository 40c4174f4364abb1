----------------------------- MODULE TextSocket -----------------------------
(***************************************************************************)
(* A text WebSocket on a Link stream, crates/link-websocket/src/lib.rs, with *)
(* the listener loop of its bindings (crates/link-ffi/src/lib.rs and        *)
(* crates/link-web/src/web.rs).  A message is what the driver tells apart;  *)
(* writes to the stream complete only as fast as the peer reads.            *)
(***************************************************************************)
EXTENDS Naturals, Sequences

CONSTANTS
  OutboundQueue,  \* OUTBOUND_QUEUE
  InboundQueue,   \* INBOUND_QUEUE
  MaxEvents       \* calls and peer messages that come from outside

ASSUME TextBounds == {OutboundQueue, InboundQueue} \subseteq Nat \ {0} /\ MaxEvents \in Nat

VARIABLES
  commands,   \* the command channel: texts and closes
  handles,    \* the application still holds a Socket
  overflow,   \* the overflow watch was set
  at,         \* where the driver is
  incoming,   \* the channel to the listener
  heard,      \* what the listener was called with
  accepted,   \* texts try_send accepted
  written,    \* texts the stream took
  left        \* events still to come

textVars == <<commands, handles, overflow, at, incoming, heard, accepted, written, left>>
outbound == <<commands, handles, overflow, accepted>>

Goodbye == "closed"
EndsIn(seq) == seq # <<>> /\ seq[Len(seq)] = Goodbye

TextInit ==
  /\ commands = <<>> /\ handles = TRUE /\ overflow = FALSE /\ at = "select"
  /\ incoming = <<>> /\ heard = <<>> /\ accepted = 0 /\ written = 0 /\ left = MaxEvents

Happens == left > 0 /\ left' = left - 1
GoesOn == UNCHANGED left

(***************************************************************************)
(* The application: send_text and close; the last handle is dropped.       *)
(***************************************************************************)
TrySend(command) ==
  IF Len(commands) < OutboundQueue
  THEN /\ commands' = Append(commands, command)
       /\ accepted' = accepted + (IF command = "text" THEN 1 ELSE 0)
       /\ UNCHANGED overflow
  ELSE overflow' = TRUE /\ UNCHANGED <<commands, accepted>>

Call(command) ==
  /\ Happens /\ handles /\ at # "ended"
  /\ TrySend(command)
  /\ UNCHANGED <<handles, at, incoming, heard, written>>

DropHandles ==
  /\ Happens /\ handles
  /\ handles' = FALSE
  /\ UNCHANGED <<commands, overflow, at, incoming, heard, accepted, written>>

(***************************************************************************)
(* drive: one branch of the select, then its writes, then the terminal     *)
(* event, which waits for room in the listener's channel.                  *)
(***************************************************************************)

Overflowed ==
  /\ GoesOn /\ at = "select" /\ (overflow \/ ~handles)
  /\ at' = "closing"
  /\ UNCHANGED <<outbound, incoming, heard, written>>

TakeCommand ==
  /\ GoesOn /\ at = "select"
  /\ \/ /\ commands # <<>>
        /\ commands' = Tail(commands)
        /\ at' = IF Head(commands) = "text" THEN "writing" ELSE "closing"
     \/ commands = <<>> /\ ~handles /\ at' = "closing" /\ UNCHANGED commands
  /\ UNCHANGED <<handles, overflow, incoming, heard, accepted, written>>

\* A text that is too long, a binary frame or the peer's close ends the socket
\* with a close frame; an error or the end of the stream without one.
PeerSends(message) ==
  /\ Happens /\ at = "select"
  /\ CASE message = "text" ->
            IF Len(incoming) < InboundQueue
            THEN incoming' = Append(incoming, "text") /\ UNCHANGED at
            ELSE at' = "closing" /\ UNCHANGED incoming
       [] message = "ping" -> at' = "ponging" /\ UNCHANGED incoming
       [] message = "close" -> at' = "closing" /\ UNCHANGED incoming
       [] message = "error" -> at' = "terminal" /\ UNCHANGED incoming
  /\ UNCHANGED <<outbound, heard, written>>

WriteDone_GoesOn(ok) ==
  /\ GoesOn /\ at \in {"writing", "ponging", "closing"}
  /\ at' = IF at = "closing" THEN "terminal" ELSE "select"
  /\ written' = written + (IF at = "writing" /\ ok THEN 1 ELSE 0)
  /\ UNCHANGED <<outbound, incoming, heard>>

WriteDone(ok) ==
  /\ GoesOn /\ at \in {"writing", "ponging", "closing"}
  /\ at' = IF at = "closing" \/ ~ok THEN "terminal" ELSE "select"
  /\ written' = written + (IF at = "writing" /\ ok THEN 1 ELSE 0)
  /\ UNCHANGED <<outbound, incoming, heard>>

Terminal ==
  /\ GoesOn /\ at = "terminal" /\ Len(incoming) < InboundQueue
  /\ incoming' = Append(incoming, Goodbye)
  /\ at' = "ended" /\ commands' = <<>>
  /\ UNCHANGED <<handles, overflow, heard, accepted, written>>

\* The bindings' loop: it returns after on_closed.
Listen ==
  /\ GoesOn /\ incoming # <<>> /\ ~EndsIn(heard)
  /\ heard' = Append(heard, Head(incoming))
  /\ incoming' = Tail(incoming)
  /\ UNCHANGED <<outbound, at, written>>

TextNext ==
  \/ \E command \in {"text", "close"} : Call(command)
  \/ DropHandles \/ Overflowed \/ TakeCommand
  \/ \E message \in {"text", "ping", "close", "error"} : PeerSends(message)
  \/ \E ok \in BOOLEAN : WriteDone(ok)
  \/ Terminal \/ Listen

\* The driver's task and the listener's are scheduled, a peer that is reached
\* reads what is written to it or the write fails, and a select that is always
\* ready on a branch takes it in the end.
TextFairness ==
  /\ WF_textVars(\E ok \in BOOLEAN : WriteDone(ok)) /\ WF_textVars(Terminal) /\ WF_textVars(Listen)
  /\ WF_textVars(Overflowed) /\ WF_textVars(TakeCommand)

(***************************************************************************)
(* Properties.                                                             *)
(***************************************************************************)

\* A text that was accepted is written, unless the listener hears that the
\* socket has closed: none is lost in silence.
AcceptedOrTold ==
  (written < accepted) ~> (written = accepted \/ EndsIn(heard))

=============================================================================
