----------------------------- MODULE PathStatus ------------------------------
(***************************************************************************)
(* What a session promises about the path it reports: the type PathStatus  *)
(* of crates/link-core/src/path.rs with the moves the state machine of     *)
(* crates/link-endpoint/src/session.rs may record.  Session implements it. *)
(*                                                                         *)
(* The report changes one move at a time and every move is recorded in     *)
(* order, until the record is full.  A lost relay takes the session to     *)
(* Reconnecting from any working status, and a new relay session takes it  *)
(* back to exactly that status.  A failure has one reason and is final.    *)
(***************************************************************************)
EXTENDS Naturals

CONSTANT HistoryCap     \* HISTORY_CAP, the length of the record

VARIABLES
  status,    \* PathReport.status
  resume,    \* where Reconnecting returns to
  history    \* the record: how long it is, how many entries are Reconnecting

report == <<status, resume, history>>

Working == {"Relayed", "Probing", "Direct"}
Failures == {"FailedRelay", "FailedTimeout", "FailedSuperseded"}
Statuses == {"Rendezvous", "Reconnecting"} \cup Working \cup Failures

Recorded(h, s) ==
  IF h.length < HistoryCap
  THEN [length |-> h.length + 1,
        lost |-> IF s = "Reconnecting" THEN h.lost + 1 ELSE h.lost]
  ELSE h

Move(from, to) ==
  /\ status \in from
  /\ status' = to
  /\ history' = Recorded(history, to)

Begin ==
  /\ status = "Rendezvous" /\ resume = "Relayed"
  /\ history = [length |-> 1, lost |-> 0]

HandshakeDone == Move({"Rendezvous"}, "Relayed") /\ UNCHANGED resume
RoundStarts   == Move({"Relayed"}, "Probing") /\ UNCHANGED resume
RoundFails    == Move({"Probing"}, "Relayed") /\ UNCHANGED resume
Proved        == Move({"Relayed", "Probing"}, "Direct") /\ UNCHANGED resume
ProofLost     == Move({"Direct"}, "Relayed") /\ UNCHANGED resume
RelayLost     == Move(Working, "Reconnecting") /\ resume' = status
RelayBack     == Move({"Reconnecting"}, resume) /\ UNCHANGED resume
Fail(f)       == Move(Statuses \ Failures, f) /\ UNCHANGED resume

Step ==
  \/ HandshakeDone \/ RoundStarts \/ RoundFails \/ Proved \/ ProofLost
  \/ RelayLost \/ RelayBack
  \/ \E f \in Failures : Fail(f)

Spec == Begin /\ [][Step]_report

=============================================================================
