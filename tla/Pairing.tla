------------------------------- MODULE Pairing -------------------------------
(***************************************************************************)
(* First contact over a QR secret: the two ends' tag books                 *)
(* (crates/link-endpoint/src/rendezvous_book.rs), the send cache that      *)
(* tag_for_send keeps under a lock of its own, and the provisional         *)
(* connections of Endpoint::connect_pairing, Endpoint::accept_any and      *)
(* PairingSession (crates/link-endpoint/src/endpoint.rs).                  *)
(*                                                                         *)
(* A change of the book is two steps, as in the code: the material under   *)
(* its lock, then bump, which takes the cache's lock to clear it.  A send  *)
(* holds the cache's lock from its lookup to its insert.                   *)
(***************************************************************************)
EXTENDS TagBook, FiniteSets

CONSTANTS
  MaxConns,     \* dials of one admission
  MaxEpoch,     \* the last epoch of a clock
  MaxWriters,   \* changes of one book between their write and their clear
  Hosts,        \* relay hosts
  Cached        \* the ends whose send cache is followed

ASSUME PairingBounds ==
  MaxConns \in Nat \ {0} /\ MaxEpoch \in Nat \ {0} /\ MaxWriters \in Nat \ {0}

Dialler == "dialler"
Listener == "listener"
Ends == {Dialler, Listener}
Other(e) == IF e = Dialler THEN Listener ELSE Dialler
Conns == 1..MaxConns
Epochs == 0..MaxEpoch
TagSet == [secret : 0..MaxConns, host : Hosts, epoch : Epochs]

VARIABLES
  book,      \* the route's material, per end
  epoch,     \* epoch_index of this end's clock
  owed,      \* changes whose bump has not cleared the cache yet
  cache,     \* SendCache: the host it is for and its tags by epoch
  sender,    \* a tag_for_send between its lookup and its insert: its tag
  conn       \* connection c at end e

vars == <<book, epoch, owed, cache, sender, conn>>
books == <<book, owed>>
sends == <<cache, sender>>

ConnStates == {"none", "shaking", "promoted", "up", "draining", "failed", "gone"}
Promoted == {"promoted", "up", "draining"}

TypeOK ==
  /\ book \in [Ends -> [admission : BOOLEAN, live : 0..MaxConns]]
  /\ epoch \in [Ends -> Epochs]
  /\ owed \in [Ends -> 0..MaxWriters]
  /\ cache \in [Ends -> [host : Hosts \cup {0}, tags : SUBSET TagSet]]
  /\ sender \in [Ends -> SUBSET TagSet]
  /\ conn \in [Ends -> [Conns -> ConnStates]]

NoCache == [host |-> 0, tags |-> {}]

\* register_pairing_secret at both ends, each with its own deadline.
Init ==
  /\ book = [e \in Ends |-> [admission |-> TRUE, live |-> 0]]
  /\ epoch \in {f \in [Ends -> 0..1] : f[Dialler] = 0 \/ f[Listener] = 0}
  /\ owed = [e \in Ends |-> 0]
  /\ cache = [e \in Ends |-> NoCache]
  /\ sender = [e \in Ends |-> {}]
  /\ conn = [e \in Ends |-> [c \in Conns |-> "none"]]

(***************************************************************************)
(* The book.                                                               *)
(***************************************************************************)
\* A write of the book, and the bump it owes when it changed something.  The
\* cache of an end that is not followed stays empty: its bump has no effect.
Writes(e, new) ==
  /\ book' = [book EXCEPT ![e] = new]
  /\ IF new = book[e] \/ e \notin Cached THEN UNCHANGED owed
     ELSE owed[e] < MaxWriters /\ owed' = [owed EXCEPT ![e] = @ + 1]

Bump_IgnoresSender(e) ==
  /\ owed[e] > 0
  /\ owed' = [owed EXCEPT ![e] = @ - 1]
  /\ cache' = [cache EXCEPT ![e].tags = {}]
  /\ UNCHANGED <<book, sender, epoch, conn>>

Bump(e) ==
  /\ owed[e] > 0
  /\ sender[e] = {}
  /\ owed' = [owed EXCEPT ![e] = @ - 1]
  /\ cache' = [cache EXCEPT ![e].tags = {}]
  /\ UNCHANGED <<book, sender, epoch, conn>>

\* The product drops its PairingRegistration, register_pairing_secret's timer
\* fires, or an operation finds the admission past its deadline: each of them
\* starts with prune_expired, which is this step taken just before it.
DropAdmission(e) ==
  /\ book[e].admission
  /\ Writes(e, RemovePairing(book[e]))
  /\ UNCHANGED <<epoch, sends, conn>>

NextEpoch(e) ==
  /\ epoch[e] < MaxEpoch
  /\ epoch[e] <= epoch[Other(e)]
  /\ epoch' = [epoch EXCEPT ![e] = @ + 1]
  /\ UNCHANGED <<books, sends, conn>>

(***************************************************************************)
(* tag_for_send: lookup, derive and insert under the cache's lock.  Only   *)
(* the ends in Cached are followed through it; another end's sends are     *)
(* derived from its book.                                                  *)
(***************************************************************************)
Kept(e, host) == IF cache[e].host = host THEN cache[e].tags ELSE {}
Hit(e, host) == {t \in Kept(e, host) : t.epoch = epoch[e]}

Lookup(e, host) ==
  /\ sender[e] = {}
  /\ Hit(e, host) = {}
  /\ sender' = [sender EXCEPT ![e] = TagFor(book[e], host, epoch[e])]
  /\ cache' = [cache EXCEPT ![e] = [host |-> host, tags |-> Kept(e, host)]]
  /\ UNCHANGED <<books, epoch, conn>>

Insert(e) ==
  /\ sender[e] # {}
  /\ cache' = [cache EXCEPT ![e].tags = @ \cup sender[e]]
  /\ sender' = [sender EXCEPT ![e] = {}]
  /\ UNCHANGED <<books, epoch, conn>>

\* What tag_for_send returns at end e for a packet over host.
Stamps(e, host) ==
  IF Hit(e, host) # {} THEN Hit(e, host)
  ELSE TagFor(book[e], host, epoch[e])

\* The other end attributes the packet: its relay registration holds the tag
\* and resolve finds the route.
Reaches(e) ==
  \A host \in Hosts : /\ Stamps(e, host) # {}
                      /\ \A t \in Stamps(e, host) :
                           Resolves(book[Other(e)], t, host, epoch[Other(e)])

(***************************************************************************)
(* Connections.                                                            *)
(***************************************************************************)
ConnBecomes(e, c, s) == conn' = [conn EXCEPT ![e][c] = s]

\* connect_pairing, up to the handshake: callers may dial at the same time.
Dial(c) ==
  /\ conn[Dialler][c] = "none"
  /\ book[Dialler].admission
  /\ ConnBecomes(Dialler, c, "shaking")
  /\ UNCHANGED <<books, epoch, sends>>

\* accept_any takes one incoming connection at a time.  Without an active
\* admission the route is an ordinary peer no certificate can match.  The
\* connections are numbered in the order the listener takes them, whatever the
\* order of their dials; those it never takes have the numbers that remain.
Arrive(c) ==
  /\ conn[Dialler][c] = "shaking"
  /\ \A d \in Conns : conn[Listener][d] \notin {"shaking", "promoted"}
  /\ \A d \in Conns : conn[Listener][d] = "none" <=> d >= c
  /\ Reaches(Dialler)
  /\ ConnBecomes(Listener, c, IF book[Listener].admission THEN "shaking" ELSE "failed")
  /\ UNCHANGED <<books, epoch, sends>>

\* promote_pairing_route after the handshake, or the connection closed.
Finish(e, c) ==
  /\ conn[e][c] = "shaking"
  /\ IF e = Dialler THEN conn[Listener][c] = "shaking" /\ Reaches(Listener)
     ELSE conn[Dialler][c] \in Promoted \cup {"gone"}
  /\ IF book[e].admission
     THEN Writes(e, Promote(book[e], c)) /\ ConnBecomes(e, c, "promoted")
     ELSE UNCHANGED books /\ ConnBecomes(e, c, "failed")
  /\ UNCHANGED <<epoch, sends>>

\* Session::start opened its control stream, or failed to, and
\* PairingSession::new spawned the lifetime and the closed task.
Started(e, c) ==
  /\ conn[e][c] = "promoted"
  /\ ConnBecomes(e, c, "up")
  /\ UNCHANGED <<books, epoch, sends>>

\* The handshake times out, or an identity is refused.
HandshakeFails(e, c) ==
  /\ conn[e][c] = "shaking"
  /\ ConnBecomes(e, c, "failed")
  /\ UNCHANGED <<books, epoch, sends>>

\* PairingSession::close, a newer session of the peer, or the 60 s lifetime:
\* the closed task sleeps while Quinn drains.
CloseLocally(e, c) ==
  /\ conn[e][c] = "up"
  /\ ConnBecomes(e, c, "draining")
  /\ UNCHANGED <<books, epoch, sends>>

\* The peer's close arrives, or the connection is lost: removed at once.
ClosedByPeer(e, c) ==
  /\ conn[e][c] = "up"
  /\ ConnBecomes(e, c, "gone")
  /\ Writes(e, RemoveLive(book[e], c))
  /\ UNCHANGED <<epoch, sends>>

DrainEnds_Never(e, c) ==
  /\ conn[e][c] = "draining"
  /\ ConnBecomes(e, c, "gone")
  /\ UNCHANGED <<books, epoch, sends>>

DrainEnds(e, c) ==
  /\ conn[e][c] = "draining"
  /\ ConnBecomes(e, c, "gone")
  /\ Writes(e, RemoveLive(book[e], c))
  /\ UNCHANGED <<epoch, sends>>

Next ==
  \/ \E e \in Ends : \/ Bump(e) \/ DropAdmission(e) \/ NextEpoch(e)
                     \/ Insert(e)
                     \/ \E host \in Hosts : e \in Cached /\ Lookup(e, host)
                     \/ \E c \in Conns : \/ Finish(e, c) \/ HandshakeFails(e, c)
                                         \/ Started(e, c)
                                         \/ CloseLocally(e, c) \/ ClosedByPeer(e, c)
                                         \/ DrainEnds(e, c)
  \/ \E c \in Conns : Dial(c) \/ Arrive(c)

Spec == Init /\ [][Next]_vars

\* The runtime runs every spawned task and its timers: the rest of a send and,
\* whenever the cache's lock lets it, the rest of a bump; an admission's timer,
\* a handshake's timeout, a session's lifetime and its drain.
Housekeeping(e) ==
  \/ Bump(e) \/ DropAdmission(e)
  \/ \E c \in Conns : \/ HandshakeFails(e, c) \/ Started(e, c)
                      \/ CloseLocally(e, c) \/ DrainEnds(e, c)
Fairness == \A e \in Ends : WF_vars(Insert(e)) /\ SF_vars(Housekeeping(e))
FairSpec == Spec /\ Fairness

(***************************************************************************)
(* Properties.                                                             *)
(***************************************************************************)

\* A tag the send cache would answer with is the one the book derives, as soon
\* as the bump of every change has run: tag_for_send and bump never leave a tag
\* of material that is gone, nor one of another relay host.
CacheCoherent ==
  \A e \in Ends : owed[e] = 0 =>
    \A t \in cache[e].tags \cup sender[e] : t \in TagFor(book[e], cache[e].host, t.epoch)

\* While both ends hold the admission, what either end stamps is attributed by
\* the other, whatever connections the route carried before and with epoch one
\* epoch apart: the reason tag_for_send gives for stamping the admission tag
\* before a live one.
HeldAdmissionReaches ==
  \A e \in Ends :
    (/\ book[e].admission /\ book[Other(e)].admission
     /\ owed[e] = 0 /\ owed[Other(e)] = 0)
    => Reaches(e)

\* An end that dropped its admission still reaches the other end with the newest
\* connection both ends promoted, until one of them has forgotten it: the final
\* packets of a provisional session are not cut off by the handle's drop.
DroppedStillReaches ==
  \A e \in Ends, c \in Conns :
    (/\ ~book[e].admission /\ owed[e] = 0 /\ owed[Other(e)] = 0
     /\ \A f \in Ends : /\ conn[f][c] \in Promoted
                        /\ \A d \in (c + 1)..MaxConns : conn[f][d] \in {"none", "failed"})
    => Reaches(e)

\* A live route is one whose connection still has its clean-up ahead of it:
\* whatever ends a PairingSession, its closed task removes the route it promoted.
LiveIsOwned ==
  \A e \in Ends : book[e].live # 0 => conn[e][book[e].live] \in Promoted

\* The end of an older connection leaves the live route of a newer one on the
\* same admission: remove_live_pairing is by generation.
NewestLiveKept ==
  [][\A e \in Ends : book'[e].live # book[e].live =>
       \/ book'[e].live > book[e].live
       \/ conn'[e][book[e].live] = "gone"]_vars

\* Nothing of a first contact lingers: the admission goes at its deadline and
\* every live route goes with its connection, at both ends.
NothingLingers == <>[](\A e \in Ends : Secrets(book[e]) = {} /\ owed[e] = 0)

\* Once the handshake has completed at both ends, each reaches the other until
\* its connection ends, whichever end drops its registration first
\* (rendezvous_book.rs, PairingRegistration).
EstablishedReaches ==
  \A e \in Ends, c \in Conns :
    (/\ owed[e] = 0 /\ owed[Other(e)] = 0
     /\ \A f \in Ends : conn[f][c] = "up" /\ book[f].live = c)
    => Reaches(e)

\* A first contact keeps reaching its other end while both admissions stand and
\* after this end dropped its own (tag_for_send, resolve).
AdmissionReaches == HeldAdmissionReaches /\ DroppedStillReaches

=============================================================================
