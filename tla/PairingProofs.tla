---------------------------- MODULE PairingProofs ----------------------------
(***************************************************************************)
(* What the tag books of a first contact keep, for any number of dials,    *)
(* epochs, relay hosts and changes in flight.                              *)
(***************************************************************************)
EXTENDS Pairing, TLAPS

\* The cache and a send in progress agree with a book that owes no bump, and an
\* end that is not followed has neither.
FreshAt(e) ==
  /\ e \notin Cached => cache[e].tags \cup sender[e] = {}
  /\ owed[e] = 0 =>
       \A t \in cache[e].tags \cup sender[e] : t \in TagFor(book[e], cache[e].host, t.epoch)
Fresh == \A e \in Ends : FreshAt(e)

\* The listener's handshake is of the newest connection it took, and the
\* dialler has promoted only connections the listener took.
NewestShakes ==
  \A c \in Conns, d \in Conns :
    conn[Listener][c] = "shaking" /\ d > c => conn[Listener][d] = "none"
TakenFirst ==
  \A c \in Conns : conn[Dialler][c] \in Promoted \cup {"gone"} => conn[Listener][c] # "none"

PInv == TypeOK /\ Fresh /\ LiveIsOwned /\ NewestShakes /\ TakenFirst

Books == [admission : BOOLEAN, live : 0..MaxConns]

LEMMA Bounds == Conns \subseteq Nat /\ 0..MaxConns \subseteq Nat /\ Conns \subseteq 0..MaxConns
BY PairingBounds DEF Conns

LEMMA TwoEnds == Ends = {Dialler, Listener} /\ Dialler # Listener
BY ZenonT(60) DEF Ends, Dialler, Listener

LEMMA SecretsType == ASSUME NEW b \in Books PROVE Secrets(b) \subseteq 0..MaxConns
BY PairingBounds DEF Books, Secrets, Admission

LEMMA TagForType ==
  ASSUME NEW b \in Books, NEW host \in Hosts, NEW i \in Epochs
  PROVE  TagFor(b, host, i) \subseteq TagSet
<1>1. Admission \in 0..MaxConns /\ Secrets(b) \subseteq 0..MaxConns
  BY PairingBounds, SecretsType DEF Admission
<1>2. \A s \in 0..MaxConns : Tag(s, host, i) \in TagSet
  BY ZenonT(60) DEF Tag, TagSet
<1> QED BY ZenonT(60), <1>1, <1>2 DEF TagFor

LEMMA TagForEpoch ==
  ASSUME NEW b, NEW host, NEW i, NEW t \in TagFor(b, host, i)
  PROVE  t.epoch = i
BY DEF TagFor, Tag

\* What a write of a book may do.
LEMMA WritesFacts ==
  ASSUME TypeOK, NEW e \in Ends, NEW new \in Books, Writes(e, new)
  PROVE  /\ book' = [book EXCEPT ![e] = new]
         /\ owed' \in [Ends -> 0..MaxWriters]
         /\ \A f \in Cached \cap Ends : owed'[f] = 0 => owed[f] = 0 /\ book'[f] = book[f]
         /\ \A f \in Ends : f # e => owed'[f] = owed[f] /\ book'[f] = book[f]
<1>1. owed \in [Ends -> 0..MaxWriters] /\ book \in [Ends -> Books] /\ MaxWriters \in Nat
  BY ZenonT(60), PairingBounds DEF TypeOK, Books
<1>2. book' = [book EXCEPT ![e] = new]
  BY ZenonT(60) DEF Writes
<1>3. CASE new = book[e] \/ e \notin Cached
  BY ZenonT(60), <1>1, <1>2, <1>3 DEF Writes
<1>4. CASE ~(new = book[e] \/ e \notin Cached)
  <2>1. owed[e] < MaxWriters /\ owed' = [owed EXCEPT ![e] = owed[e] + 1]
    BY ZenonT(60), <1>4 DEF Writes
  <2> QED BY <1>1, <1>2, <2>1
<1> QED BY ZenonT(60), <1>3, <1>4

\* Every write a step makes is one of the book's operations.
LEMMA BookOps ==
  ASSUME NEW b \in Books, NEW c \in Conns
  PROVE  /\ RemovePairing(b) \in Books /\ Promote(b, c) \in Books /\ RemoveLive(b, c) \in Books
         /\ RemovePairing(b).live = b.live /\ Promote(b, c).live = c
         /\ RemoveLive(b, c).live = IF b.live = c THEN 0 ELSE b.live
<1>1. RemovePairing(b) \in Books /\ RemovePairing(b).live = b.live
  BY ZenonT(60) DEF Books, RemovePairing
<1>2. Promote(b, c) \in Books /\ Promote(b, c).live = c
  BY ZenonT(60), Bounds DEF Books, Promote
<1>3. /\ RemoveLive(b, c) \in Books
      /\ RemoveLive(b, c).live = IF b.live = c THEN 0 ELSE b.live
  <2>1. 0 \in 0..MaxConns
    BY PairingBounds
  <2> QED BY ZenonT(60), <2>1 DEF Books, RemoveLive
<1> QED BY ZenonT(60), <1>1, <1>2, <1>3

LEMMA RemovePairingType ==
  ASSUME NEW b \in Books PROVE RemovePairing(b) \in Books /\ RemovePairing(b).live = b.live
BY ZenonT(60) DEF Books, RemovePairing

\* A step that only writes a book and a connection.
LEMMA BookStep ==
  ASSUME PInv, NEW e \in Ends, NEW new \in Books, Writes(e, new), UNCHANGED <<epoch, sends>>
  PROVE  /\ Fresh' /\ book' \in [Ends -> Books] /\ owed' \in [Ends -> 0..MaxWriters]
         /\ book' = [book EXCEPT ![e] = new]
         /\ cache' \in [Ends -> [host : Hosts \cup {0}, tags : SUBSET TagSet]]
         /\ sender' \in [Ends -> SUBSET TagSet] /\ epoch' \in [Ends -> Epochs]
<1>1. TypeOK /\ Fresh
  BY ZenonT(60) DEF PInv
<1>2. /\ book' = [book EXCEPT ![e] = new] /\ owed' \in [Ends -> 0..MaxWriters]
      /\ \A f \in Cached \cap Ends : owed'[f] = 0 => owed[f] = 0 /\ book'[f] = book[f]
  BY ZenonT(60), <1>1, WritesFacts
<1>3. Fresh'
  <2> SUFFICES ASSUME NEW f \in Ends PROVE FreshAt(f)'
    BY ZenonT(60) DEF Fresh
  <2>1. FreshAt(f) /\ UNCHANGED <<cache, sender>>
    BY ZenonT(60), <1>1 DEF Fresh, sends
  <2>2. CASE f \in Cached
    BY ZenonT(60), <1>2, <2>1, <2>2 DEF FreshAt
  <2>3. CASE f \notin Cached
    <3>1. cache'[f].tags \cup sender'[f] = {}
      BY ZenonT(60), <2>1, <2>3 DEF FreshAt
    <3> QED BY ZenonT(60), <3>1 DEF FreshAt
  <2> QED BY ZenonT(60), <2>2, <2>3
<1> QED BY ZenonT(60), <1>1, <1>2, <1>3 DEF TypeOK, Books, sends

\* The connections after conn[e][c] becomes s.
LEMMA ConnStep ==
  ASSUME TypeOK, NEW e \in Ends, NEW c \in Conns, NEW s \in ConnStates, ConnBecomes(e, c, s)
  PROVE  /\ conn' \in [Ends -> [Conns -> ConnStates]]
         /\ conn'[e][c] = s
         /\ \A f \in Ends, d \in Conns : <<f, d>> # <<e, c>> => conn'[f][d] = conn[f][d]
<1>1. conn \in [Ends -> [Conns -> ConnStates]]
  BY ZenonT(60) DEF TypeOK
<1>2. conn' = [conn EXCEPT ![e][c] = s]
  BY ZenonT(60) DEF ConnBecomes
<1> QED BY ZenonT(60), <1>1, <1>2

-----------------------------------------------------------------------------
(* Sends and bumps.                                                        *)

LEMMA BumpStep == ASSUME PInv, NEW e \in Ends, Bump(e) PROVE PInv'
<1>1. /\ owed[e] > 0 /\ sender[e] = {} /\ owed' = [owed EXCEPT ![e] = owed[e] - 1]
      /\ cache' = [cache EXCEPT ![e].tags = {}] /\ UNCHANGED <<book, sender, epoch, conn>>
  BY ZenonT(60) DEF Bump
<1>2. TypeOK'
  <2>1. owed' \in [Ends -> 0..MaxWriters]
    BY <1>1, PairingBounds DEF PInv, TypeOK
  <2>2. cache' \in [Ends -> [host : Hosts \cup {0}, tags : SUBSET TagSet]]
    BY ZenonT(60), <1>1 DEF PInv, TypeOK
  <2> QED BY ZenonT(60), <1>1, <2>1, <2>2 DEF PInv, TypeOK
<1>3. Fresh'
  <2> SUFFICES ASSUME NEW f \in Ends PROVE FreshAt(f)'
    BY ZenonT(60) DEF Fresh
  <2>1. CASE f = e
    <3>1. cache'[f].tags \cup sender'[f] = {}
      BY ZenonT(60), <1>1, <2>1 DEF PInv, TypeOK
    <3> QED BY ZenonT(60), <3>1 DEF FreshAt
  <2>2. CASE f # e
    <3>1. cache'[f] = cache[f] /\ sender'[f] = sender[f] /\ owed'[f] = owed[f]
      BY ZenonT(60), <1>1, <2>2 DEF PInv, TypeOK
    <3> QED BY ZenonT(60), <1>1, <3>1 DEF PInv, Fresh, FreshAt
  <2> QED BY ZenonT(60), <2>1, <2>2
<1> QED BY <1>1, <1>2, <1>3 DEF PInv, LiveIsOwned, NewestShakes, TakenFirst

LEMMA LookupStep ==
  ASSUME PInv, NEW e \in Ends, e \in Cached, NEW host \in Hosts, Lookup(e, host)
  PROVE  PInv'
<1>1. /\ sender[e] = {} /\ sender' = [sender EXCEPT ![e] = TagFor(book[e], host, epoch[e])]
      /\ cache' = [cache EXCEPT ![e] = [host |-> host, tags |-> Kept(e, host)]]
      /\ UNCHANGED <<book, owed, epoch, conn>>
  BY ZenonT(60) DEF Lookup, books
<1>2. book[e] \in Books /\ epoch[e] \in Epochs
  BY ZenonT(60) DEF PInv, TypeOK, Books
<1>3. Kept(e, host) \subseteq cache[e].tags /\ (Kept(e, host) # {} => cache[e].host = host)
  BY ZenonT(60) DEF Kept
<1>4. TypeOK'
  <2>1. TagFor(book[e], host, epoch[e]) \subseteq TagSet
    BY ZenonT(60), <1>2, TagForType
  <2>2. cache' \in [Ends -> [host : Hosts \cup {0}, tags : SUBSET TagSet]]
    <3>1. Kept(e, host) \in SUBSET TagSet
      BY ZenonT(60), <1>3 DEF PInv, TypeOK
    <3> QED BY ZenonT(60), <1>1, <3>1 DEF PInv, TypeOK
  <2>3. sender' \in [Ends -> SUBSET TagSet]
    BY ZenonT(60), <1>1, <2>1 DEF PInv, TypeOK
  <2> QED BY ZenonT(60), <1>1, <2>2, <2>3 DEF PInv, TypeOK
<1>5. Fresh'
  <2> SUFFICES ASSUME NEW f \in Ends PROVE FreshAt(f)'
    BY ZenonT(60) DEF Fresh
  <2>1. CASE f # e
    <3>1. cache'[f] = cache[f] /\ sender'[f] = sender[f]
      BY ZenonT(60), <1>1, <2>1 DEF PInv, TypeOK
    <3> QED BY ZenonT(60), <1>1, <3>1 DEF PInv, Fresh, FreshAt
  <2>2. CASE f = e
    <3>1. /\ cache'[e].host = host /\ cache'[e].tags = Kept(e, host)
          /\ sender'[e] = TagFor(book[e], host, epoch[e])
      BY ZenonT(60), <1>1 DEF PInv, TypeOK
    <3>2. SUFFICES ASSUME owed[e] = 0, NEW t \in cache'[e].tags \cup sender'[e]
                   PROVE  t \in TagFor(book[e], host, t.epoch)
      BY ZenonT(60), <1>1, <2>2, <3>1 DEF FreshAt
    <3>3. CASE t \in sender'[e]
      BY <3>1, <3>3, TagForEpoch
    <3>4. CASE t \in Kept(e, host)
      BY ZenonT(60), <1>3, <3>2, <3>4 DEF PInv, Fresh, FreshAt
    <3> QED BY ZenonT(60), <3>1, <3>2, <3>3, <3>4
  <2> QED BY ZenonT(60), <2>1, <2>2
<1> QED BY <1>1, <1>4, <1>5 DEF PInv, LiveIsOwned, NewestShakes, TakenFirst

LEMMA InsertStep == ASSUME PInv, NEW e \in Ends, Insert(e) PROVE PInv'
<1>1. /\ cache' = [cache EXCEPT ![e].tags = cache[e].tags \cup sender[e]]
      /\ sender' = [sender EXCEPT ![e] = {}] /\ UNCHANGED <<book, owed, epoch, conn>>
  BY ZenonT(60) DEF Insert, books
<1>2. TypeOK'
  BY ZenonT(60), <1>1 DEF PInv, TypeOK
<1>3. Fresh'
  <2> SUFFICES ASSUME NEW f \in Ends PROVE FreshAt(f)'
    BY ZenonT(60) DEF Fresh
  <2>1. /\ cache'[f].host = cache[f].host
        /\ cache'[f].tags \cup sender'[f] = cache[f].tags \cup sender[f]
    BY ZenonT(60), <1>1 DEF PInv, TypeOK
  <2> QED BY ZenonT(60), <1>1, <2>1 DEF PInv, Fresh, FreshAt
<1> QED BY ZenonT(60), <1>1, <1>2, <1>3 DEF PInv, LiveIsOwned, NewestShakes, TakenFirst

LEMMA EpochStep == ASSUME PInv, NEW e \in Ends, NextEpoch(e) PROVE PInv'
<1>1. epoch' = [epoch EXCEPT ![e] = epoch[e] + 1] /\ UNCHANGED <<book, owed, cache, sender, conn>>
  BY ZenonT(60) DEF NextEpoch, books, sends
<1>2. TypeOK'
  BY <1>1, PairingBounds DEF PInv, TypeOK, NextEpoch, Epochs
<1> QED BY ZenonT(60), <1>1, <1>2 DEF PInv, Fresh, FreshAt, LiveIsOwned, NewestShakes, TakenFirst

-----------------------------------------------------------------------------
(* Connections.                                                            *)

\* A connection changes and no book does.
LEMMA ConnOnly ==
  ASSUME PInv, NEW e \in Ends, NEW c \in Conns, NEW s \in ConnStates, ConnBecomes(e, c, s),
         UNCHANGED <<books, epoch, sends>>,
         conn[e][c] \in Promoted => s \in Promoted, s # "none",
         e = Listener =>
           /\ s = "shaking" => \A d \in Conns : d > c => conn[e][d] = "none"
           /\ conn[e][c] = "none" => \A d \in Conns : conn[e][d] # "shaking",
         e = Dialler /\ s \in Promoted \cup {"gone"} => conn[Listener][c] # "none"
  PROVE  PInv'
<1>1. TypeOK /\ Fresh /\ LiveIsOwned /\ NewestShakes /\ TakenFirst
  BY ZenonT(60) DEF PInv
<1>2. /\ conn' \in [Ends -> [Conns -> ConnStates]] /\ conn'[e][c] = s
      /\ \A f \in Ends, d \in Conns : <<f, d>> # <<e, c>> => conn'[f][d] = conn[f][d]
  BY <1>1, ConnStep
<1>3. TypeOK' /\ Fresh'
  BY ZenonT(60), <1>1, <1>2 DEF TypeOK, Fresh, FreshAt, books, sends
<1>4. LiveIsOwned'
  <2> SUFFICES ASSUME NEW f \in Ends, book[f].live # 0
               PROVE  conn'[f][book[f].live] \in Promoted
    BY ZenonT(60) DEF LiveIsOwned, books
  <2>1. book[f].live \in Conns
    BY <1>1, PairingBounds DEF TypeOK, Conns
  <2>2. conn[f][book[f].live] \in Promoted
    BY ZenonT(60), <1>1 DEF LiveIsOwned
  <2> QED BY ZenonT(60), <1>2, <2>1, <2>2
<1>5. NewestShakes'
  <2> SUFFICES ASSUME NEW k \in Conns, NEW d \in Conns, conn'[Listener][k] = "shaking", d > k
               PROVE  conn'[Listener][d] = "none"
    BY ZenonT(60) DEF NewestShakes
  <2>0. k # d
    BY Bounds
  <2>1. CASE <<Listener, k>> = <<e, c>>
    BY ZenonT(60), <1>2, <2>0, <2>1, TwoEnds
  <2>2. CASE <<Listener, k>> # <<e, c>>
    <3>0. conn[Listener][k] = "shaking"
      BY ZenonT(60), <1>2, <2>2, TwoEnds
    <3>1. conn[Listener][k] = "shaking" /\ conn[Listener][d] = "none"
      BY ZenonT(60), <1>1, <3>0 DEF NewestShakes
    <3>2. <<Listener, d>> # <<e, c>>
      BY ZenonT(60), <3>1
    <3> QED BY ZenonT(60), <1>2, <3>1, <3>2, TwoEnds
  <2> QED BY ZenonT(60), <2>1, <2>2
<1>6. TakenFirst'
  <2> SUFFICES ASSUME NEW k \in Conns, conn'[Dialler][k] \in Promoted \cup {"gone"}
               PROVE  conn'[Listener][k] # "none"
    BY ZenonT(60) DEF TakenFirst
  <2>1. conn[Listener][k] # "none"
    BY ZenonT(60), <1>1, <1>2, TwoEnds DEF TakenFirst
  <2> QED BY ZenonT(60), <1>2, <2>1, TwoEnds
<1> QED BY ZenonT(60), <1>3, <1>4, <1>5, <1>6 DEF PInv

\* A connection changes and its end's book with it.
LEMMA ConnAndBook ==
  ASSUME PInv, NEW e \in Ends, NEW c \in Conns, NEW s \in {"promoted", "gone"}, ConnBecomes(e, c, s),
         NEW new \in Books, Writes(e, new), UNCHANGED <<epoch, sends>>, conn[e][c] # "none",
         e = Dialler => conn[Listener][c] # "none",
         new.live = IF s = "promoted" THEN c ELSE IF book[e].live = c THEN 0 ELSE book[e].live
  PROVE  PInv'
<1>1. TypeOK /\ Fresh /\ LiveIsOwned /\ NewestShakes /\ TakenFirst /\ s \in ConnStates
  BY ZenonT(60) DEF PInv, ConnStates
<1>2. /\ conn' \in [Ends -> [Conns -> ConnStates]] /\ conn'[e][c] = s
      /\ \A f \in Ends, d \in Conns : <<f, d>> # <<e, c>> => conn'[f][d] = conn[f][d]
  BY <1>1, ConnStep
<1>3. /\ Fresh' /\ book' \in [Ends -> Books] /\ owed' \in [Ends -> 0..MaxWriters]
      /\ book' = [book EXCEPT ![e] = new]
      /\ cache' \in [Ends -> [host : Hosts \cup {0}, tags : SUBSET TagSet]]
      /\ sender' \in [Ends -> SUBSET TagSet] /\ epoch' \in [Ends -> Epochs]
  BY ZenonT(60), BookStep
<1>4. TypeOK'
  BY ZenonT(60), <1>2, <1>3 DEF TypeOK, Books
<1>5. LiveIsOwned'
  <2> SUFFICES ASSUME NEW f \in Ends, book'[f].live # 0
               PROVE  conn'[f][book'[f].live] \in Promoted
    BY ZenonT(60) DEF LiveIsOwned
  <2>0. book \in [Ends -> Books]
    BY ZenonT(60), <1>1 DEF TypeOK, Books
  <2>1. book'[f].live \in Conns
    BY <1>3, PairingBounds DEF Books, Conns
  <2>2. CASE f = e /\ s = "promoted"
    BY ZenonT(60), <1>2, <1>3, <2>0, <2>2 DEF Promoted
  <2>3. CASE f = e /\ s = "gone"
    <3>1. book'[e].live = book[e].live /\ book[e].live # c /\ book[e].live # 0
      BY ZenonT(60), <1>3, <2>0, <2>3
    <3>2. conn[e][book[e].live] \in Promoted
      BY ZenonT(60), <1>1, <3>1 DEF LiveIsOwned
    <3> QED BY ZenonT(60), <1>2, <2>1, <2>3, <3>1, <3>2
  <2>4. CASE f # e
    <3>1. book'[f] = book[f]
      BY ZenonT(60), <1>3, <2>0, <2>4
    <3> QED BY ZenonT(60), <1>1, <1>2, <2>1, <2>4, <3>1 DEF LiveIsOwned
  <2> QED BY ZenonT(60), <2>2, <2>3, <2>4
<1>6. NewestShakes'
  <2> SUFFICES ASSUME NEW k \in Conns, NEW d \in Conns, conn'[Listener][k] = "shaking", d > k
               PROVE  conn'[Listener][d] = "none"
    BY ZenonT(60) DEF NewestShakes
  <2>1. conn[Listener][k] = "shaking" /\ conn[Listener][d] = "none"
    BY ZenonT(60), <1>1, <1>2, TwoEnds DEF NewestShakes
  <2> QED BY ZenonT(60), <1>2, <2>1, TwoEnds
<1>7. TakenFirst'
  <2>1. s # "none"
    BY ZenonT(60)
  <2> SUFFICES ASSUME NEW k \in Conns, conn'[Dialler][k] \in Promoted \cup {"gone"}
               PROVE  conn'[Listener][k] # "none"
    BY ZenonT(60) DEF TakenFirst
  <2>2. conn[Listener][k] # "none"
    BY ZenonT(60), <1>1, <1>2, TwoEnds DEF TakenFirst
  <2> QED BY ZenonT(60), <1>2, <2>1, <2>2, TwoEnds
<1> QED BY ZenonT(60), <1>3, <1>4, <1>5, <1>6, <1>7 DEF PInv

LEMMA DropStep == ASSUME PInv, NEW e \in Ends, DropAdmission(e) PROVE PInv'
<1>1. book[e] \in Books /\ book \in [Ends -> Books]
  BY ZenonT(60) DEF PInv, TypeOK, Books
<1>2. RemovePairing(book[e]) \in Books /\ RemovePairing(book[e]).live = book[e].live
  BY ZenonT(60), <1>1, RemovePairingType
<1>3. Writes(e, RemovePairing(book[e])) /\ UNCHANGED <<epoch, sends, conn>>
  BY ZenonT(60) DEF DropAdmission
<1>4. /\ Fresh' /\ book' \in [Ends -> Books] /\ owed' \in [Ends -> 0..MaxWriters]
      /\ book' = [book EXCEPT ![e] = RemovePairing(book[e])]
      /\ cache' \in [Ends -> [host : Hosts \cup {0}, tags : SUBSET TagSet]]
      /\ sender' \in [Ends -> SUBSET TagSet] /\ epoch' \in [Ends -> Epochs]
  BY ZenonT(60), <1>2, <1>3, BookStep
<1>5. \A f \in Ends : book'[f].live = book[f].live
  BY ZenonT(60), <1>1, <1>2, <1>4
<1>6. LiveIsOwned' /\ NewestShakes' /\ TakenFirst'
  BY <1>3, <1>5 DEF PInv, LiveIsOwned, NewestShakes, TakenFirst
<1> QED BY ZenonT(60), <1>3, <1>4, <1>6 DEF PInv, TypeOK, Books

LEMMA DialStep == ASSUME PInv, NEW c \in Conns, Dial(c) PROVE PInv'
<1>1. /\ conn[Dialler][c] = "none" /\ ConnBecomes(Dialler, c, "shaking")
      /\ UNCHANGED <<books, epoch, sends>>
  BY ZenonT(60) DEF Dial
<1> QED BY ZenonT(60), <1>1, ConnOnly, TwoEnds DEF ConnStates, Promoted

LEMMA ArriveNext ==
  ASSUME NEW c \in Conns, Arrive(c)
  PROVE  conn[Listener][c] = "none" /\ \A d \in Conns : d > c => conn[Listener][d] = "none"
<1>1. c >= c /\ \A d \in Conns : d > c => d >= c
  BY Bounds
<1>2. \A d \in Conns : conn[Listener][d] = "none" <=> d >= c
  BY ZenonT(60) DEF Arrive
<1> QED BY ZenonT(60), <1>1, <1>2

LEMMA ArriveStep == ASSUME PInv, NEW c \in Conns, Arrive(c) PROVE PInv'
<1>1. PICK s \in {"shaking", "failed"} : ConnBecomes(Listener, c, s)
  BY ZenonT(60) DEF Arrive
<1>2. /\ \A d \in Conns : conn[Listener][d] # "shaking"
      /\ UNCHANGED <<books, epoch, sends>>
  BY ZenonT(60) DEF Arrive
<1> QED BY ZenonT(60), <1>1, <1>2, ArriveNext, ConnOnly, TwoEnds DEF ConnStates, Promoted

LEMMA Taken ==
  ASSUME PInv, NEW c \in Conns, conn[Dialler][c] \in Promoted \cup {"gone"}
  PROVE  conn[Listener][c] # "none"
BY ZenonT(60) DEF PInv, TakenFirst

\* A handshake that completes is of the newest connection of its end.
LEMMA FinishNewest ==
  ASSUME PInv, NEW e \in Ends, NEW c \in Conns, Finish(e, c)
  PROVE  /\ e = Dialler => conn[Listener][c] # "none"
         /\ \A d \in Conns : d > c => conn[e][d] \notin Promoted \cup {"gone"}
<1>1. conn[e][c] = "shaking" /\ (e = Dialler => conn[Listener][c] = "shaking")
  BY ZenonT(60) DEF Finish
<1>2. conn[Listener][c] = "shaking"
  BY ZenonT(60), <1>1, TwoEnds
<1>3. \A d \in Conns : d > c => conn[Listener][d] = "none"
  BY ZenonT(60), <1>2 DEF PInv, NewestShakes
<1>4. \A d \in Conns : d > c => conn[Dialler][d] \notin Promoted \cup {"gone"}
  BY ZenonT(60), <1>3 DEF PInv, TakenFirst
<1>5. \A d \in Conns : d > c => conn[Listener][d] \notin Promoted \cup {"gone"}
  BY ZenonT(60), <1>3 DEF Promoted
<1> QED BY ZenonT(60), <1>2, <1>4, <1>5, TwoEnds

\* A handshake ends, refused or promoted.
LEMMA FinishStep == ASSUME PInv, NEW e \in Ends, NEW c \in Conns, Finish(e, c) PROVE PInv'
<1>0. conn[e][c] = "shaking" /\ UNCHANGED <<epoch, sends>> /\ book[e] \in Books
  BY ZenonT(60) DEF Finish, PInv, TypeOK, Books
<1>1. CASE book[e].admission
  <2>1. Writes(e, Promote(book[e], c)) /\ ConnBecomes(e, c, "promoted")
    BY ZenonT(60), <1>1 DEF Finish
  <2>2. Promote(book[e], c) \in Books /\ Promote(book[e], c).live = c
    BY ZenonT(60), <1>0, BookOps
  <2> QED BY ZenonT(60), <1>0, <2>1, <2>2, FinishNewest, ConnAndBook
<1>2. CASE ~book[e].admission
  <2>1. UNCHANGED <<books, epoch, sends>> /\ ConnBecomes(e, c, "failed")
    BY ZenonT(60), <1>0, <1>2 DEF Finish
  <2> QED BY ZenonT(60), <1>0, <2>1, ConnOnly DEF ConnStates, Promoted
<1> QED BY ZenonT(60), <1>1, <1>2

LEMMA CloseStep ==
  ASSUME PInv, NEW e \in Ends, NEW c \in Conns,
         HandshakeFails(e, c) \/ Started(e, c) \/ CloseLocally(e, c)
  PROVE  PInv'
<1>2. CASE HandshakeFails(e, c)
  <2>1. /\ conn[e][c] = "shaking" /\ ConnBecomes(e, c, "failed")
        /\ UNCHANGED <<books, epoch, sends>>
    BY ZenonT(60), <1>2 DEF HandshakeFails
  <2> QED BY ZenonT(60), <2>1, ConnOnly DEF ConnStates, Promoted
<1>3. ASSUME NEW x \in {"promoted", "up"}, NEW y \in {"up", "draining"}, conn[e][c] = x,
             ConnBecomes(e, c, y), UNCHANGED <<books, epoch, sends>>
      PROVE  PInv'
  <2>1. x \in Promoted /\ y \in Promoted /\ y \in ConnStates /\ x # "none" /\ y # "none" /\ y # "shaking"
    BY ZenonT(60) DEF Promoted, ConnStates
  <2>2. e = Dialler => conn[Listener][c] # "none"
    BY ZenonT(60), <1>3, <2>1, Taken
  <2> QED BY ZenonT(60), <1>3, <2>1, <2>2, ConnOnly
<1> QED BY ZenonT(60), <1>2, <1>3 DEF Started, CloseLocally

LEMMA GoneStep ==
  ASSUME PInv, NEW e \in Ends, NEW c \in Conns, ClosedByPeer(e, c) \/ DrainEnds(e, c)
  PROVE  PInv'
<1>1. /\ conn[e][c] \in {"up", "draining"} /\ ConnBecomes(e, c, "gone") /\ UNCHANGED <<epoch, sends>>
      /\ Writes(e, RemoveLive(book[e], c))
  BY ZenonT(60) DEF ClosedByPeer, DrainEnds
<1>2. /\ RemoveLive(book[e], c) \in Books
      /\ RemoveLive(book[e], c).live = IF book[e].live = c THEN 0 ELSE book[e].live
  <2>1. book[e] \in Books
    BY ZenonT(60) DEF PInv, TypeOK, Books
  <2> QED BY ZenonT(60), <2>1, BookOps
<1>3. conn[e][c] # "none" /\ (e = Dialler => conn[Listener][c] # "none")
  BY ZenonT(60), <1>1, Taken DEF Promoted
<1> QED BY ZenonT(60), <1>1, <1>2, <1>3, ConnAndBook

-----------------------------------------------------------------------------
LEMMA PairingInit == Init => PInv
<1> SUFFICES ASSUME Init PROVE PInv
  BY ZenonT(60)
<1>1. \A e \in Ends, c \in Conns : conn[e][c] = "none"
  BY ZenonT(60) DEF Init
<1>2. LiveIsOwned /\ NewestShakes /\ TakenFirst
  BY ZenonT(60), <1>1, TwoEnds DEF Init, LiveIsOwned, NewestShakes, TakenFirst, Promoted
<1>3. Fresh
  BY ZenonT(60) DEF Init, Fresh, FreshAt, NoCache
<1>4. TypeOK
  <2>1. epoch \in [Ends -> Epochs]
    <3>1. 0..1 \subseteq Epochs
      BY PairingBounds DEF Epochs
    <3>2. epoch \in [Ends -> 0..1]
      BY ZenonT(60) DEF Init
    <3> QED BY ZenonT(60), <3>1, <3>2
  <2> QED BY <2>1, PairingBounds DEF Init, TypeOK, NoCache, ConnStates
<1> QED BY ZenonT(60), <1>2, <1>3, <1>4 DEF PInv

LEMMA PairingStep == PInv /\ [Next]_vars => PInv'
<1> SUFFICES ASSUME PInv, [Next]_vars PROVE PInv'
  BY ZenonT(60)
<1>1. CASE UNCHANGED vars
  BY SMTT(30), <1>1
  DEF vars, PInv, TypeOK, Fresh, FreshAt, LiveIsOwned, NewestShakes, TakenFirst
<1>2. CASE Next
  BY ZenonT(60), <1>2, BumpStep, LookupStep, InsertStep, EpochStep, DropStep, DialStep, ArriveStep,
     FinishStep, CloseStep, GoneStep DEF Next
<1> QED BY ZenonT(60), <1>1, <1>2

LEMMA PairingInvariant == Spec => []PInv
BY PairingInit, PairingStep, PTL DEF Spec

\* Every variable stays in its range; the changes of a book in flight stay
\* within their bound (rendezvous_book.rs, endpoint.rs).
THEOREM TypeCorrect == Spec => []TypeOK
<1>1. PInv => TypeOK
  BY ZenonT(60) DEF PInv
<1> QED BY <1>1, PairingInvariant, PTL

\* For any number of changes in flight, what tag_for_send would answer from its
\* cache is what the book derives once every bump has run (tag_for_send, bump).
THEOREM CacheCoherentCorrect == Spec => []CacheCoherent
<1>1. PInv => CacheCoherent
  BY ZenonT(60) DEF PInv, Fresh, FreshAt, CacheCoherent
<1> QED BY <1>1, PairingInvariant, PTL

\* For any number of dials of one admission, a live route's connection still has
\* its clean-up ahead of it (promote_pairing, remove_live_pairing).
THEOREM LiveIsOwnedCorrect == Spec => []LiveIsOwned
<1>1. PInv => LiveIsOwned
  BY ZenonT(60) DEF PInv
<1> QED BY <1>1, PairingInvariant, PTL

\* The end of an older connection never takes the live route of a newer one: a
\* live route changes to a newer connection's or goes with its own
\* (remove_live_pairing compares generations).
THEOREM NewestLiveKeptCorrect == Spec => NewestLiveKept
<1> DEFINE Kind(e) == book'[e].live # book[e].live =>
                        \/ book'[e].live > book[e].live
                        \/ conn'[e][book[e].live] = "gone"
<1>1. ASSUME PInv, [Next]_vars, NEW e \in Ends PROVE Kind(e)
  <2>0. book \in [Ends -> Books] /\ PairingBounds
    BY ZenonT(60), <1>1, PairingBounds DEF PInv, TypeOK, Books
  <2>1. ASSUME NEW f \in Ends, NEW new \in Books, Writes(f, new), new.live = book[f].live
        PROVE  Kind(e)
    BY ZenonT(60), <2>0, <2>1 DEF Writes
  <2>2. CASE UNCHANGED book
    BY ZenonT(60), <2>2
  <2>3. ASSUME NEW f \in Ends, DropAdmission(f) PROVE Kind(e)
    BY ZenonT(60), <2>0, <2>1, <2>3, RemovePairingType DEF DropAdmission
  <2>4. ASSUME NEW f \in Ends, NEW c \in Conns, Finish(f, c) PROVE Kind(e)
    <3>1. CASE ~book[f].admission
      BY ZenonT(60), <2>2, <2>4, <3>1 DEF Finish, books
    <3>2. CASE book[f].admission
      <4>1. Writes(f, Promote(book[f], c)) /\ conn[f][c] = "shaking"
        BY ZenonT(60), <2>4, <3>2 DEF Finish
      <4>2. book' = [book EXCEPT ![f] = Promote(book[f], c)] /\ Promote(book[f], c).live = c
        BY ZenonT(60), <2>0, <4>1, BookOps DEF Writes
      <4>3. book[f].live = 0 \/ book[f].live \in Conns
        BY <2>0 DEF Books, Conns
      <4>4. book[f].live < c
        <5>1. CASE book[f].live = 0
          BY <5>1, PairingBounds DEF Conns
        <5>2. CASE book[f].live \in Conns /\ book[f].live # 0
          <6>1. conn[f][book[f].live] \in Promoted
            BY ZenonT(60), <1>1, <5>2 DEF PInv, LiveIsOwned
          <6>2. ~(book[f].live > c) /\ book[f].live # c
            BY ZenonT(60), <1>1, <2>4, <4>1, <5>2, <6>1, FinishNewest DEF Promoted
          <6>3. book[f].live \in Nat /\ c \in Nat
            BY ZenonT(60), <5>2, Bounds
          <6> QED BY <6>2, <6>3
        <5> QED BY ZenonT(60), <4>3, <5>1, <5>2
      <4> QED BY ZenonT(60), <2>0, <4>2, <4>3, <4>4, Bounds
    <3> QED BY ZenonT(60), <3>1, <3>2
  <2>5. ASSUME NEW f \in Ends, NEW c \in Conns, ClosedByPeer(f, c) \/ DrainEnds(f, c)
        PROVE  Kind(e)
    <3>1. Writes(f, RemoveLive(book[f], c)) /\ ConnBecomes(f, c, "gone")
      BY ZenonT(60), <2>5 DEF ClosedByPeer, DrainEnds
    <3>2. /\ RemoveLive(book[f], c) \in Books
          /\ RemoveLive(book[f], c).live = IF book[f].live = c THEN 0 ELSE book[f].live
      BY ZenonT(60), <2>0, BookOps
    <3>3. conn'[f][c] = "gone"
      BY ZenonT(60), <1>1, <3>1, ConnStep DEF PInv, ConnStates
    <3> QED BY ZenonT(60), <2>0, <3>1, <3>2, <3>3 DEF Writes
  <2>6. \/ UNCHANGED book
        \/ \E f \in Ends : \/ DropAdmission(f)
                           \/ \E c \in Conns : \/ Finish(f, c) \/ ClosedByPeer(f, c)
                                               \/ DrainEnds(f, c)
    BY ZenonT(60), <1>1 DEF Next, vars, Bump, NextEpoch, Insert, Lookup, HandshakeFails, Started, CloseLocally, Dial,
              Arrive, books
  <2> QED BY ZenonT(60), <2>2, <2>3, <2>4, <2>5, <2>6
<1>2. PInv /\ [Next]_vars => [\A e \in Ends : Kind(e)]_vars
  BY ZenonT(60), <1>1
<1> QED BY <1>2, PairingInvariant, PTL DEF Spec, NewestLiveKept

-----------------------------------------------------------------------------
(* Which end reaches which.                                                *)

\* The live route is the newest promoted connection's, unless a newer one has
\* come and gone; and the clocks of the ends are at most an epoch apart.
Unpromoted == {"none", "failed", "shaking"}
NewestAt(e) ==
  \A c \in Conns :
    conn[e][c] \in Promoted /\ (\A d \in Conns : d > c => conn[e][d] \in Unpromoted)
      => book[e].live = c
NewestIsLive == \A e \in Ends : NewestAt(e)
EpochsClose == \A e \in Ends : epoch[e] <= epoch[Other(e)] + 1
AInv == PInv /\ NewestIsLive /\ EpochsClose

LEMMA OtherEnds == \A e \in Ends : Other(e) \in Ends /\ Other(e) # e /\ Other(Other(e)) = e
BY TwoEnds DEF Other

LEMMA EpochsStep == ASSUME AInv, [Next]_vars PROVE EpochsClose'
<1>1. CASE UNCHANGED epoch
  BY ZenonT(60), <1>1 DEF AInv, EpochsClose
<1>2. ASSUME NEW e \in Ends, NextEpoch(e) PROVE EpochsClose'
  <2>1. /\ epoch[e] <= epoch[Other(e)] /\ epoch' = [epoch EXCEPT ![e] = epoch[e] + 1]
        /\ epoch \in [Ends -> Nat]
    BY <1>2, PairingBounds DEF NextEpoch, AInv, PInv, TypeOK, Epochs
  <2>2. \A f \in Ends : f = e \/ f = Other(e)
    BY ZenonT(60), TwoEnds DEF Other
  <2>3. epoch'[e] <= epoch'[Other(e)] + 1
    BY <2>1, OtherEnds
  <2>4. epoch'[Other(e)] <= epoch'[e] + 1
    BY <2>1, OtherEnds DEF AInv, EpochsClose
  <2> QED BY ZenonT(60), <2>2, <2>3, <2>4, OtherEnds DEF EpochsClose
<1>3. UNCHANGED epoch \/ \E e \in Ends : NextEpoch(e)
  BY ZenonT(60) DEF Next, vars, Bump, DropAdmission, Insert, Lookup, Finish, HandshakeFails,
     Started, CloseLocally, ClosedByPeer, DrainEnds, Dial, Arrive
<1> QED BY ZenonT(60), <1>1, <1>2, <1>3

\* A connection that was not promoted, or was and starts to drain.
LEMMA NewestConn ==
  ASSUME AInv, NEW e \in Ends, NEW c \in Conns, NEW s \in ConnStates, ConnBecomes(e, c, s),
         UNCHANGED book,
         \/ conn[e][c] \in Unpromoted /\ s \in Unpromoted
         \/ conn[e][c] \in Promoted /\ s \in Promoted
  PROVE  NewestIsLive'
<1>1. TypeOK /\ NewestIsLive
  BY ZenonT(60) DEF AInv, PInv
<1>2. /\ conn'[e][c] = s
      /\ \A f \in Ends, d \in Conns : <<f, d>> # <<e, c>> => conn'[f][d] = conn[f][d]
  BY ZenonT(60), <1>1, ConnStep
<1>3. \A f \in Ends, d \in Conns :
        /\ conn'[f][d] \in Promoted <=> conn[f][d] \in Promoted
        /\ conn'[f][d] \in Unpromoted <=> conn[f][d] \in Unpromoted
  BY ZenonT(60), <1>2 DEF Unpromoted, Promoted
<1> QED BY ZenonT(60), <1>1, <1>3 DEF NewestIsLive, NewestAt

\* A connection is promoted, or ends and takes its own live route along.
LEMMA NewestBook ==
  ASSUME AInv, NEW e \in Ends, NEW c \in Conns, NEW s \in {"promoted", "gone"}, ConnBecomes(e, c, s),
         NEW new \in Books, Writes(e, new),
         s = "promoted" => \A d \in Conns : d > c => conn[e][d] \notin Promoted,
         new.live = IF s = "promoted" THEN c ELSE IF book[e].live = c THEN 0 ELSE book[e].live
  PROVE  NewestIsLive'
<1>1. TypeOK /\ NewestIsLive /\ s \in ConnStates /\ book \in [Ends -> Books]
  BY ZenonT(60) DEF AInv, PInv, ConnStates, TypeOK, Books
<1>2. /\ conn'[e][c] = s
      /\ \A f \in Ends, d \in Conns : <<f, d>> # <<e, c>> => conn'[f][d] = conn[f][d]
  BY ZenonT(60), <1>1, ConnStep
<1>3. book'[e] = new /\ \A f \in Ends : f # e => book'[f] = book[f]
  BY ZenonT(60), <1>1 DEF Writes
<1>4. ASSUME NEW f \in Ends, f # e PROVE NewestAt(f)'
  BY <1>1, <1>2, <1>3, <1>4 DEF NewestIsLive, NewestAt
<1>5. NewestAt(e)'
  <2> SUFFICES ASSUME NEW k \in Conns, conn'[e][k] \in Promoted,
                      \A d \in Conns : d > k => conn'[e][d] \in Unpromoted
               PROVE  new.live = k
    BY ZenonT(60), <1>3 DEF NewestAt
  <2>1. ~(c > k)
    BY ZenonT(60), <1>2 DEF Unpromoted
  <2>2. CASE k = c
    BY ZenonT(60), <1>2, <2>2 DEF Promoted
  <2>3. CASE k # c
    <3>1. k > c /\ conn[e][k] \in Promoted
      BY <1>2, <2>1, <2>3, Bounds
    <3>2. s = "gone"
      BY ZenonT(60), <3>1
    <3>3. \A d \in Conns : d > k => conn[e][d] \in Unpromoted
      BY ZenonT(60), <1>2, <2>1, Bounds
    <3>4. book[e].live = k
      BY ZenonT(60), <1>1, <3>1, <3>3 DEF NewestIsLive, NewestAt
    <3> QED BY ZenonT(60), <2>3, <3>2, <3>4
  <2> QED BY ZenonT(60), <2>2, <2>3
<1> QED BY ZenonT(60), <1>4, <1>5 DEF NewestIsLive

LEMMA NewestStep == ASSUME AInv, [Next]_vars PROVE NewestIsLive'
<1>0. PInv /\ book \in [Ends -> Books] /\ NewestIsLive
  BY ZenonT(60) DEF AInv, PInv, TypeOK, Books
<1>1. CASE UNCHANGED <<book, conn>>
  BY ZenonT(60), <1>0, <1>1 DEF NewestIsLive, NewestAt
<1>2. ASSUME NEW e \in Ends, DropAdmission(e) PROVE NewestIsLive'
  <2>1. book' = [book EXCEPT ![e] = RemovePairing(book[e])] /\ UNCHANGED conn
    BY ZenonT(60), <1>2 DEF DropAdmission, Writes
  <2>2. \A f \in Ends : book'[f].live = book[f].live
    BY ZenonT(60), <1>0, <2>1, RemovePairingType
  <2> QED BY ZenonT(60), <1>0, <2>1, <2>2 DEF NewestIsLive, NewestAt
<1>3. ASSUME NEW c \in Conns, Dial(c) \/ Arrive(c) PROVE NewestIsLive'
  <2>1. /\ UNCHANGED book
        /\ \E e \in Ends, x \in {"shaking", "failed"} : conn[e][c] = "none" /\ ConnBecomes(e, c, x)
    BY ZenonT(60), <1>3, ArriveNext, TwoEnds DEF Dial, Arrive, books
  <2>2. PICK e \in Ends, x \in {"shaking", "failed"} : conn[e][c] = "none" /\ ConnBecomes(e, c, x)
    BY ZenonT(60), <2>1
  <2> QED BY ZenonT(60), <2>1, <2>2, NewestConn DEF Unpromoted, ConnStates
<1>4. ASSUME NEW e \in Ends, NEW c \in Conns, Finish(e, c) PROVE NewestIsLive'
  <2>1. conn[e][c] = "shaking"
    BY ZenonT(60), <1>4 DEF Finish
  <2>2. CASE book[e].admission
    <3>1. Writes(e, Promote(book[e], c)) /\ ConnBecomes(e, c, "promoted")
      BY ZenonT(60), <1>4, <2>2 DEF Finish
    <3>2. Promote(book[e], c) \in Books /\ Promote(book[e], c).live = c
      BY ZenonT(60), <1>0, BookOps
    <3>3. \A d \in Conns : d > c => conn[e][d] \notin Promoted
      BY ZenonT(60), <1>0, <1>4, FinishNewest
    <3> QED BY ZenonT(60), <3>1, <3>2, <3>3, NewestBook
  <2>3. CASE ~book[e].admission
    <3>1. UNCHANGED book /\ ConnBecomes(e, c, "failed")
      BY ZenonT(60), <1>4, <2>3 DEF Finish, books
    <3> QED BY ZenonT(60), <2>1, <3>1, NewestConn DEF Unpromoted, ConnStates
  <2> QED BY ZenonT(60), <2>2, <2>3
<1>5. ASSUME NEW e \in Ends, NEW c \in Conns, HandshakeFails(e, c) PROVE NewestIsLive'
  <2>1. conn[e][c] = "shaking" /\ ConnBecomes(e, c, "failed") /\ UNCHANGED book
    BY ZenonT(60), <1>5 DEF HandshakeFails, books
  <2> QED BY ZenonT(60), <2>1, NewestConn DEF Unpromoted, ConnStates
<1>6. ASSUME NEW e \in Ends, NEW c \in Conns, Started(e, c) \/ CloseLocally(e, c)
      PROVE  NewestIsLive'
  <2>1. PICK s \in {"up", "draining"} : ConnBecomes(e, c, s)
    BY ZenonT(60), <1>6 DEF Started, CloseLocally
  <2>2. conn[e][c] \in {"promoted", "up"} /\ UNCHANGED book
    BY ZenonT(60), <1>6 DEF Started, CloseLocally, books
  <2> QED BY ZenonT(60), <2>1, <2>2, NewestConn DEF ConnStates, Promoted
<1>7. ASSUME NEW e \in Ends, NEW c \in Conns, ClosedByPeer(e, c) \/ DrainEnds(e, c)
      PROVE  NewestIsLive'
  <2>1. ConnBecomes(e, c, "gone") /\ Writes(e, RemoveLive(book[e], c))
    BY ZenonT(60), <1>7 DEF ClosedByPeer, DrainEnds
  <2>2. /\ RemoveLive(book[e], c) \in Books
        /\ RemoveLive(book[e], c).live = IF book[e].live = c THEN 0 ELSE book[e].live
    BY ZenonT(60), <1>0, BookOps
  <2> QED BY ZenonT(60), <2>1, <2>2, NewestBook
<1>8. \/ UNCHANGED <<book, conn>>
      \/ \E e \in Ends : \/ DropAdmission(e)
                         \/ \E c \in Conns : \/ Finish(e, c) \/ HandshakeFails(e, c)
                                             \/ Started(e, c) \/ CloseLocally(e, c) \/ ClosedByPeer(e, c)
                                             \/ DrainEnds(e, c)
      \/ \E c \in Conns : Dial(c) \/ Arrive(c)
  BY ZenonT(60) DEF Next, vars, books, Bump, NextEpoch, Insert, Lookup
<1> QED BY ZenonT(60), <1>1, <1>2, <1>3, <1>4, <1>5, <1>6, <1>7, <1>8

\* An end whose bumps have run stamps what its book derives now.
LEMMA StampsBook ==
  ASSUME PInv, NEW e \in Ends, owed[e] = 0, NEW host \in Hosts,
         NEW secret, TagFor(book[e], host, epoch[e]) = {Tag(secret, host, epoch[e])}
  PROVE  Stamps(e, host) = {Tag(secret, host, epoch[e])}
<1>1. CASE Hit(e, host) = {}
  BY ZenonT(60), <1>1 DEF Stamps
<1>2. CASE Hit(e, host) # {}
  <2>1. \A t \in Hit(e, host) : t.epoch = epoch[e] /\ t \in cache[e].tags /\ cache[e].host = host
    BY ZenonT(60) DEF Hit, Kept
  <2>2. \A t \in Hit(e, host) : t \in TagFor(book[e], cache[e].host, t.epoch)
    BY ZenonT(60), <2>1 DEF PInv, Fresh, FreshAt
  <2>3. \A t \in Hit(e, host) : t = Tag(secret, host, epoch[e])
    BY ZenonT(60), <2>1, <2>2
  <2> QED BY ZenonT(60), <1>2, <2>3 DEF Stamps
<1> QED BY ZenonT(60), <1>1, <1>2

\* ... and the other end attributes it, if it holds the secret too.
LEMMA HeldReaches ==
  ASSUME AInv, NEW e \in Ends, owed[e] = 0, NEW secret \in Secrets(book[Other(e)]),
         \A host \in Hosts : TagFor(book[e], host, epoch[e]) = {Tag(secret, host, epoch[e])}
  PROVE  Reaches(e)
<1> SUFFICES ASSUME NEW host \in Hosts
             PROVE  /\ Stamps(e, host) # {}
                    /\ \A t \in Stamps(e, host) :
                         Resolves(book[Other(e)], t, host, epoch[Other(e)])
  BY ZenonT(60) DEF Reaches
<1>1. Stamps(e, host) = {Tag(secret, host, epoch[e])}
  BY ZenonT(60), StampsBook DEF AInv
<1>2. epoch[e] \in Window(epoch[Other(e)])
  <2>1. epoch \in [Ends -> Nat] /\ epoch[e] <= epoch[Other(e)] + 1 /\ epoch[Other(e)] <= epoch[e] + 1
    BY PairingBounds, OtherEnds DEF AInv, PInv, TypeOK, Epochs, EpochsClose
  <2> QED BY ZenonT(60), <2>1, OtherEnds DEF Window
<1>3. Resolves(book[Other(e)], Tag(secret, host, epoch[e]), host, epoch[Other(e)])
  BY ZenonT(60), <1>2 DEF Resolves, Tag
<1> QED BY ZenonT(60), <1>1, <1>3

\* For any number of dials, epochs and relay hosts: while both ends hold the
\* admission each attributes what the other stamps, and an end that dropped its
\* own reaches the other with the newest connection both promoted
\* (tag_for_send, resolve, promote_pairing, remove_pairing).
THEOREM AdmissionReachesCorrect == Spec => []AdmissionReaches
<1>1. AInv => HeldAdmissionReaches
  <2> SUFFICES ASSUME AInv, NEW e \in Ends, book[e].admission, book[Other(e)].admission,
                      owed[e] = 0
               PROVE  Reaches(e)
    BY ZenonT(60) DEF HeldAdmissionReaches
  <2>1. Admission \in Secrets(book[Other(e)])
    BY ZenonT(60) DEF Secrets
  <2>2. \A host \in Hosts : TagFor(book[e], host, epoch[e]) = {Tag(Admission, host, epoch[e])}
    BY ZenonT(60) DEF TagFor
  <2> QED BY ZenonT(60), <2>1, <2>2, HeldReaches
<1>2. AInv => DroppedStillReaches
  <2> SUFFICES ASSUME AInv, NEW e \in Ends, NEW c \in Conns, ~book[e].admission, owed[e] = 0,
                      \A f \in Ends :
                        /\ conn[f][c] \in Promoted
                        /\ \A d \in (c + 1)..MaxConns : conn[f][d] \in {"none", "failed"}
               PROVE  Reaches(e)
    BY ZenonT(60) DEF DroppedStillReaches
  <2>1. c \in Nat \ {0} /\ \A d \in Conns : d > c => d \in (c + 1)..MaxConns
    BY PairingBounds DEF Conns
  <2>2. \A f \in Ends : book[f].live = c
    BY ZenonT(60), <2>1 DEF AInv, NewestIsLive, NewestAt, Unpromoted
  <2>3. c \in Secrets(book[Other(e)])
    BY ZenonT(60), <2>1, <2>2, OtherEnds DEF Secrets
  <2>4. Secrets(book[e]) = {c}
    BY ZenonT(60), <2>1, <2>2 DEF Secrets
  <2>5. \A host \in Hosts : TagFor(book[e], host, epoch[e]) = {Tag(c, host, epoch[e])}
    BY ZenonT(60), <2>4 DEF TagFor
  <2> QED BY ZenonT(60), <2>3, <2>5, HeldReaches
<1>3. Init => AInv
  <2> SUFFICES ASSUME Init PROVE AInv
    BY ZenonT(60)
  <2>1. \A e \in Ends, c \in Conns : conn[e][c] = "none"
    BY ZenonT(60) DEF Init
  <2>2. NewestIsLive
    BY ZenonT(60), <2>1 DEF NewestIsLive, NewestAt, Promoted
  <2>3. epoch \in [Ends -> 0..1]
    BY ZenonT(60) DEF Init
  <2>4. EpochsClose
    BY <2>3, OtherEnds DEF EpochsClose
  <2> QED BY ZenonT(60), <2>2, <2>4, PairingInit DEF AInv
<1>4. AInv /\ [Next]_vars => AInv'
  BY ZenonT(60), PairingStep, NewestStep, EpochsStep DEF AInv
<1> QED BY <1>1, <1>2, <1>3, <1>4, PTL DEF Spec, AdmissionReaches
=============================================================================
