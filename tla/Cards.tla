------------------------------- MODULE Cards -------------------------------
(***************************************************************************)
(* The life of an address card: Endpoint::open and Endpoint::card sign it  *)
(* (crates/link-endpoint/src/endpoint.rs), the shell keeps the serial and  *)
(* hands the card out, a peer verifies it (crates/link-core/src/card.rs)   *)
(* and keeps it in a route that verify_route checks again at every start   *)
(* (crates/link-engine/src/lib.rs).  Lengths are the code's own; a card is *)
(* its fields, the lengths of its hints and its own, and its signature is  *)
(* always right.                                                           *)
(***************************************************************************)
EXTENDS Integers, Sequences, FiniteSetsExt

CONSTANTS
  Seeded,        \* the shell gives serial_seed back after a restart
  Top,           \* u64::MAX, scaled
  ClockSkew,     \* CLOCK_SKEW_SECONDS, scaled; no clock is further off
  MaxLifetime,   \* MAX_LIFETIME_SECONDS, scaled
  MaxTime,       \* the length of a behaviour
  MaxIssued,     \* cards signed in a behaviour
  Owns,          \* hints an endpoint has of its own: its relays, then its addresses
  Ttls,          \* lifetimes asked for
  Extras         \* extra hints callers add: sequences of hints

ASSUME CardBounds ==
  /\ Seeded \in BOOLEAN
  /\ {Top, ClockSkew, MaxLifetime, MaxTime, MaxIssued} \subseteq Nat \ {0}
  /\ Ttls \subseteq Nat /\ MaxTime + ClockSkew <= Top

MinCardBytes == 126
MaxCardBytes == 4096
MaxHints == 16
HeaderBytes == 62
SignatureBytes == 64

VARIABLES
  time,      \* the peer's clock, the reference
  drift,     \* the endpoint's clock is time + drift
  serial,    \* Endpoint::serial, -1 while no endpoint is open
  kept,      \* the high-water mark the shell persisted
  signed,    \* cards signed so far, which numbers them
  drawn,     \* cards returned whose serial is not yet persisted
  ready,     \* cards whose serial is persisted, not yet handed out
  handed,    \* cards handed out
  highest,   \* the highest serial the peer accepted
  routes     \* the routes the peer keeps

cardVars == <<time, drift, serial, kept, signed, drawn, ready, handed, highest, routes>>

Now == Max({0, time + drift})

(***************************************************************************)
(* Card::verify: the rules a card breaks, and the first of them (0: none). *)
(***************************************************************************)
Relay(len) == [kind |-> "relay", len |-> len]
Ephemeral == [kind |-> "ephemeral", len |-> 33]

\* A hint's bytes come from the configuration or the caller, unchecked, and may
\* be of any length.  Of an ephemeral key verify asks that it is a curve point
\* ("no point": it is not); kinds it does not know pass.
Hint == [kind : {"relay", "udp", "onion", "ephemeral", "no point", "unknown"}, len : Nat]
ASSUME HintsAssumption == Owns \subseteq Seq(Hint) /\ Extras \subseteq Seq(Hint)

HintFits(h) ==
  h.len \in CASE h.kind = "relay" -> 1..255
              [] h.kind = "udp" -> {18}
              [] h.kind = "onion" -> {58}
              [] h.kind = "ephemeral" -> {33}
              [] h.kind = "no point" -> {}
              [] h.kind = "unknown" -> Nat

\* The places of the bytes of the hints: a kind, two of length, the value.
HintBytes(hints) == UNION {{i} \X (1..3 + hints[i].len) : i \in DOMAIN hints}
CardBytes(hints) == HeaderBytes + SignatureBytes + Cardinality(HintBytes(hints))
WellFormed(hints) ==
  /\ \A i \in DOMAIN hints : HintFits(hints[i])
  /\ Cardinality({i \in DOMAIN hints : hints[i].kind = "ephemeral"}) <= 1

\* ctx: now, highest and the node expected.
Broken(c, ctx) ==
  (IF c.bytes \in MinCardBytes..MaxCardBytes THEN {} ELSE {1})
  \cup (IF Len(c.hints) <= MaxHints /\ WellFormed(c.hints) THEN {} ELSE {3})
  \cup (IF c.issued > ctx.now + ClockSkew THEN {5} ELSE {})
  \cup (IF c.expires <= ctx.now THEN {6} ELSE {})
  \cup (IF c.expires <= c.issued \/ c.expires - c.issued > MaxLifetime THEN {7} ELSE {})
  \cup (IF c.serial <= ctx.highest THEN {8} ELSE {})

Verify(c, ctx) == IF Broken(c, ctx) = {} THEN 0 ELSE Min(Broken(c, ctx))

\* verify_route: at its own time of verification, just above its serial - 1.
VerifyRoute(r) ==
  /\ r.serial > 0
  /\ Verify(r.card, [now |-> r.at, highest |-> r.serial - 1]) = 0
  /\ r.card.serial = r.serial

(***************************************************************************)
(* The endpoint: open and card.                                            *)
(***************************************************************************)
CardInit ==
  /\ time = 0 /\ drift = 0 /\ serial = -1 /\ kept = 0 /\ signed = 0
  /\ drawn = {} /\ ready = {} /\ handed = {} /\ highest = 0 /\ routes = {}

ThePeer == <<highest, routes>>
TheShell == <<kept, signed, drawn, ready, handed>>

\* The clock alone, as if no mark had been kept.
OpenEndpoint_Unseeded ==
  /\ serial = -1 /\ kept # Top
  /\ serial' = Now
  /\ UNCHANGED <<time, drift, TheShell, ThePeer>>

OpenEndpoint ==
  /\ serial = -1
  /\ LET seed == IF Seeded THEN kept ELSE 0 IN
       seed # Top /\ serial' = Max({seed, Now})
  /\ UNCHANGED <<time, drift, TheShell, ThePeer>>

\* Every hint of the endpoint's own, whatever the caller adds.
CardHints_All(own, extra) == own \o extra

CardHints(own, extra) ==
  LET added == SubSeq(extra, 1, Min({Len(extra), MaxHints}))
  IN SubSeq(own, 1, Min({Len(own), MaxHints - Len(added)})) \o added

\* Callers may be in card at once.  The draw is one fetch_update; a call that is
\* held up between reading the clock and its draw is one whose clock is set back.
Card(ttl, own, extra) ==
  /\ serial # -1 /\ signed < MaxIssued
  /\ serial' = Max({Min({serial + 1, Top}), Now})
  /\ signed' = signed + 1
  /\ LET life == Min({Max({ttl, 1}), MaxLifetime})
         hints == CardHints(own, extra)
         c == [issued |-> Now, expires |-> Now + life, serial |-> serial', nth |-> signed',
               hints |-> hints, bytes |-> CardBytes(hints)]
     IN drawn' = drawn \cup {c}
  /\ UNCHANGED <<time, drift, kept, ready, handed, ThePeer>>

\* The shell (external) keeps the mark before the card goes out, for each card
\* by itself.
Persist(c) ==
  /\ c \in drawn /\ drawn' = drawn \ {c} /\ ready' = ready \cup {c}
  /\ kept' = Max({kept, c.serial})
  /\ UNCHANGED <<time, drift, serial, signed, handed, ThePeer>>

HandOut(c) ==
  /\ c \in ready /\ ready' = ready \ {c} /\ handed' = handed \cup {c}
  /\ UNCHANGED <<time, drift, serial, kept, signed, drawn, ThePeer>>

\* The process ends: cards not handed out are lost, the mark is not.
Crash ==
  /\ serial # -1 /\ serial' = -1 /\ drawn' = {} /\ ready' = {}
  /\ UNCHANGED <<time, drift, kept, signed, handed, ThePeer>>

Tick ==
  /\ time < MaxTime /\ time' = time + 1
  /\ UNCHANGED <<drift, serial, TheShell, ThePeer>>

SetClock(d) ==
  /\ drift' = d /\ d # drift
  /\ UNCHANGED <<time, serial, TheShell, ThePeer>>

\* The peer takes the cards in any order, some never.
Receive(c) ==
  /\ c \in handed
  /\ Verify(c, [now |-> time, highest |-> highest]) = 0
  /\ highest' = c.serial
  /\ routes' = {[card |-> c, serial |-> c.serial, at |-> time]}
  /\ UNCHANGED <<time, drift, serial, TheShell>>

CardNext ==
  \/ OpenEndpoint \/ Crash \/ Tick
  \/ \E ttl \in Ttls, own \in Owns, extra \in Extras : Card(ttl, own, extra)
  \/ \E c \in drawn : Persist(c)
  \/ \E c \in ready : HandOut(c)
  \/ \E d \in -ClockSkew..ClockSkew : SetClock(d)
  \/ \E c \in handed : Receive(c)

CardSpec == CardInit /\ [][CardNext]_cardVars

(***************************************************************************)
(* Properties                                                              *)
(***************************************************************************)
\* endpoint.rs `card`: of two cards that were handed out, in whatever order, the
\* one signed later has the higher serial, across clock changes, concurrent
\* callers and restarts, until the counter is exhausted.
SerialsRise ==
  \A c, d \in handed : c.nth < d.nth => c.serial < d.serial \/ c.serial = Top

\* A card an endpoint signs is refused by a peer whose clock is within the
\* skew for its age (6) or for a newer card (8) only, unless a hint that the
\* configuration or the caller gave is ill formed, or all of them are too long
\* together; there are never too many.
OwnCardsVerify ==
  \A c \in handed :
    \/ c.bytes > MaxCardBytes \/ ~WellFormed(c.hints)
    \/ Verify(c, [now |-> time, highest |-> 0]) \in {0, 6}

\* verify_route: a route kept from a card that verified verifies at every
\* later start, whatever the time and whatever came after.
KeptRouteReopens == \A r \in routes : VerifyRoute(r)

\* A card this endpoint signs is taken, and goes on being taken (card, verify,
\* verify_route).
CardsAccepted == OwnCardsVerify /\ KeptRouteReopens

=============================================================================
