------------------------------- MODULE Codecs -------------------------------
(***************************************************************************)
(* The wire formats as functions from values to bytes and back: relay      *)
(* frames (crates/link-core/src/wire.rs), node IDs as base32 text (id.rs), *)
(* blob response headers (crates/link-blossom/src/wire.rs) and enrolment   *)
(* frames (crates/link-engine/src/lib.rs).  A byte is a number below Base  *)
(* and the field widths are scaled down; a decoder that refuses returns    *)
(* the empty set, one that accepts the set of its one result.              *)
(***************************************************************************)
EXTENDS Naturals, Sequences, FiniteSets

CONSTANTS
  Base,          \* values of a byte
  IdBytes,       \* 32, a node ID or an opaque field
  TagBytes,      \* TAG_BYTES
  MaxDatagram,   \* MAX_DATAGRAM
  MaxTags,       \* MAX_TAGS_PER_REGISTER
  MaxText,       \* MAX_CONTENT_TYPE, MAX_CARD_BYTES: bounds of a counted field
  ByteBits,      \* 8 \
  CharBits,      \* 5  | base32, with IdBytes bytes in AccBits of accumulator
  AccBits        \* 32 /

ASSUME CodecBounds ==
  /\ {Base, IdBytes, TagBytes, MaxDatagram, MaxTags, MaxText} \subseteq Nat \ {0}
  /\ MaxTags < Base * Base /\ MaxText < Base * Base
  /\ {ByteBits, CharBits, AccBits} \subseteq Nat \ {0} /\ CharBits <= ByteBits
  /\ AccBits >= ByteBits + CharBits - 1

Byte == 0..Base - 1
From(bytes, k) == SubSeq(bytes, k, Len(bytes))
Upto(bytes, k) == SubSeq(bytes, 1, k)

\* to_be_bytes and from_be_bytes of a u16.
Be(n) == <<(n \div Base) % Base, n % Base>>
FromBe(bytes) == bytes[1] * Base + bytes[2]

(***************************************************************************)
(* Frame::encode and Frame::decode: a tag byte, then the body.             *)
(***************************************************************************)
FixedWidth ==
  [challenge |-> IdBytes, welcome |-> TagBytes, ping |-> TagBytes, pong |-> TagBytes, close |-> 2]
ByNode == {"send", "recv"}
ByTag == {"send_tag", "recv_tag"}
FrameTags == DOMAIN FixedWidth \cup ByNode \cup ByTag \cup {"auth", "register"}

\* The tags one after the other.
Joined(tags) ==
  [i \in 1..Len(tags) * TagBytes |-> tags[((i - 1) \div TagBytes) + 1][((i - 1) % TagBytes) + 1]]

Encode(f) ==
  [tag |-> f.kind,
   body |-> CASE f.kind \in DOMAIN FixedWidth -> f.bytes
              [] f.kind = "auth" -> f.id \o f.bytes
              [] f.kind \in ByNode \cup ByTag -> f.id \o f.bytes
              [] f.kind = "register" -> Be(Len(f.tags)) \o Joined(f.tags)]

\* split_routed and split_routed_tag.
SplitRouted(kind, body, width) ==
  IF Len(body) > width /\ Len(body) - width <= MaxDatagram
  THEN {[kind |-> kind, id |-> Upto(body, width), bytes |-> From(body, width + 1)]}
  ELSE {}

\* The count is believed: tags beyond it are left over.
DecodeRegister_Trusts(body) ==
  IF Len(body) < 2 \/ FromBe(body) > MaxTags \/ Len(body) - 2 < FromBe(body) * TagBytes THEN {}
  ELSE {[kind |-> "register",
         tags |-> [i \in 1..FromBe(body) |->
                     SubSeq(body, 3 + (i - 1) * TagBytes, 2 + i * TagBytes)]]}

DecodeRegister(body) ==
  IF Len(body) < 2 \/ FromBe(body) > MaxTags \/ Len(body) - 2 # FromBe(body) * TagBytes THEN {}
  ELSE {[kind |-> "register",
         tags |-> [i \in 1..FromBe(body) |->
                     SubSeq(body, 3 + (i - 1) * TagBytes, 2 + i * TagBytes)]]}

Decode(wire) ==
  CASE wire.tag \in DOMAIN FixedWidth ->
         IF Len(wire.body) # FixedWidth[wire.tag] THEN {}
         ELSE {[kind |-> wire.tag, bytes |-> wire.body]}
    [] wire.tag = "auth" ->
         IF Len(wire.body) # 3 * IdBytes THEN {}
         ELSE {[kind |-> "auth", id |-> Upto(wire.body, IdBytes), bytes |-> From(wire.body, IdBytes + 1)]}
    [] wire.tag \in ByNode -> SplitRouted(wire.tag, wire.body, IdBytes)
    [] wire.tag \in ByTag -> SplitRouted(wire.tag, wire.body, TagBytes)
    [] wire.tag = "register" -> DecodeRegister(wire.body)
    [] OTHER -> {}

(***************************************************************************)
(* NodeId::to_base32 and from_base32: bits move through an accumulator of  *)
(* fixed width that is never masked.  A character is its value.            *)
(***************************************************************************)
TwoTo(n) == LET power[i \in 0..n] == IF i = 0 THEN 1 ELSE 2 * power[i - 1] IN power[n]

Shifted(acc, bits) == (acc * TwoTo(bits)) % TwoTo(AccBits)

\* One turn of either loop: take `wide` bits in, give `narrow` out while there
\* are enough.
Regrouped(s, symbol, wide, narrow) ==
  LET acc == (Shifted(s.acc, wide) + symbol) % TwoTo(AccBits)
      bits == s.bits + wide
      emitted == bits \div narrow
  IN [acc |-> acc, bits |-> bits - emitted * narrow,
      out |-> s.out \o [i \in 1..emitted |-> (acc \div TwoTo(bits - i * narrow)) % TwoTo(narrow)]]

Regroup(symbols, wide, narrow) ==
  LET run[k \in 0..Len(symbols)] ==
        IF k = 0 THEN [acc |-> 0, bits |-> 0, out |-> <<>>]
        ELSE Regrouped(run[k - 1], symbols[k], wide, narrow)
  IN run[Len(symbols)]

ToBase32(id) ==
  LET s == Regroup(id, ByteBits, CharBits)
  IN IF s.bits = 0 THEN s.out
     ELSE Append(s.out, Shifted(s.acc, CharBits - s.bits) % TwoTo(CharBits))

TextLength == (IdBytes * ByteBits + CharBits - 1) \div CharBits

\* Any spelling that decodes: the padding bits are not looked at.
FromBase32_AnySpelling(text) ==
  IF Len(text) # TextLength THEN {} ELSE {Upto(Regroup(text, CharBits, ByteBits).out, IdBytes)}

FromBase32(text) ==
  IF Len(text) # TextLength THEN {}
  ELSE {id \in {Regroup(text, CharBits, ByteBits).out} : Len(id) = IdBytes /\ ToBase32(id) = text}

(***************************************************************************)
(* ResponseHeader::encode and decode, and the enrolment frame: a field     *)
(* with its length in front, then the rest of the stream.  A content type  *)
(* is the sequence of its bytes, <<>> standing for None and for empty.     *)
(***************************************************************************)
HeaderStatuses == {"ok", "not found", "error", "unsupported version"}

\* from_utf8, over a code of one and two bytes: the highest byte opens a
\* character of two and is never its second.
Utf8(text) ==
  \A i \in 1..Len(text) : text[i] = Base - 1 => i < Len(text) /\ text[i + 1] # Base - 1

EncodeHeader(h) ==
  IF h.status # "ok" THEN [status |-> h.status, rest |-> <<>>]
  ELSE LET text == IF Len(h.text) <= MaxText THEN h.text ELSE <<>>
       IN [status |-> "ok", rest |-> <<h.size>> \o Be(Len(text)) \o text]

Short == [status |-> "short"]
\* What a reader that holds `rest` after the status byte makes of it: the
\* header and the bytes it took, Short, or a refusal.
DecodeHeader_Clips(status, rest) ==
  IF status # "ok" THEN [header |-> [status |-> status], taken |-> 0]
  ELSE IF Len(rest) < 3 THEN [header |-> Short, taken |-> 0]
  ELSE LET text == From(rest, 4) IN
       [header |-> [status |-> "ok", size |-> rest[1], text |-> text], taken |-> Len(rest)]

DecodeHeader(status, rest) ==
  IF status \notin HeaderStatuses THEN [header |-> [status |-> "bad status"], taken |-> 0]
  ELSE IF status # "ok" THEN [header |-> [status |-> status], taken |-> 0]
  ELSE IF Len(rest) < 3 THEN [header |-> Short, taken |-> 0]
  ELSE LET n == FromBe(From(rest, 2)) IN
       IF n > MaxText THEN [header |-> [status |-> "too long"], taken |-> 0]
       ELSE IF Len(rest) < 3 + n THEN [header |-> Short, taken |-> 0]
       ELSE IF ~Utf8(SubSeq(rest, 4, 3 + n))
       THEN [header |-> [status |-> "bad content type"], taken |-> 0]
       ELSE [header |-> [status |-> "ok", size |-> rest[1], text |-> SubSeq(rest, 4, 3 + n)],
             taken |-> 3 + n]

\* route_frame and route_card, after the EVR1 magic.
RouteFrame(card) == Be(Len(card)) \o card
RouteCard(frame) ==
  IF Len(frame) < 2 \/ FromBe(frame) > MaxText \/ Len(frame) # 2 + FromBe(frame) THEN {}
  ELSE {From(frame, 3)}

=============================================================================
