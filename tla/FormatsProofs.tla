---------------------------- MODULE FormatsProofs ----------------------------
(***************************************************************************)
(* Proofs about the wire formats and the HTTP exchanges, for any width of  *)
(* a byte, an ID, a tag, a character and the accumulator, and any limits.  *)
(***************************************************************************)
EXTENDS Formats, Integers, FiniteSetTheorems, WellFoundedInduction, TLAPS

(***************************************************************************)
(* Division and remainder.                                                 *)
(***************************************************************************)
\* a is q times p and r more.
Splits(a, p, q, r) == q \in Nat /\ r \in Nat /\ r < p /\ a = p * q + r

\* Quotient and remainder are the only numbers that split a.
LEMMA Unique ==
  ASSUME NEW a, NEW p \in Nat \ {0}, NEW q, NEW r, Splits(a, p, q, r)
  PROVE  a \div p = q /\ a % p = r
<1>1. ASSUME NEW x \in Nat, NEW y \in Nat, y < p
      PROVE  (p * x + y) \div p = x /\ (p * x + y) % p = y
  BY <1>1
<1> QED BY ZenonT(60), <1>1 DEF Splits

\* \div and % split a.
LEMMA DivMod ==
  ASSUME NEW a \in Nat, NEW p \in Nat \ {0}
  PROVE  Splits(a, p, a \div p, a % p)
<1> DEFINE q == a \div p
<1> DEFINE r == a - p * q
<1>1. q \in Nat
  OBVIOUS
<1>2. a - p * q < p
  OBVIOUS
<1>3. p * q <= a
  OBVIOUS
<1> HIDE DEF q
<1>4. Splits(a, p, q, r)
  BY <1>1, <1>2, <1>3 DEF Splits
<1> HIDE DEF r
<1>5. a \div p = q /\ a % p = r
  BY ZenonT(60), <1>4, Unique
<1> QED BY ZenonT(60), <1>4, <1>5

\* from_be_bytes undoes to_be_bytes, and the other way round.
LEMMA BeRoundTrip ==
  ASSUME NEW n \in Nat, n < Base * Base
  PROVE  Be(n) \in Seq(Byte) /\ Len(Be(n)) = 2 /\ FromBe(Be(n)) = n
<1> DEFINE q == n \div Base r == n % Base
<1>1. Base \in Nat \ {0}
  BY CodecBounds
<1>2. Splits(n, Base, q, r)
  BY ZenonT(60), <1>1, DivMod
<1>3. Be(n) = <<q % Base, r>>
  BY ZenonT(60) DEF Be
<1> HIDE DEF q, r
<1>4. q < Base /\ q \in Nat /\ r \in Nat /\ r < Base /\ q * Base + r = n
  BY <1>1, <1>2 DEF Splits
<1>5. q % Base = q
  BY <1>1, <1>4
<1>6. q \in Byte /\ r \in Byte
  BY <1>1, <1>4 DEF Byte
<1>7. Be(n) = <<q, r>>
  BY ZenonT(60), <1>3, <1>5
<1> QED BY <1>4, <1>6, <1>7 DEF FromBe

\* The two bytes that from_be_bytes reads are the ones to_be_bytes writes.
LEMMA BeInverse ==
  ASSUME NEW bytes \in Seq(Byte), Len(bytes) >= 2
  PROVE  FromBe(bytes) \in Nat /\ Be(FromBe(bytes)) = <<bytes[1], bytes[2]>>
<1>1. Base \in Nat \ {0}
  BY CodecBounds
<1>2. bytes[1] \in Byte /\ bytes[2] \in Byte
  OBVIOUS
<1> DEFINE x == bytes[1] y == bytes[2] n == FromBe(bytes)
<1>3. n = x * Base + y
  BY ZenonT(60) DEF FromBe
<1> HIDE DEF x, y, n
<1>4. x \in Nat /\ y \in Nat /\ x < Base /\ y < Base
  BY <1>1, <1>2 DEF Byte, x, y
<1>5. n \in Nat /\ Splits(n, Base, x, y)
  BY <1>1, <1>3, <1>4 DEF Splits
<1>6. n \div Base = x /\ n % Base = y
  BY ZenonT(60), <1>1, <1>5, Unique
<1>7. x % Base = x
  BY <1>1, <1>4
<1>8. Be(n) = <<x, y>>
  BY ZenonT(60), <1>6, <1>7 DEF Be
<1> QED BY ZenonT(60), <1>5, <1>8 DEF x, y, n

\* What \o puts where.
Joins(x, s, t) ==
  /\ Len(x) = Len(s) + Len(t) /\ Len(s) \in Nat /\ Len(t) \in Nat
  /\ \A i \in 1..Len(s) : x[i] = s[i]
  /\ \A i \in 1..Len(t) : x[Len(s) + i] = t[i]

\* Concatenation keeps both its parts, one after the other.
LEMMA Concat ==
  ASSUME NEW S, NEW s \in Seq(S), NEW t \in Seq(S)
  PROVE  s \o t \in Seq(S) /\ Joins(s \o t, s, t)
BY DEF Joins

\* Sequences of one length that agree everywhere are one.
LEMMA Same ==
  ASSUME NEW S, NEW s \in Seq(S), NEW t \in Seq(S), Len(s) = Len(t),
         \A i \in 1..Len(t) : s[i] = t[i]
  PROVE  s = t
OBVIOUS

\* y is x from m to n.
Part(y, x, m, n) ==
  Len(y) = n - m + 1 /\ \A i \in 1..n - m + 1 : y[i] = x[m + i - 1]

\* SubSeq takes the elements from m to n.
LEMMA Cut ==
  ASSUME NEW S, NEW x \in Seq(S), NEW m \in Nat \ {0}, NEW n \in Nat, m <= n + 1, n <= Len(x)
  PROVE  SubSeq(x, m, n) \in Seq(S) /\ Part(SubSeq(x, m, n), x, m, n)
BY DEF Part

\* One element before two.
LEMMA OneAndTwo ==
  ASSUME NEW S, NEW a \in S, NEW b \in S, NEW c \in S
  PROVE  <<a>> \o <<b, c>> = <<a, b, c>>
<1> DEFINE s == <<a>> t == <<b, c>> u == <<a, b, c>> x == s \o t
<1>1. s \in Seq(S) /\ Len(s) = 1 /\ s[1] = a
  OBVIOUS
<1>2. t \in Seq(S) /\ Len(t) = 2 /\ t[1] = b /\ t[2] = c
  OBVIOUS
<1>3. u \in Seq(S) /\ Len(u) = 3 /\ u[1] = a /\ u[2] = b /\ u[3] = c
  OBVIOUS
<1>4. x \in Seq(S) /\ Joins(x, s, t)
  BY ZenonT(60), <1>1, <1>2, Concat
<1> HIDE DEF s, t, u, x
<1>5. Len(x) = 3 /\ x[1] = a /\ x[2] = b /\ x[3] = c
  BY <1>1, <1>2, <1>4 DEF Joins
<1>6. \A i \in 1..3 : x[i] = u[i]
  BY <1>3, <1>5
<1> QED BY ZenonT(60), <1>3, <1>4, <1>5, <1>6, Same DEF s, t, u, x

\* A sequence over a set is one over any larger set.
LEMMA Widen ==
  ASSUME NEW S, NEW T, S \subseteq T, NEW s \in Seq(S)
  PROVE  s \in Seq(T)
OBVIOUS

\* A byte is a number.
LEMMA ByteNat == Byte \subseteq Nat
BY CodecBounds DEF Byte

(***************************************************************************)
(* Fields with their length in front.                                      *)
(***************************************************************************)
\* A status byte read, then a size and a text as ResponseHeader writes them.
Carries(x, size, n) ==
  x \in Seq(Nat) /\ Len(x) >= 3 /\ x[1] = size /\ x[2] * Base + x[3] = n

\* The count in front of a text is the one that was written.
LEMMA CountRead ==
  ASSUME NEW x, NEW size, NEW n, Carries(x, size, n)
  PROVE  FromBe(From(x, 2)) = n
<1>1. From(x, 2)[1] = x[2] /\ From(x, 2)[2] = x[3]
  BY DEF Carries, From
<1> QED BY ZenonT(60), <1>1 DEF FromBe, Carries

\* ResponseHeader::decode takes a header that is all there, and no byte more.
LEMMA HeaderWhole ==
  ASSUME NEW x, NEW size, NEW n \in Nat, Carries(x, size, n), n <= MaxText, Len(x) >= 3 + n,
         Utf8(SubSeq(x, 4, 3 + n))
  PROVE  DecodeHeader("ok", x)
           = [header |-> [status |-> "ok", size |-> size, text |-> SubSeq(x, 4, 3 + n)],
              taken |-> 3 + n]
<1>1. FromBe(From(x, 2)) = n
  BY ZenonT(60), CountRead
<1>2. Len(x) \in Nat /\ MaxText \in Nat /\ Len(x) >= 3 /\ x[1] = size
  BY CodecBounds DEF Carries
<1>3. ~(Len(x) < 3) /\ ~(n > MaxText) /\ ~(Len(x) < 3 + n)
  BY <1>2
<1> QED BY ZenonT(60), <1>1, <1>2, <1>3 DEF DecodeHeader, HeaderStatuses

\* ResponseHeader::decode waits for more when a header is not all there.
LEMMA HeaderCut ==
  ASSUME NEW x, Len(x) < 3 \/ \E size, n \in Nat : Carries(x, size, n) /\ n <= MaxText /\ Len(x) < 3 + n
  PROVE  DecodeHeader("ok", x).header = Short
<1>1. CASE Len(x) < 3
  <2>1. DecodeHeader("ok", x) = [header |-> Short, taken |-> 0]
    BY ZenonT(60), <1>1 DEF DecodeHeader, HeaderStatuses
  <2> QED BY <2>1
<1>2. ASSUME ~(Len(x) < 3), NEW size \in Nat, NEW n \in Nat, Carries(x, size, n), n <= MaxText, Len(x) < 3 + n
      PROVE  DecodeHeader("ok", x).header = Short
  <2>1. FromBe(From(x, 2)) = n
    BY ZenonT(60), <1>2, CountRead
  <2>2. ~(n > MaxText)
    BY <1>2, CodecBounds
  <2>3. DecodeHeader("ok", x) = [header |-> Short, taken |-> 0]
    BY ZenonT(60), <1>2, <2>1, <2>2 DEF DecodeHeader, HeaderStatuses
  <2> QED BY <2>3
<1> QED BY ZenonT(60), <1>1, <1>2

\* What ResponseHeader::encode gives for a text it keeps.
Header(r, size, t) ==
  /\ r \in Seq(Nat) /\ Len(r) = 3 + Len(t) /\ Carries(r, size, Len(t))
  /\ \A i \in 1..Len(t) : r[3 + i] = t[i]

\* The bytes that ResponseHeader::encode writes after the status.
LEMMA FieldBytes ==
  ASSUME NEW size \in Nat, NEW t \in Seq(Nat), Len(t) <= MaxText
  PROVE  Header(<<size>> \o Be(Len(t)) \o t, size, t)
<1> DEFINE n == Len(t) b == Be(n)
<1>1. n \in Nat /\ n < Base * Base
  BY SMTT(40), CodecBounds
<1>2. b \in Seq(Byte) /\ Len(b) = 2 /\ FromBe(b) = n
  BY ZenonT(60), <1>1, BeRoundTrip
<1>3. b \in Seq(Nat)
  BY ZenonT(60), <1>2, ByteNat, Widen
<1> HIDE DEF b, n
<1> DEFINE a == <<size>> \o b
<1>4. a \in Seq(Nat) /\ Len(a) = 3 /\ a[1] = size /\ a[2] = b[1] /\ a[3] = b[2]
  <2>1. <<size>> \in Seq(Nat) /\ Len(<<size>>) = 1 /\ <<size>>[1] = size
    OBVIOUS
  <2>2. a \in Seq(Nat) /\ Joins(a, <<size>>, b)
    BY ZenonT(60), <1>3, <2>1, Concat
  <2> HIDE DEF a
  <2> QED BY <1>2, <2>1, <2>2 DEF Joins
<1> HIDE DEF a
<1> DEFINE r == a \o t
<1>5. /\ r \in Seq(Nat) /\ Len(r) = 3 + n
      /\ \A i \in 1..3 : r[i] = a[i]
      /\ \A i \in 1..n : r[3 + i] = t[i]
  <2>1. r \in Seq(Nat) /\ Joins(r, a, t)
    BY ZenonT(60), <1>4, Concat
  <2> QED BY ZenonT(60), <1>4, <2>1 DEF n, Joins
<1> HIDE DEF r
<1>6. r[1] = size /\ r[2] = b[1] /\ r[3] = b[2] /\ Len(r) >= 3
  BY SMTT(40), <1>1, <1>4, <1>5
<1>7. r[2] * Base + r[3] = n
  BY ZenonT(60), <1>2, <1>6 DEF FromBe
<1>8. Carries(r, size, n)
  BY ZenonT(60), <1>5, <1>6, <1>7 DEF Carries
<1> QED BY ZenonT(60), <1>5, <1>8 DEF r, a, b, n, Header

\* The prefix a cut leaves, and bytes that follow, hold the same fields.
LEMMA HeaderReads ==
  ASSUME NEW size \in Nat, NEW t \in Seq(Nat), Len(t) <= MaxText, Utf8(t), NEW more \in Seq(Nat),
         NEW r, Header(r, size, t)
  PROVE  DecodeHeader("ok", r \o more)
           = [header |-> [status |-> "ok", size |-> size, text |-> t], taken |-> 3 + Len(t)]
<1> DEFINE n == Len(t) x == r \o more y == SubSeq(x, 4, 3 + n)
<1>1. n \in Nat /\ 3 + n \in Nat
  OBVIOUS
<1>2. x \in Seq(Nat) /\ Joins(x, r, more) /\ Len(r) = 3 + n
  BY ZenonT(60), Concat DEF Header
<1> HIDE DEF x
<1>3. Len(x) \in Nat /\ Len(x) >= 3 + n /\ Len(x) >= 3
  BY SMTT(40), <1>1, <1>2 DEF Joins
<1>4. \A i \in 1..3 + n : x[i] = r[i]
  BY ZenonT(60), <1>2 DEF Joins
<1>5. x[1] = r[1] /\ x[2] = r[2] /\ x[3] = r[3]
  <2>1. 1 \in 1..3 + n /\ 2 \in 1..3 + n /\ 3 \in 1..3 + n
    BY <1>1
  <2> QED BY ZenonT(60), <2>1, <1>4
<1>6. Carries(x, size, n)
  BY ZenonT(60), <1>2, <1>3, <1>5 DEF Carries, Header
<1>7. y \in Seq(Nat) /\ Part(y, x, 4, 3 + n)
  <2>1. 4 \in Nat \ {0} /\ 4 <= 3 + n + 1
    BY <1>1
  <2> QED BY ZenonT(60), <1>1, <1>2, <1>3, <2>1, Cut
<1> HIDE DEF y
<1>8. y = t
  <2>1. Len(y) = n /\ \A i \in 1..n : y[i] = x[3 + i] /\ 3 + i \in 1..3 + n
    <3> HIDE DEF n
    <3> QED BY <1>1, <1>7 DEF Part
  <2>2. \A i \in 1..n : y[i] = t[i]
    BY ZenonT(60), <2>1, <1>4 DEF Header
  <2> QED BY ZenonT(60), <2>1, <2>2, <1>7, Same
<1>9. DecodeHeader("ok", x)
        = [header |-> [status |-> "ok", size |-> size, text |-> y], taken |-> 3 + n]
  BY ZenonT(60), <1>1, <1>3, <1>6, <1>8, HeaderWhole DEF y
<1> QED BY ZenonT(60), <1>8, <1>9 DEF x

\* A header that was cut anywhere is Short.
LEMMA HeaderShort ==
  ASSUME NEW size \in Nat, NEW t \in Seq(Nat), Len(t) <= MaxText,
         NEW r, Header(r, size, t), NEW k \in 0..Len(r) - 1
  PROVE  DecodeHeader("ok", Upto(r, k)).header = Short
<1> DEFINE n == Len(t) x == Upto(r, k)
<1>1. n \in Nat /\ r \in Seq(Nat) /\ Len(r) = 3 + n
  <2>1. n \in Nat
    OBVIOUS
  <2> QED BY ZenonT(60), <2>1 DEF Header
<1>2. k \in Nat /\ k <= Len(r) /\ k < 3 + n /\ 1 \in Nat \ {0} /\ 1 <= k + 1
  BY <1>1
<1>3. x \in Seq(Nat) /\ Part(x, r, 1, k)
  BY ZenonT(60), <1>1, <1>2, Cut DEF Upto
<1> HIDE DEF x, n
<1>4. Len(x) = k /\ \A i \in 1..k : x[i] = r[i]
  BY <1>2, <1>3 DEF Part
<1>5. CASE k < 3
  BY ZenonT(60), <1>4, <1>5, HeaderCut DEF x
<1>6. CASE k >= 3
  <2>1. x[1] = r[1] /\ x[2] = r[2] /\ x[3] = r[3] /\ Len(x) >= 3
    BY <1>2, <1>4, <1>6
  <2>2. Carries(x, size, n)
    BY ZenonT(60), <1>3, <2>1 DEF Carries, Header, n
  <2> QED BY ZenonT(60), <1>1, <1>2, <1>4, <2>2, HeaderCut DEF x, n
<1>7. k < 3 \/ k >= 3
  BY <1>2
<1> QED BY ZenonT(60), <1>5, <1>6, <1>7

\* The enrolment frame: its first two bytes count the card's.
Counted(x, n) == x \in Seq(Nat) /\ Len(x) >= 2 /\ FromBe(x) = n

\* The bytes of route_frame: a count, then the card.
LEMMA EnrolBytes ==
  ASSUME NEW card \in Seq(Nat), Len(card) <= MaxText
  PROVE  /\ Counted(RouteFrame(card), Len(card)) /\ Len(RouteFrame(card)) = 2 + Len(card)
         /\ \A i \in 1..Len(card) : RouteFrame(card)[2 + i] = card[i]
<1> DEFINE n == Len(card) b == Be(n) x == b \o card
<1>1. n \in Nat /\ n < Base * Base
  BY SMTT(40), CodecBounds
<1>2. b \in Seq(Byte) /\ Len(b) = 2 /\ FromBe(b) = n
  BY ZenonT(60), <1>1, BeRoundTrip
<1>3. b \in Seq(Nat)
  BY ZenonT(60), <1>2, ByteNat, Widen
<1> HIDE DEF b
<1>4. x \in Seq(Nat) /\ Joins(x, b, card)
  BY ZenonT(60), <1>3, Concat
<1>5. RouteFrame(card) = x
  BY ZenonT(60) DEF RouteFrame, b
<1> HIDE DEF x, n
<1>6. Len(x) = 2 + n /\ \A i \in 1..n : x[2 + i] = card[i]
  BY ZenonT(60), <1>2, <1>4 DEF Joins, n
<1>7. x[1] = b[1] /\ x[2] = b[2] /\ Len(x) >= 2
  BY <1>1, <1>2, <1>4, <1>6 DEF Joins
<1>8. Counted(x, n)
  BY ZenonT(60), <1>2, <1>4, <1>7 DEF Counted, FromBe
<1> QED BY ZenonT(60), <1>5, <1>6, <1>8 DEF n

\* route_card gives a card back whose frame is all there.
LEMMA CardWhole ==
  ASSUME NEW card \in Seq(Nat), Len(card) <= MaxText, NEW x, Counted(x, Len(card)),
         Len(x) = 2 + Len(card), \A i \in 1..Len(card) : x[2 + i] = card[i]
  PROVE  RouteCard(x) = {card}
<1> DEFINE n == Len(card) y == SubSeq(x, 3, Len(x))
<1>1. n \in Nat /\ MaxText \in Nat
  BY CodecBounds
<1>2. x \in Seq(Nat) /\ FromBe(x) = n
  BY ZenonT(60) DEF Counted
<1> HIDE DEF n
<1>3. /\ Len(x) \in Nat /\ 3 \in Nat \ {0} /\ 3 <= Len(x) + 1 /\ Len(x) <= Len(x)
      /\ ~(Len(x) < 2) /\ ~(n > MaxText)
  BY <1>1, <1>2 DEF n
<1>4. y \in Seq(Nat) /\ Part(y, x, 3, Len(x))
  BY ZenonT(60), <1>2, <1>3, Cut
<1> HIDE DEF y
<1>5. Len(y) = n /\ \A i \in 1..n : y[i] = x[2 + i]
  <2>1. Len(x) = 2 + n
    BY ZenonT(60) DEF n
  <2> QED BY SMTT(40), <1>1, <1>4, <2>1 DEF Part
<1>6. \A i \in 1..n : y[i] = card[i]
  BY ZenonT(60), <1>5 DEF n
<1>7. y = card
  BY ZenonT(60), <1>4, <1>5, <1>6, Same DEF n
<1> QED BY ZenonT(60), <1>2, <1>3, <1>7 DEF RouteCard, From, n, y

\* route_card refuses a frame of any other length than the one it counts.
LEMMA CardRefused ==
  ASSUME NEW x, NEW n, Len(x) < 2 \/ (FromBe(x) = n /\ Len(x) # 2 + n)
  PROVE  RouteCard(x) = {}
BY ZenonT(60) DEF RouteCard

\* The three facts that FieldsExact asks of route_frame and route_card.
LEMMA CardExact ==
  ASSUME NEW card \in Seq(Nat), Len(card) <= MaxText
  PROVE  LET frame == RouteFrame(card)
         IN /\ RouteCard(frame) = {card}
            /\ RouteCard(Append(frame, 0)) = {}
            /\ \A k \in 0..Len(frame) - 1 : RouteCard(Upto(frame, k)) = {}
<1> DEFINE n == Len(card) frame == RouteFrame(card)
<1>1. n \in Nat
  OBVIOUS
<1>2. /\ Counted(frame, n) /\ Len(frame) = 2 + n
      /\ \A i \in 1..n : frame[2 + i] = card[i]
  BY ZenonT(60), EnrolBytes
<1>3. RouteCard(frame) = {card}
  BY ZenonT(60), <1>2, CardWhole
<1> HIDE DEF frame, n
<1>4. frame \in Seq(Nat)
  BY ZenonT(60), <1>2 DEF Counted
<1>5. RouteCard(Append(frame, 0)) = {}
  <2> DEFINE x == Append(frame, 0)
  <2>1. Len(x) # 2 + n /\ x[1] = frame[1] /\ x[2] = frame[2]
    BY <1>1, <1>2, <1>4 DEF Counted
  <2> HIDE DEF x
  <2>2. FromBe(x) = n
    BY ZenonT(60), <1>2, <2>1 DEF Counted, FromBe
  <2> QED BY ZenonT(60), <2>1, <2>2, CardRefused DEF x
<1>6. ASSUME NEW k \in 0..Len(frame) - 1 PROVE RouteCard(Upto(frame, k)) = {}
  <2> DEFINE x == Upto(frame, k)
  <2>1. k \in Nat /\ k <= Len(frame) /\ k # 2 + n /\ 1 \in Nat \ {0} /\ 1 <= k + 1
    BY <1>1, <1>2, <1>6
  <2>2. x \in Seq(Nat) /\ Part(x, frame, 1, k)
    BY ZenonT(60), <1>4, <2>1, Cut DEF Upto
  <2> HIDE DEF x
  <2>3. Len(x) = k /\ \A i \in 1..k : x[i] = frame[i]
    BY <2>1, <2>2 DEF Part
  <2>4. Len(x) < 2 \/ (x[1] = frame[1] /\ x[2] = frame[2])
    BY <2>1, <2>3
  <2>5. Len(x) < 2 \/ (FromBe(x) = n /\ Len(x) # 2 + n)
    BY ZenonT(60), <1>2, <2>1, <2>3, <2>4 DEF Counted, FromBe
  <2> QED BY ZenonT(60), <2>5, CardRefused DEF x
<1> QED BY ZenonT(60), <1>3, <1>5, <1>6 DEF frame

\* A sequence of any of the models' sets of byte strings.
LEMMA Strings ==
  ASSUME NEW S, NEW n \in Nat, NEW s \in [1..n -> S]
  PROVE  s \in Seq(S) /\ Len(s) = n
OBVIOUS

\* A text is a sequence of numbers.
LEMMA TextsType ==
  ASSUME NEW t \in Texts PROVE t \in Seq(Nat)
<1>1. PICK n \in 0..MaxText + 1 : t \in [1..n -> Byte]
  BY ZenonT(60) DEF Texts
<1>2. n \in Nat
  BY CodecBounds
<1> QED BY ZenonT(60), <1>1, <1>2, Strings, ByteNat, Widen

\* A reply is a sequence of bytes.
LEMMA RepliesType ==
  ASSUME NEW t \in Replies PROVE t \in Seq(Byte)
<1>1. PICK n \in 0..MaxText + 4 : t \in [1..n -> Byte]
  BY ZenonT(60) DEF Replies
<1>2. n \in Nat
  BY CodecBounds
<1> QED BY ZenonT(60), <1>1, <1>2, Strings

\* What an item of each part is.
LEMMA Parts ==
  ASSUME FormatsInit
  PROVE  /\ item.part = "frame" => item.frame \in Frames
         /\ item.part = "wire" => item.tag \in FrameTags \cup {"unknown"} /\ item.body \in Bodies
         /\ item.part = "id" => item.id \in [1..IdBytes -> 0..TwoTo(ByteBits) - 1]
         /\ item.part = "text" => item.text \in [1..TextLength -> 0..TwoTo(CharBits) - 1]
         /\ item.part = "header" =>
              /\ item.status \in HeaderStatuses /\ item.text \in ContentTypes
              /\ item.body \in {<<>>, <<1>>}
         /\ item.part = "reply" =>
              item.status \in HeaderStatuses \cup {"unknown"} /\ item.rest \in Replies
         /\ item.part = "card" => item.card \in Texts
         /\ item.part = "request" => item \in HttpRequests
         /\ item.part = "response" => item \in HttpResponses
<1>1. \/ item \in [part : {"wire"}, tag : FrameTags \cup {"unknown"}, body : Bodies]
      \/ item \in [part : {"frame"}, frame : Frames]
      \/ item \in [part : {"id"}, id : [1..IdBytes -> 0..TwoTo(ByteBits) - 1]]
      \/ item \in [part : {"text"}, text : [1..TextLength -> 0..TwoTo(CharBits) - 1]]
      \/ item \in [part : {"header"}, status : HeaderStatuses, text : ContentTypes, body : {<<>>, <<1>>}]
      \/ item \in [part : {"reply"}, status : HeaderStatuses \cup {"unknown"}, rest : Replies]
      \/ item \in [part : {"card"}, card : Texts]
      \/ item \in HttpRequests \/ item \in HttpResponses \/ item \in [part : {"cards", "limits"}]
  BY ZenonT(60) DEF FormatsInit, CodecItems
<1>2. item \in HttpRequests => item.part = "request"
  BY DEF HttpRequests
<1>3. item \in HttpResponses => item.part = "response"
  BY DEF HttpResponses
<1>4. CASE item \in [part : {"wire"}, tag : FrameTags \cup {"unknown"}, body : Bodies]
  BY ZenonT(60), <1>4
<1>5. CASE item \in [part : {"frame"}, frame : Frames]
  BY ZenonT(60), <1>5
<1>6. CASE item \in [part : {"id"}, id : [1..IdBytes -> 0..TwoTo(ByteBits) - 1]]
  BY ZenonT(60), <1>6
<1>7. CASE item \in [part : {"text"}, text : [1..TextLength -> 0..TwoTo(CharBits) - 1]]
  BY ZenonT(60), <1>7
<1>8. CASE item \in [part : {"header"}, status : HeaderStatuses, text : ContentTypes, body : {<<>>, <<1>>}]
  BY ZenonT(60), <1>8
<1>12. CASE item \in [part : {"reply"}, status : HeaderStatuses \cup {"unknown"}, rest : Replies]
  BY ZenonT(60), <1>12
<1>9. CASE item \in [part : {"card"}, card : Texts]
  BY ZenonT(60), <1>9
<1>10. CASE item \in HttpRequests \/ item \in HttpResponses
  BY ZenonT(60), <1>2, <1>3, <1>10
<1>11. CASE item \in [part : {"cards", "limits"}]
  BY ZenonT(60), <1>11
<1> QED BY ZenonT(60), <1>1, <1>4, <1>5, <1>6, <1>7, <1>8, <1>9, <1>10, <1>11, <1>12

\* The fields of a decoder's answer.
LEMMA Picked ==
  ASSUME NEW d, NEW a, NEW b, d = [header |-> a, taken |-> b]
  PROVE  d.header = a /\ d.taken = b
OBVIOUS

\* The fields of what encode writes.
LEMMA Sent ==
  ASSUME NEW d, NEW a, NEW b, d = [status |-> a, rest |-> b]
  PROVE  d.status = a /\ d.rest = b
OBVIOUS

\* A header that is read is the one its bytes are written for.
LEMMA HeaderWrites ==
  ASSUME NEW x \in Seq(Byte), NEW status \in HeaderStatuses,
         DecodeHeader(status, x).header.status \in HeaderStatuses
  PROVE  LET read == DecodeHeader(status, x)
         IN /\ EncodeHeader(read.header) = [status |-> status, rest |-> Upto(x, read.taken)]
            /\ status = "ok" => Utf8(read.header.text)
<1>1. CASE status # "ok"
  <2> DEFINE h == [status |-> status]
  <2>1. h.status = status
    OBVIOUS
  <2>2. DecodeHeader(status, x) = [header |-> h, taken |-> 0]
    BY ZenonT(60), <1>1 DEF DecodeHeader
  <2> HIDE DEF h
  <2>3. EncodeHeader(h) = [status |-> status, rest |-> <<>>]
    BY ZenonT(60), <1>1, <2>1 DEF EncodeHeader
  <2>4. Upto(x, 0) = <<>>
    BY DEF Upto
  <2> QED BY ZenonT(60), <1>1, <2>2, <2>3, <2>4, Picked
<1>2. CASE status = "ok"
  <2> DEFINE n == FromBe(From(x, 2)) text == SubSeq(x, 4, 3 + n)
  <2>1. \A s \in {"short", "too long", "bad content type"} : s \notin HeaderStatuses
    BY ZenonT(60) DEF HeaderStatuses
  <2>2. \A s : [status |-> s].status = s /\ [header |-> [status |-> s], taken |-> 0].header = [status |-> s]
    OBVIOUS
  <2>3. /\ ~(Len(x) < 3) /\ ~(n > MaxText) /\ ~(Len(x) < 3 + n) /\ Utf8(text)
        /\ DecodeHeader(status, x)
             = [header |-> [status |-> "ok", size |-> x[1], text |-> text], taken |-> 3 + n]
    BY ZenonT(60), <1>2, <2>1, <2>2 DEF DecodeHeader, Short
  <2>4. Len(x) \in Nat /\ Len(x) >= 3
    BY <2>3
  <2> DEFINE b == From(x, 2)
  <2>5. b \in Seq(Byte) /\ Len(b) >= 2 /\ b[1] = x[2] /\ b[2] = x[3]
    BY <2>4 DEF From
  <2>6. n \in Nat /\ Be(n) = <<x[2], x[3]>>
    BY ZenonT(60), <2>5, BeInverse
  <2> HIDE DEF n, text, b
  <2>7. MaxText \in Nat /\ n <= MaxText /\ 3 + n <= Len(x) /\ 3 + n \in Nat
    <3>1. n \in Nat /\ ~(n > MaxText) /\ ~(Len(x) < 3 + n) /\ MaxText \in Nat
      BY ZenonT(60), <2>3, <2>6, CodecBounds
    <3> QED BY <2>4, <3>1
  <2> DEFINE r == <<x[1]>> \o Be(n) \o text
  <2>8. text \in Seq(Byte) /\ Len(text) = n /\ \A i \in 1..n : text[i] = x[3 + i]
    <3>1. 4 \in Nat \ {0} /\ \A m \in Nat : 4 <= 3 + m + 1
      OBVIOUS
    <3>2. text \in Seq(Byte) /\ Part(text, x, 4, 3 + n)
      BY ZenonT(60), <2>6, <2>7, <3>1, Cut DEF text
    <3> QED BY <2>6, <3>2 DEF Part
  <2>9. r = Upto(x, 3 + n)
    <3>1. x[1] \in Byte /\ x[2] \in Byte /\ x[3] \in Byte
      BY <2>4
    <3> DEFINE a == <<x[1], x[2], x[3]>>
    <3>2. <<x[1]>> \o Be(n) = a
      <4>1. <<x[1]>> \o <<x[2], x[3]>> = a
        BY ZenonT(60), <3>1, OneAndTwo
      <4> QED BY ZenonT(60), <2>6, <4>1
    <3>3. a \in Seq(Byte) /\ Len(a) = 3 /\ a[1] = x[1] /\ a[2] = x[2] /\ a[3] = x[3]
      BY <3>1
    <3> HIDE DEF a
    <3>4. a \o text \in Seq(Byte) /\ Joins(a \o text, a, text)
      BY ZenonT(60), <2>8, <3>3, Concat
    <3> DEFINE y == a \o text z == Upto(x, 3 + n)
    <3>5. z \in Seq(Byte) /\ Part(z, x, 1, 3 + n)
      <4>1. 1 \in Nat \ {0} /\ 1 <= 3 + n + 1
        BY <2>7
      <4> QED BY ZenonT(60), <2>7, <4>1, Cut DEF Upto
    <3> HIDE DEF y, z
    <3>6. Len(z) = 3 + n /\ \A i \in 1..3 + n : z[i] = x[i]
      BY <2>6, <3>5 DEF Part
    <3>7. /\ Len(y) = 3 + n /\ \A i \in 1..3 : y[i] = a[i]
          /\ \A i \in 1..n : y[3 + i] = text[i]
      BY ZenonT(60), <2>8, <3>3, <3>4 DEF Joins, y
    <3>8. \A i \in 1..3 + n : y[i] = x[i]
      <4>1. \A i \in 1..3 : i = 1 \/ i = 2 \/ i = 3
        OBVIOUS
      <4>2. \A i \in 1..3 : y[i] = x[i]
        BY ZenonT(60), <3>3, <3>7, <4>1
      <4>3. \A i \in 1..n : y[3 + i] = x[3 + i]
        BY ZenonT(60), <2>8, <3>7
      <4>4. \A i \in 1..3 + n : i \in 1..3 \/ (i - 3 \in 1..n /\ 3 + (i - 3) = i)
        BY <2>6
      <4> QED BY ZenonT(60), <4>2, <4>3, <4>4
    <3>9. y = z
      BY ZenonT(60), <3>4, <3>5, <3>6, <3>7, <3>8, Same DEF y
    <3> QED BY ZenonT(60), <3>2, <3>9 DEF y, z
  <2> DEFINE h == [status |-> "ok", size |-> x[1], text |-> text]
  <2>10. h.status = "ok" /\ h.size = x[1] /\ h.text = text
    OBVIOUS
  <2>11. DecodeHeader(status, x) = [header |-> h, taken |-> 3 + n]
    BY ZenonT(60), <2>3
  <2> HIDE DEF h, r
  <2>12. EncodeHeader(h) = [status |-> "ok", rest |-> r]
    BY ZenonT(60), <2>7, <2>8, <2>10 DEF EncodeHeader, r
  <2>13. DecodeHeader(status, x).header = h /\ DecodeHeader(status, x).taken = 3 + n
    BY ZenonT(60), <2>11, Picked
  <2>14. EncodeHeader(h) = [status |-> status, rest |-> Upto(x, 3 + n)] /\ Utf8(h.text)
    BY ZenonT(60), <1>2, <2>3, <2>9, <2>10, <2>12 DEF r
  <2> QED BY ZenonT(60), <2>13, <2>14
<1> QED BY ZenonT(60), <1>1, <1>2

\* Length-prefixed fields come back whole, and cut or extended ones never.
LEMMA FieldsHold == ASSUME FormatsInit PROVE FieldsExact
<1>1. ASSUME item.part = "header"
      PROVE  LET h == IF item.status = "ok" THEN [status |-> "ok", size |-> 0, text |-> item.text]
                      ELSE [status |-> item.status]
                 wire == EncodeHeader(h)
                 read == DecodeHeader(wire.status, wire.rest \o item.body)
             IN /\ read.taken = Len(wire.rest)
                /\ read.header = IF Len(item.text) <= MaxText \/ item.status # "ok" THEN h
                                 ELSE [h EXCEPT !.text = <<>>]
                /\ \A k \in 0..Len(wire.rest) - 1 :
                     DecodeHeader(wire.status, Upto(wire.rest, k)).header = Short
  <2>1. /\ item.status \in HeaderStatuses /\ item.text \in Texts /\ Utf8(item.text)
        /\ item.body \in {<<>>, <<1>>}
    BY ZenonT(60), <1>1, Parts DEF ContentTypes
  <2>2. item.text \in Seq(Nat) /\ item.body \in Seq(Nat)
    <3>1. <<>> \in Seq(Nat) /\ <<1>> \in Seq(Nat)
      OBVIOUS
    <3> QED BY ZenonT(60), <2>1, <3>1, TextsType
  <2> DEFINE text == item.text more == item.body
  <2>3. CASE item.status # "ok"
    <3> DEFINE h == [status |-> item.status]
    <3>1. h.status # "ok" /\ h.status = item.status
      BY <2>3
    <3>2. EncodeHeader(h) = [status |-> item.status, rest |-> <<>>]
      BY ZenonT(60), <3>1 DEF EncodeHeader
    <3>3. DecodeHeader(item.status, <<>> \o more) = [header |-> h, taken |-> 0]
      BY ZenonT(60), <2>1, <2>3 DEF DecodeHeader
    <3>4. Len(<<>>) = 0 /\ \A k \in 0..Len(<<>>) - 1 : FALSE
      OBVIOUS
    <3>5. EncodeHeader(h).status = item.status /\ EncodeHeader(h).rest = <<>>
      BY ZenonT(60), <3>2, Sent
    <3> HIDE DEF h
    <3>6. /\ DecodeHeader(item.status, <<>> \o more).header = h
          /\ DecodeHeader(item.status, <<>> \o more).taken = 0
      BY ZenonT(60), <3>3, Picked
    <3> QED BY ZenonT(60), <2>3, <3>4, <3>5, <3>6 DEF h
  <2>4. CASE item.status = "ok"
    <3> DEFINE h == [status |-> "ok", size |-> 0, text |-> text]
    <3> DEFINE t == IF Len(text) <= MaxText THEN text ELSE <<>>
    <3> DEFINE r == <<0>> \o Be(Len(t)) \o t
    <3>1. EncodeHeader(h) = [status |-> "ok", rest |-> r]
      BY DEF EncodeHeader
    <3>2. t \in Seq(Nat) /\ Len(t) <= MaxText /\ 0 \in Nat
      BY SMTT(40), <2>2, CodecBounds
    <3>11. Utf8(t)
      <4>1. Utf8(<<>>)
        BY DEF Utf8
      <4> QED BY ZenonT(60), <2>1, <4>1
    <3> HIDE DEF t
    <3>3. Header(r, 0, t)
      BY ZenonT(60), <3>2, FieldBytes
    <3> HIDE DEF r
    <3>4. DecodeHeader("ok", r \o more)
            = [header |-> [status |-> "ok", size |-> 0, text |-> t], taken |-> 3 + Len(t)]
      BY ZenonT(60), <2>2, <3>2, <3>3, <3>11, HeaderReads
    <3>5. \A k \in 0..Len(r) - 1 : DecodeHeader("ok", Upto(r, k)).header = Short
      BY ZenonT(60), <3>2, <3>3, HeaderShort
    <3>6. Len(r) = 3 + Len(t)
      BY ZenonT(60), <3>3 DEF Header
    <3> DEFINE g == [status |-> "ok", size |-> 0, text |-> t]
    <3>7. g = IF Len(text) <= MaxText THEN h ELSE [h EXCEPT !.text = <<>>]
      BY DEF t
    <3> HIDE DEF g
    <3>8. DecodeHeader("ok", r \o more) = [header |-> g, taken |-> 3 + Len(t)]
      BY ZenonT(60), <3>4 DEF g
    <3>9. DecodeHeader("ok", r \o more).header = g /\ DecodeHeader("ok", r \o more).taken = Len(r)
      BY ZenonT(60), <3>6, <3>8, Picked
    <3>10. EncodeHeader(h).status = "ok" /\ EncodeHeader(h).rest = r
      <4> HIDE DEF h
      <4> QED BY ZenonT(60), <3>1, Sent
    <3> QED BY ZenonT(60), <2>4, <3>5, <3>7, <3>9, <3>10
  <2> QED BY ZenonT(60), <2>1, <2>3, <2>4
<1>2. ASSUME item.part = "card", Len(item.card) <= MaxText
      PROVE  LET frame == RouteFrame(item.card)
             IN /\ RouteCard(frame) = {item.card}
                /\ RouteCard(Append(frame, 0)) = {}
                /\ \A k \in 0..Len(frame) - 1 : RouteCard(Upto(frame, k)) = {}
  <2>1. item.card \in Seq(Nat)
    BY ZenonT(60), <1>2, Parts, TextsType
  <2> QED BY ZenonT(60), <1>2, <2>1, CardExact
<1>3. ASSUME item.part = "reply"
      PROVE  LET read == DecodeHeader(item.status, item.rest)
             IN read.header.status \in HeaderStatuses =>
                  /\ EncodeHeader(read.header)
                       = [status |-> item.status, rest |-> Upto(item.rest, read.taken)]
                  /\ item.status = "ok" => Utf8(read.header.text)
  <2>1. item.status \in HeaderStatuses \cup {"unknown"} /\ item.rest \in Seq(Byte)
    BY ZenonT(60), <1>3, Parts, RepliesType
  <2>2. CASE item.status \in HeaderStatuses
    BY ZenonT(60), <2>1, <2>2, HeaderWrites
  <2>3. CASE item.status \notin HeaderStatuses
    <3> DEFINE h == [status |-> "bad status"]
    <3>1. DecodeHeader(item.status, item.rest) = [header |-> h, taken |-> 0]
      BY ZenonT(60), <2>3 DEF DecodeHeader
    <3>4. h.status = "bad status"
      OBVIOUS
    <3> HIDE DEF h
    <3>2. DecodeHeader(item.status, item.rest).header.status = "bad status"
      BY ZenonT(60), <3>1, <3>4, Picked
    <3>3. "bad status" \notin HeaderStatuses
      BY ZenonT(60) DEF HeaderStatuses
    <3> QED BY ZenonT(60), <3>2, <3>3
  <2> QED BY ZenonT(60), <2>2, <2>3
<1> QED BY ZenonT(60), <1>1, <1>2, <1>3 DEF FieldsExact

(***************************************************************************)
(* Relay frames.                                                           *)
(***************************************************************************)
\* What was put together comes apart where it was joined.
LEMMA SplitJoin ==
  ASSUME NEW S, NEW s \in Seq(S), NEW t \in Seq(S)
  PROVE  Upto(s \o t, Len(s)) = s /\ From(s \o t, Len(s) + 1) = t
<1> DEFINE x == s \o t a == Upto(x, Len(s)) b == From(x, Len(s) + 1)
<1>1. x \in Seq(S) /\ Joins(x, s, t)
  BY ZenonT(60), Concat
<1> HIDE DEF x
<1>2. /\ Len(s) \in Nat /\ Len(t) \in Nat /\ Len(x) \in Nat /\ Len(x) = Len(s) + Len(t)
      /\ Len(s) <= Len(x) /\ 1 \in Nat \ {0} /\ 1 <= Len(s) + 1 /\ Len(x) <= Len(x)
      /\ Len(s) + 1 \in Nat \ {0} /\ Len(s) + 1 <= Len(x) + 1
  BY <1>1 DEF Joins
<1>3. a \in Seq(S) /\ Part(a, x, 1, Len(s)) /\ b \in Seq(S) /\ Part(b, x, Len(s) + 1, Len(x))
  BY ZenonT(60), <1>1, <1>2, Cut DEF Upto, From
<1> HIDE DEF a, b
<1>4. Len(a) = Len(s) /\ \A i \in 1..Len(s) : a[i] = x[i]
  BY <1>2, <1>3 DEF Part
<1>5. Len(b) = Len(t) /\ \A i \in 1..Len(t) : b[i] = x[Len(s) + i]
  BY <1>2, <1>3 DEF Part
<1>6. a = s
  BY ZenonT(60), <1>1, <1>3, <1>4, Same DEF Joins
<1>7. b = t
  BY ZenonT(60), <1>1, <1>3, <1>5, Same DEF Joins
<1> QED BY ZenonT(60), <1>6, <1>7 DEF a, b, x

\* What was taken apart and put together again is what it was.
LEMMA JoinSplit ==
  ASSUME NEW S, NEW x \in Seq(S), NEW w \in Nat, w <= Len(x)
  PROVE  Upto(x, w) \o From(x, w + 1) = x
<1> DEFINE a == Upto(x, w) b == From(x, w + 1) y == a \o b
<1>1. /\ Len(x) \in Nat /\ w <= Len(x) /\ 1 \in Nat \ {0} /\ 1 <= w + 1 /\ Len(x) <= Len(x)
      /\ w + 1 \in Nat \ {0} /\ w + 1 <= Len(x) + 1
  OBVIOUS
<1>2. a \in Seq(S) /\ Part(a, x, 1, w) /\ b \in Seq(S) /\ Part(b, x, w + 1, Len(x))
  BY ZenonT(60), <1>1, Cut DEF Upto, From
<1> HIDE DEF a, b
<1>3. y \in Seq(S) /\ Joins(y, a, b)
  BY ZenonT(60), <1>2, Concat
<1> HIDE DEF y
<1>4. Len(a) = w /\ Len(b) = Len(x) - w /\ Len(y) = Len(x)
  BY <1>1, <1>2, <1>3 DEF Part, Joins
<1>5. ASSUME NEW i \in 1..Len(x) PROVE y[i] = x[i]
  <2>1. CASE i <= w
    BY <1>1, <1>2, <1>3, <1>4, <2>1 DEF Part, Joins
  <2>2. CASE i > w
    <3>1. i - w \in 1..Len(b) /\ Len(a) + (i - w) = i /\ (w + 1) + (i - w) - 1 = i
          /\ i - w \in 1..Len(x) - (w + 1) + 1
      BY <1>1, <1>4, <2>2
    <3>2. y[Len(a) + (i - w)] = b[i - w]
      BY ZenonT(60), <1>3, <3>1 DEF Joins
    <3>3. b[i - w] = x[(w + 1) + (i - w) - 1]
      BY ZenonT(60), <1>2, <3>1 DEF Part
    <3> QED BY ZenonT(60), <3>1, <3>2, <3>3
  <2> QED BY <1>1, <2>1, <2>2
<1>6. y = x
  BY ZenonT(60), <1>3, <1>4, <1>5, Same
<1> QED BY ZenonT(60), <1>6 DEF y, a, b

Fixed == {"challenge", "welcome", "ping", "pong", "close"}

\* The fixed frames, and their widths.
LEMMA Widths ==
  /\ DOMAIN FixedWidth = Fixed
  /\ IdBytes \in Nat \ {0} /\ TagBytes \in Nat \ {0} /\ MaxDatagram \in Nat
  /\ \A kind \in Fixed : FixedWidth[kind] \in Nat
BY CodecBounds DEF FixedWidth, Fixed

\* What Frame::encode writes, frame by frame.
LEMMA Encodes ==
  ASSUME NEW f
  PROVE  /\ f.kind \in Fixed => Encode(f) = [tag |-> f.kind, body |-> f.bytes]
         /\ f.kind \in {"auth"} \cup ByNode \cup ByTag => Encode(f) = [tag |-> f.kind, body |-> f.id \o f.bytes]
         /\ f.kind = "register" => Encode(f) = [tag |-> f.kind, body |-> Be(Len(f.tags)) \o Joined(f.tags)]
BY ZenonT(60), Widths DEF Encode, ByNode, ByTag, Fixed

\* What Frame::decode reads, tag by tag.
LEMMA Decodes ==
  ASSUME NEW tag, NEW body
  PROVE  LET wire == [tag |-> tag, body |-> body] IN
         /\ tag \in Fixed => Decode(wire) = IF Len(body) # FixedWidth[tag] THEN {}
                                            ELSE {[kind |-> tag, bytes |-> body]}
         /\ tag = "auth" => Decode(wire) = IF Len(body) # 3 * IdBytes THEN {}
                                           ELSE {[kind |-> "auth", id |-> Upto(body, IdBytes),
                                                  bytes |-> From(body, IdBytes + 1)]}
         /\ tag \in ByNode => Decode(wire) = SplitRouted(tag, body, IdBytes)
         /\ tag \in ByTag => Decode(wire) = SplitRouted(tag, body, TagBytes)
         /\ tag = "register" => Decode(wire) = DecodeRegister(body)
         /\ tag = "unknown" => Decode(wire) = {}
<1> DEFINE wire == [tag |-> tag, body |-> body]
<1>1. wire.tag = tag /\ wire.body = body
  OBVIOUS
<1> HIDE DEF wire
<1>2. CASE tag \in Fixed
  BY SMTT(40), <1>1, <1>2, Widths DEF Decode, ByNode, ByTag, Fixed
<1>3. CASE tag = "auth"
  BY <1>1, <1>3, Widths DEF Decode, ByNode, ByTag, Fixed
<1>4. CASE tag \in ByNode
  BY SMTT(40), <1>1, <1>4, Widths DEF Decode, ByNode, ByTag, Fixed
<1>5. CASE tag \in ByTag
  BY SMTT(40), <1>1, <1>5, Widths DEF Decode, ByNode, ByTag, Fixed
<1>6. CASE tag = "register"
  BY <1>1, <1>6, Widths DEF Decode, ByNode, ByTag, Fixed
<1>7. CASE tag = "unknown"
  BY <1>1, <1>7, Widths DEF Decode, ByNode, ByTag, Fixed
<1> QED BY ZenonT(60), <1>2, <1>3, <1>4, <1>5, <1>6, <1>7 DEF wire

\* The i-th of n fields of `width` bytes, and where a byte of it lies.
LEMMA Slot ==
  ASSUME NEW n \in Nat, NEW i \in 1..n, NEW width \in Nat \ {0}
  PROVE  /\ (i - 1) * width \in Nat /\ i * width = (i - 1) * width + width
         /\ n * width \in Nat /\ i * width <= n * width
<1>1. i - 1 \in Nat /\ i \in Nat /\ i <= n
  OBVIOUS
<1>2. (i - 1) * width \in Nat /\ i * width = (i - 1) * width + width
  BY <1>1
<1>3. n * width \in Nat /\ i * width <= n * width
  BY <1>1
<1> QED BY ZenonT(60), <1>2, <1>3

\* Every byte of n joined tags is a byte of one of them.
LEMMA InSlot ==
  ASSUME NEW n \in Nat, NEW width \in Nat \ {0}, NEW p \in 1..n * width
  PROVE  /\ ((p - 1) \div width) + 1 \in 1..n /\ ((p - 1) % width) + 1 \in 1..width
         /\ Splits(p - 1, width, (p - 1) \div width, (p - 1) % width)
<1> DEFINE a == p - 1 q == a \div width r == a % width
<1>1. a \in Nat /\ a < n * width
  BY DEF a
<1> HIDE DEF a
<1>2. Splits(a, width, q, r)
  BY ZenonT(60), <1>1, DivMod
<1> HIDE DEF q, r
<1>3. q \in Nat /\ r \in Nat /\ r < width /\ width * q + r = a
  BY ZenonT(60), <1>2 DEF Splits
<1>4. q < n
  BY <1>1, <1>3
<1>5. q + 1 \in 1..n /\ r + 1 \in 1..width
  BY <1>3, <1>4
<1> QED BY ZenonT(60), <1>2, <1>5 DEF q, r, a

\* encode then decode of a register frame.
Table(tags, n) == tags \in [1..n -> [1..TagBytes -> Byte]]

Flat(j, tags, n) ==
  /\ j \in Seq(Byte) /\ Len(j) = n * TagBytes
  /\ \A i \in 1..n, u \in 1..TagBytes : j[(i - 1) * TagBytes + u] = tags[i][u]

\* Joined tags stand one after the other.
LEMMA TagsJoined ==
  ASSUME NEW n \in Nat, NEW tags, Table(tags, n)
  PROVE  Flat(Joined(tags), tags, n)
<1> DEFINE width == TagBytes j == Joined(tags)
<1>1. width \in Nat \ {0} /\ n * width \in Nat
  BY Widths
<1>2. Len(tags) = n
  BY Strings DEF Table
<1>3. j = [p \in 1..n * width |-> tags[((p - 1) \div width) + 1][((p - 1) % width) + 1]]
  BY ZenonT(60), <1>2 DEF Joined
<1>4. ASSUME NEW p \in 1..n * width PROVE j[p] \in Byte
  <2>1. ((p - 1) \div width) + 1 \in 1..n /\ ((p - 1) % width) + 1 \in 1..width
    BY ZenonT(60), <1>1, InSlot
  <2>2. \A d \in 1..n, e \in 1..width : tags[d][e] \in Byte
    BY ZenonT(60) DEF Table
  <2>3. tags[((p - 1) \div width) + 1][((p - 1) % width) + 1] \in Byte
    BY ZenonT(60), <2>1, <2>2
  <2> HIDE DEF j, width
  <2> QED BY ZenonT(60), <1>3, <2>3
<1>5. j \in [1..n * width -> Byte]
  BY ZenonT(60), <1>3, <1>4
<1>6. j \in Seq(Byte) /\ Len(j) = n * width
  BY ZenonT(60), <1>1, <1>5, Strings
<1>7. ASSUME NEW i \in 1..n, NEW u \in 1..width PROVE j[(i - 1) * width + u] = tags[i][u]
  <2> DEFINE a == (i - 1) * width p == a + u
  <2>1. a \in Nat /\ i * width = a + width /\ i * width <= n * width
    BY ZenonT(60), <1>1, Slot
  <2>2. i - 1 \in Nat /\ width * (i - 1) = a
    BY <1>1
  <2> HIDE DEF a
  <2>3. p \in 1..n * width /\ p - 1 = a + (u - 1) /\ u - 1 \in Nat /\ u - 1 < width
    BY <1>1, <2>1
  <2> HIDE DEF p
  <2>4. Splits(p - 1, width, i - 1, u - 1)
    BY ZenonT(60), <2>2, <2>3 DEF Splits
  <2>5. (p - 1) \div width = i - 1 /\ (p - 1) % width = u - 1
    BY ZenonT(60), <1>1, <2>4, Unique
  <2>6. (i - 1) + 1 = i /\ (u - 1) + 1 = u
    BY <1>1
  <2>7. j[p] = tags[i][u]
    BY ZenonT(60), <1>3, <2>3, <2>5, <2>6
  <2> QED BY ZenonT(60), <2>7 DEF p, a
<1> QED BY ZenonT(60), <1>6, <1>7 DEF Flat

\* The bytes of the i-th tag in the body of a register frame.
LEMMA TagAt ==
  ASSUME NEW n \in Nat, NEW i \in 1..n, NEW body \in Seq(Byte), Len(body) = 2 + n * TagBytes
  PROVE  LET tag == SubSeq(body, 3 + (i - 1) * TagBytes, 2 + i * TagBytes) IN
         /\ tag \in Seq(Byte) /\ Len(tag) = TagBytes
         /\ \A u \in 1..TagBytes : tag[u] = body[2 + ((i - 1) * TagBytes + u)]
<1> DEFINE width == TagBytes a == (i - 1) * width tag == SubSeq(body, 3 + a, 2 + i * width)
<1>1. width \in Nat \ {0} /\ n * width \in Nat
  BY Widths
<1>2. a \in Nat /\ i * width = a + width /\ i * width <= n * width
  BY ZenonT(60), <1>1, Slot
<1> HIDE DEF a, width
<1>3. /\ 3 + a \in Nat \ {0} /\ 2 + i * width \in Nat /\ 3 + a <= 2 + i * width + 1
      /\ Len(body) = 2 + n * width
  BY <1>1, <1>2 DEF width
<1>4. 2 + i * width <= Len(body)
  BY <1>1, <1>2, <1>3
<1>5. tag \in Seq(Byte) /\ Part(tag, body, 3 + a, 2 + i * width)
  BY ZenonT(60), <1>3, <1>4, Cut
<1> HIDE DEF tag
<1>6. (2 + i * width) - (3 + a) + 1 = width /\ \A u \in 1..width : (3 + a) + u - 1 = 2 + (a + u)
  BY <1>1, <1>2
<1>7. Len(tag) = width /\ \A u \in 1..width : tag[u] = body[2 + (a + u)]
  BY ZenonT(60), <1>5, <1>6 DEF Part
<1> QED BY ZenonT(60), <1>5, <1>7 DEF tag, a, width

\* A register frame that is written reads back as its tags.
LEMMA RegisterReads ==
  ASSUME NEW n \in Nat, n <= MaxTags, NEW tags, Table(tags, n)
  PROVE  DecodeRegister(Be(n) \o Joined(tags)) = {[kind |-> "register", tags |-> tags]}
<1> DEFINE width == TagBytes b == Be(n) j == Joined(tags) body == b \o j
<1>1. width \in Nat \ {0} /\ n * width \in Nat /\ n < Base * Base /\ MaxTags \in Nat
  BY Widths, CodecBounds
<1>2. b \in Seq(Byte) /\ Len(b) = 2 /\ FromBe(b) = n
  BY ZenonT(60), <1>1, BeRoundTrip
<1>3. /\ j \in Seq(Byte) /\ Len(j) = n * width
      /\ \A i \in 1..n, u \in 1..width : j[(i - 1) * width + u] = tags[i][u]
  <2>1. Flat(j, tags, n)
    BY ZenonT(60), TagsJoined
  <2> HIDE DEF j
  <2> QED BY ZenonT(60), <2>1 DEF Flat
<1> HIDE DEF b, j
<1>4. body \in Seq(Byte) /\ Joins(body, b, j)
  BY ZenonT(60), <1>2, <1>3, Concat
<1> HIDE DEF body, width
<1>5. Len(body) = 2 + n * width /\ \A q \in 1..n * width : body[2 + q] = j[q]
  BY ZenonT(60), <1>2, <1>3, <1>4 DEF Joins
<1>6. body[1] = b[1] /\ body[2] = b[2]
  BY <1>2, <1>4 DEF Joins
<1>7. FromBe(body) = n
  BY ZenonT(60), <1>2, <1>6 DEF FromBe
<1>8. ~(Len(body) < 2) /\ ~(n > MaxTags) /\ ~(Len(body) - 2 # n * width)
  BY <1>1, <1>5
<1>9. ASSUME NEW i \in 1..n
      PROVE  SubSeq(body, 3 + (i - 1) * width, 2 + i * width) = tags[i]
  <2> DEFINE tag == SubSeq(body, 3 + (i - 1) * width, 2 + i * width)
  <2>1. /\ tag \in Seq(Byte) /\ Len(tag) = width
        /\ \A u \in 1..width : tag[u] = body[2 + ((i - 1) * width + u)]
    BY ZenonT(60), <1>4, <1>5, TagAt DEF width
  <2>2. tags[i] \in [1..width -> Byte]
    BY ZenonT(60) DEF Table, width
  <2>3. tags[i] \in Seq(Byte) /\ Len(tags[i]) = width
    BY ZenonT(60), <1>1, <2>2, Strings
  <2> HIDE DEF tag
  <2>4. ASSUME NEW u \in 1..width PROVE tag[u] = tags[i][u]
    <3> DEFINE q == (i - 1) * width + u
    <3>1. (i - 1) * width \in Nat /\ i * width = (i - 1) * width + width /\ i * width <= n * width
      BY ZenonT(60), <1>1, Slot
    <3>2. q \in 1..n * width
      BY <1>1, <3>1
    <3> HIDE DEF q
    <3> QED BY ZenonT(60), <1>3, <1>5, <2>1, <3>2 DEF q
  <2>5. tag = tags[i]
    BY ZenonT(60), <2>1, <2>3, <2>4, Same
  <2> QED BY ZenonT(60), <2>5 DEF tag
<1>10. [i \in 1..n |-> SubSeq(body, 3 + (i - 1) * width, 2 + i * width)] = tags
  <2>1. DOMAIN tags = 1..n /\ tags = [i \in 1..n |-> tags[i]]
    BY ZenonT(60) DEF Table
  <2> QED BY ZenonT(60), <1>9, <2>1
<1>11. DecodeRegister(body) = {[kind |-> "register", tags |-> tags]}
  BY ZenonT(60), <1>7, <1>8, <1>10 DEF DecodeRegister, width
<1> QED BY ZenonT(60), <1>11 DEF body, b, j

\* A register body that is read is the one that its tags are written as.
LEMMA RegisterWrites ==
  ASSUME NEW body \in Seq(Byte), NEW f \in DecodeRegister(body)
  PROVE  f.kind = "register" /\ Be(Len(f.tags)) \o Joined(f.tags) = body
<1> DEFINE width == TagBytes n == FromBe(body)
<1> DEFINE tags == [i \in 1..n |-> SubSeq(body, 3 + (i - 1) * width, 2 + i * width)]
<1>1. /\ ~(Len(body) < 2) /\ Len(body) - 2 = n * width
      /\ f = [kind |-> "register", tags |-> tags]
  BY ZenonT(60) DEF DecodeRegister
<1>2. f.kind = "register" /\ f.tags = tags
  <2> HIDE DEF tags
  <2> QED BY <1>1
<1>3. Len(body) >= 2 /\ Len(body) \in Nat
  BY <1>1
<1>4. n \in Nat /\ Be(n) = <<body[1], body[2]>>
  BY ZenonT(60), <1>3, BeInverse
<1> HIDE DEF n, width
<1>5. width \in Nat \ {0} /\ n * width \in Nat /\ Len(body) = 2 + n * width
  BY <1>1, <1>3, <1>4, Widths DEF width
<1>6. ASSUME NEW i \in 1..n
      PROVE  /\ tags[i] \in [1..width -> Byte]
             /\ \A u \in 1..width : tags[i][u] = body[2 + ((i - 1) * width + u)]
  <2> DEFINE tag == SubSeq(body, 3 + (i - 1) * width, 2 + i * width)
  <2>1. /\ tag \in Seq(Byte) /\ Len(tag) = width
        /\ \A u \in 1..width : tag[u] = body[2 + ((i - 1) * width + u)]
    BY ZenonT(60), <1>4, <1>5, TagAt DEF width
  <2>2. tags[i] = tag
    BY ZenonT(60)
  <2> HIDE DEF tag, tags
  <2>3. tag \in [1..width -> Byte]
    BY <2>1
  <2> QED BY ZenonT(60), <2>1, <2>2, <2>3
<1>7. Table(tags, n)
  BY ZenonT(60), <1>6 DEF Table, width
<1>8. Len(tags) = n
  BY ZenonT(60), <1>4, <1>7, Strings DEF Table
<1> DEFINE j == Joined(tags) x == Be(n) \o j
<1> HIDE DEF tags
<1>9. /\ j \in Seq(Byte) /\ Len(j) = n * width
      /\ \A i \in 1..n, u \in 1..width : j[(i - 1) * width + u] = tags[i][u]
  <2>1. Flat(j, tags, n)
    BY ZenonT(60), <1>4, <1>7, TagsJoined
  <2> HIDE DEF j
  <2> QED BY ZenonT(60), <2>1 DEF Flat, width
<1> HIDE DEF j
<1>10. ASSUME NEW p \in 1..n * width PROVE j[p] = body[2 + p]
  <2> DEFINE a == p - 1 d == a \div width e == a % width
  <2>1. d + 1 \in 1..n /\ e + 1 \in 1..width /\ Splits(a, width, d, e)
    BY ZenonT(60), <1>4, <1>5, InSlot
  <2> HIDE DEF d, e
  <2> DEFINE i == d + 1 u == e + 1
  <2>2. (i - 1) * width + u = p /\ i \in 1..n /\ u \in 1..width
    BY <1>5, <2>1 DEF Splits, a
  <2> HIDE DEF i, u
  <2>3. j[(i - 1) * width + u] = tags[i][u]
    BY ZenonT(60), <1>9, <2>2
  <2>4. tags[i][u] = body[2 + ((i - 1) * width + u)]
    BY ZenonT(60), <1>6, <2>2
  <2> QED BY ZenonT(60), <2>2, <2>3, <2>4
<1>11. x = body
  <2>1. Be(n) \in Seq(Byte) /\ Len(Be(n)) = 2 /\ Be(n)[1] = body[1] /\ Be(n)[2] = body[2]
    BY <1>3, <1>4
  <2>2. x \in Seq(Byte) /\ Joins(x, Be(n), j)
    BY ZenonT(60), <1>9, <2>1, Concat
  <2> HIDE DEF x
  <2>3. Len(x) = 2 + n * width /\ \A p \in 1..n * width : x[2 + p] = j[p]
    BY ZenonT(60), <1>9, <2>1, <2>2 DEF Joins
  <2>4. x[1] = body[1] /\ x[2] = body[2]
    BY <2>1, <2>2 DEF Joins
  <2>5. ASSUME NEW i \in 1..Len(body) PROVE x[i] = body[i]
    <3>1. CASE i \in {1, 2}
      BY ZenonT(60), <3>1, <2>4
    <3>2. CASE i - 2 \in 1..n * width /\ 2 + (i - 2) = i
      BY ZenonT(60), <3>2, <2>3, <1>10
    <3>3. i \in {1, 2} \/ (i - 2 \in 1..n * width /\ 2 + (i - 2) = i)
      BY <1>5
    <3> QED BY ZenonT(60), <3>1, <3>2, <3>3
  <2> QED BY ZenonT(60), <1>5, <2>2, <2>3, <2>5, Same
<1> QED BY ZenonT(60), <1>2, <1>8, <1>11 DEF x, j

\* The five shapes a frame has.
LEMMA FrameShapes ==
  ASSUME NEW f \in Frames
  PROVE  \/ /\ f = [kind |-> f.kind, bytes |-> f.bytes] /\ f.kind \in Fixed
            /\ f.bytes \in [1..FixedWidth[f.kind] -> Byte]
         \/ /\ f = [kind |-> f.kind, id |-> f.id, bytes |-> f.bytes] /\ f.kind = "auth"
            /\ f.id \in [1..IdBytes -> Byte] /\ f.bytes \in [1..2 * IdBytes -> Byte]
         \/ /\ f = [kind |-> f.kind, id |-> f.id, bytes |-> f.bytes] /\ f.kind \in ByNode
            /\ f.id \in [1..IdBytes -> Byte]
            /\ \E n \in 1..MaxDatagram : f.bytes \in [1..n -> Byte]
         \/ /\ f = [kind |-> f.kind, id |-> f.id, bytes |-> f.bytes] /\ f.kind \in ByTag
            /\ f.id \in [1..TagBytes -> Byte]
            /\ \E n \in 1..MaxDatagram : f.bytes \in [1..n -> Byte]
         \/ /\ f = [kind |-> "register", tags |-> f.tags] /\ f.kind = "register"
            /\ \E n \in 0..MaxTags : Table(f.tags, n)
<1>1. ASSUME NEW kind \in Fixed, f \in [kind : {kind}, bytes : [1..FixedWidth[kind] -> Byte]]
      PROVE  /\ f = [kind |-> f.kind, bytes |-> f.bytes] /\ f.kind \in Fixed
             /\ f.bytes \in [1..FixedWidth[f.kind] -> Byte]
  <2> DEFINE B == [1..FixedWidth[kind] -> Byte]
  <2>1. f \in [kind : {kind}, bytes : B]
    BY <1>1
  <2>2. f = [kind |-> f.kind, bytes |-> f.bytes] /\ f.kind = kind /\ f.bytes \in B
    <3> HIDE DEF B
    <3> QED BY <2>1
  <2> QED BY ZenonT(60), <2>2
<1>2. ASSUME NEW K, NEW I, NEW B, f \in [kind : K, id : I, bytes : B]
      PROVE  f = [kind |-> f.kind, id |-> f.id, bytes |-> f.bytes] /\ f.kind \in K /\ f.id \in I /\ f.bytes \in B
  BY <1>2
<1>3. ASSUME NEW n \in 0..MaxTags, f \in [kind : {"register"}, tags : [1..n -> [1..TagBytes -> Byte]]]
      PROVE  f = [kind |-> "register", tags |-> f.tags] /\ f.kind = "register" /\ Table(f.tags, n)
  <2> DEFINE B == [1..n -> [1..TagBytes -> Byte]]
  <2>1. f \in [kind : {"register"}, tags : B]
    BY <1>3
  <2>2. f = [kind |-> "register", tags |-> f.tags] /\ f.kind = "register" /\ f.tags \in B
    <3> HIDE DEF B
    <3> QED BY <2>1
  <2> QED BY ZenonT(60), <2>2 DEF Table
<1>4. \/ \E kind \in Fixed : f \in [kind : {kind}, bytes : [1..FixedWidth[kind] -> Byte]]
      \/ f \in [kind : {"auth"}, id : NodeIds, bytes : [1..2 * IdBytes -> Byte]]
      \/ \E n \in 1..MaxDatagram : f \in [kind : ByNode, id : NodeIds, bytes : [1..n -> Byte]]
      \/ \E n \in 1..MaxDatagram : f \in [kind : ByTag, id : [1..TagBytes -> Byte], bytes : [1..n -> Byte]]
      \/ \E n \in 0..MaxTags : f \in [kind : {"register"}, tags : [1..n -> [1..TagBytes -> Byte]]]
  <2> DEFINE A == UNION {[kind : {kind}, bytes : [1..FixedWidth[kind] -> Byte]] : kind \in DOMAIN FixedWidth}
             B == [kind : {"auth"}, id : NodeIds, bytes : [1..2 * IdBytes -> Byte]]
             C == UNION {[kind : ByNode, id : NodeIds, bytes : [1..n -> Byte]] : n \in 1..MaxDatagram}
             D == UNION {[kind : ByTag, id : [1..TagBytes -> Byte], bytes : [1..n -> Byte]] : n \in 1..MaxDatagram}
             E == UNION {[kind : {"register"}, tags : [1..n -> [1..TagBytes -> Byte]]] : n \in 0..MaxTags}
  <2>0. Frames = A \cup B \cup C \cup D \cup E
    BY ZenonT(60) DEF Frames
  <2>1. f \in A \cup B \cup C \cup D \cup E
    <3> HIDE DEF A, B, C, D, E
    <3> QED BY ZenonT(60), <2>0
  <2>2. f \in A \/ f \in B \/ f \in C \/ f \in D \/ f \in E
    <3> HIDE DEF A, B, C, D, E
    <3> QED BY ZenonT(60), <2>1
  <2>3. f \in A => \E kind \in Fixed : f \in [kind : {kind}, bytes : [1..FixedWidth[kind] -> Byte]]
    BY ZenonT(60), Widths
  <2>4. f \in C => \E n \in 1..MaxDatagram : f \in [kind : ByNode, id : NodeIds, bytes : [1..n -> Byte]]
    BY ZenonT(60)
  <2>5. f \in D => \E n \in 1..MaxDatagram : f \in [kind : ByTag, id : [1..TagBytes -> Byte], bytes : [1..n -> Byte]]
    BY ZenonT(60)
  <2>6. f \in E => \E n \in 0..MaxTags : f \in [kind : {"register"}, tags : [1..n -> [1..TagBytes -> Byte]]]
    BY ZenonT(60)
  <2>7. f \in B => f \in [kind : {"auth"}, id : NodeIds, bytes : [1..2 * IdBytes -> Byte]]
    BY ZenonT(60)
  <2> HIDE DEF A, B, C, D, E
  <2> QED BY ZenonT(60), <2>2, <2>3, <2>4, <2>5, <2>6, <2>7
<1>5. CASE \E kind \in Fixed : f \in [kind : {kind}, bytes : [1..FixedWidth[kind] -> Byte]]
  BY ZenonT(60), <1>1, <1>5
<1>6. CASE f \in [kind : {"auth"}, id : NodeIds, bytes : [1..2 * IdBytes -> Byte]]
  BY ZenonT(60), <1>2, <1>6 DEF NodeIds
<1>7. CASE \E n \in 1..MaxDatagram : f \in [kind : ByNode, id : NodeIds, bytes : [1..n -> Byte]]
  BY ZenonT(60), <1>2, <1>7 DEF NodeIds
<1>8. CASE \E n \in 1..MaxDatagram : f \in [kind : ByTag, id : [1..TagBytes -> Byte], bytes : [1..n -> Byte]]
  BY ZenonT(60), <1>2, <1>8
<1>9. CASE \E n \in 0..MaxTags : f \in [kind : {"register"}, tags : [1..n -> [1..TagBytes -> Byte]]]
  BY ZenonT(60), <1>3, <1>9
<1> QED BY ZenonT(60), <1>4, <1>5, <1>6, <1>7, <1>8, <1>9

Routes(kind, id, bytes, width) ==
  SplitRouted(kind, id \o bytes, width) = {[kind |-> kind, id |-> id, bytes |-> bytes]}

\* split_routed finds the address and the datagram that were joined.
LEMMA RoutedReads ==
  ASSUME NEW kind, NEW width \in Nat, NEW id \in [1..width -> Byte],
         NEW n \in 1..MaxDatagram, NEW bytes \in [1..n -> Byte]
  PROVE  Routes(kind, id, bytes, width)
<1> DEFINE x == id \o bytes
<1>1. n \in Nat /\ n > 0 /\ n <= MaxDatagram
  BY Widths
<1>2. id \in Seq(Byte) /\ Len(id) = width /\ bytes \in Seq(Byte) /\ Len(bytes) = n
  BY ZenonT(60), <1>1, Strings
<1>3. Upto(x, width) = id /\ From(x, width + 1) = bytes
  BY ZenonT(60), <1>2, SplitJoin
<1>4. Joins(x, id, bytes)
  BY ZenonT(60), <1>2, Concat
<1> HIDE DEF x
<1>5. Len(x) > width /\ Len(x) - width <= MaxDatagram
  BY <1>1, <1>2, <1>4, Widths DEF Joins
<1>6. SplitRouted(kind, x, width) = {[kind |-> kind, id |-> id, bytes |-> bytes]}
  BY ZenonT(60), <1>3, <1>5 DEF SplitRouted
<1> QED BY ZenonT(60), <1>6 DEF x, Routes

\* What split_routed takes apart joins to the body it read.
LEMMA RoutedWrites ==
  ASSUME NEW kind, NEW width \in Nat, NEW body \in Seq(Byte), NEW f \in SplitRouted(kind, body, width)
  PROVE  f.kind = kind /\ f.id \o f.bytes = body
<1>1. /\ Len(body) > width
      /\ f = [kind |-> kind, id |-> Upto(body, width), bytes |-> From(body, width + 1)]
  BY ZenonT(60) DEF SplitRouted
<1>2. f.kind = kind /\ f.id = Upto(body, width) /\ f.bytes = From(body, width + 1)
  BY <1>1
<1>3. width <= Len(body)
  BY <1>1
<1> QED BY ZenonT(60), <1>2, <1>3, JoinSplit

\* Frame::decode undoes Frame::encode.
LEMMA FrameReads == ASSUME NEW f \in Frames PROVE Decode(Encode(f)) = {f}
<1>1. CASE /\ f = [kind |-> f.kind, bytes |-> f.bytes] /\ f.kind \in Fixed
           /\ f.bytes \in [1..FixedWidth[f.kind] -> Byte]
  <2>1. Encode(f) = [tag |-> f.kind, body |-> f.bytes]
    BY ZenonT(60), <1>1, Encodes
  <2>2. Len(f.bytes) = FixedWidth[f.kind]
    BY ZenonT(60), <1>1, Widths, Strings
  <2>3. Decode([tag |-> f.kind, body |-> f.bytes]) = {[kind |-> f.kind, bytes |-> f.bytes]}
    BY ZenonT(60), <1>1, <2>2, Decodes
  <2> QED BY ZenonT(60), <1>1, <2>1, <2>3
<1>2. CASE /\ f = [kind |-> f.kind, id |-> f.id, bytes |-> f.bytes] /\ f.kind = "auth"
           /\ f.id \in [1..IdBytes -> Byte] /\ f.bytes \in [1..2 * IdBytes -> Byte]
  <2> DEFINE x == f.id \o f.bytes
  <2>1. Encode(f) = [tag |-> f.kind, body |-> x]
    BY ZenonT(60), <1>2, Encodes
  <2>2. IdBytes \in Nat /\ 2 * IdBytes \in Nat
    BY Widths
  <2>3. f.id \in Seq(Byte) /\ Len(f.id) = IdBytes /\ f.bytes \in Seq(Byte) /\ Len(f.bytes) = 2 * IdBytes
    BY ZenonT(60), <1>2, <2>2, Strings
  <2>4. Upto(x, IdBytes) = f.id /\ From(x, IdBytes + 1) = f.bytes
    BY ZenonT(60), <2>3, SplitJoin
  <2>5. Joins(x, f.id, f.bytes)
    BY ZenonT(60), <2>3, Concat
  <2> HIDE DEF x
  <2>6. Len(x) = 3 * IdBytes
    BY <2>2, <2>3, <2>5 DEF Joins
  <2>7. Decode([tag |-> "auth", body |-> x]) = {[kind |-> "auth", id |-> f.id, bytes |-> f.bytes]}
    BY ZenonT(60), <2>4, <2>6, Decodes
  <2> QED BY ZenonT(60), <1>2, <2>1, <2>7
<1>3. CASE /\ f = [kind |-> f.kind, id |-> f.id, bytes |-> f.bytes] /\ f.kind \in ByNode
           /\ f.id \in [1..IdBytes -> Byte]
           /\ \E n \in 1..MaxDatagram : f.bytes \in [1..n -> Byte]
  <2>1. Encode(f) = [tag |-> f.kind, body |-> f.id \o f.bytes]
    BY ZenonT(60), <1>3, Encodes
  <2>2. SplitRouted(f.kind, f.id \o f.bytes, IdBytes) = {[kind |-> f.kind, id |-> f.id, bytes |-> f.bytes]}
    <3>1. PICK n \in 1..MaxDatagram : f.bytes \in [1..n -> Byte]
      BY ZenonT(60), <1>3
    <3>2. IdBytes \in Nat /\ f.id \in [1..IdBytes -> Byte]
      BY ZenonT(60), <1>3, Widths
    <3>3. Routes(f.kind, f.id, f.bytes, IdBytes)
      BY ZenonT(60), <3>1, <3>2, RoutedReads
    <3> QED BY ZenonT(60), <3>3 DEF Routes
  <2>3. Decode([tag |-> f.kind, body |-> f.id \o f.bytes]) = SplitRouted(f.kind, f.id \o f.bytes, IdBytes)
    BY ZenonT(60), <1>3, Decodes
  <2> QED BY ZenonT(60), <1>3, <2>1, <2>2, <2>3
<1>4. CASE /\ f = [kind |-> f.kind, id |-> f.id, bytes |-> f.bytes] /\ f.kind \in ByTag
           /\ f.id \in [1..TagBytes -> Byte]
           /\ \E n \in 1..MaxDatagram : f.bytes \in [1..n -> Byte]
  <2>1. Encode(f) = [tag |-> f.kind, body |-> f.id \o f.bytes]
    BY ZenonT(60), <1>4, Encodes
  <2>2. SplitRouted(f.kind, f.id \o f.bytes, TagBytes) = {[kind |-> f.kind, id |-> f.id, bytes |-> f.bytes]}
    <3>1. PICK n \in 1..MaxDatagram : f.bytes \in [1..n -> Byte]
      BY ZenonT(60), <1>4
    <3>2. TagBytes \in Nat /\ f.id \in [1..TagBytes -> Byte]
      BY ZenonT(60), <1>4, Widths
    <3>3. Routes(f.kind, f.id, f.bytes, TagBytes)
      BY ZenonT(60), <3>1, <3>2, RoutedReads
    <3> QED BY ZenonT(60), <3>3 DEF Routes
  <2>3. Decode([tag |-> f.kind, body |-> f.id \o f.bytes]) = SplitRouted(f.kind, f.id \o f.bytes, TagBytes)
    BY ZenonT(60), <1>4, Decodes
  <2> QED BY ZenonT(60), <1>4, <2>1, <2>2, <2>3
<1>5. CASE /\ f = [kind |-> "register", tags |-> f.tags] /\ f.kind = "register"
           /\ \E n \in 0..MaxTags : Table(f.tags, n)
  <2>1. PICK n \in 0..MaxTags : Table(f.tags, n)
    BY ZenonT(60), <1>5
  <2>2. n \in Nat /\ n <= MaxTags
    BY CodecBounds
  <2>3. Len(f.tags) = n
    BY ZenonT(60), <2>1, <2>2, Strings DEF Table
  <2>4. Encode(f) = [tag |-> "register", body |-> Be(n) \o Joined(f.tags)]
    BY ZenonT(60), <1>5, <2>3, Encodes
  <2>5. DecodeRegister(Be(n) \o Joined(f.tags)) = {[kind |-> "register", tags |-> f.tags]}
    BY ZenonT(60), <2>1, <2>2, RegisterReads
  <2>6. Decode([tag |-> "register", body |-> Be(n) \o Joined(f.tags)]) = DecodeRegister(Be(n) \o Joined(f.tags))
    BY ZenonT(60), Decodes
  <2> QED BY ZenonT(60), <1>5, <2>4, <2>5, <2>6
<1> QED BY ZenonT(60), <1>1, <1>2, <1>3, <1>4, <1>5, FrameShapes

\* Frame::encode undoes Frame::decode.
LEMMA FrameWrites ==
  ASSUME NEW tag \in FrameTags \cup {"unknown"}, NEW body \in Seq(Byte),
         NEW f \in Decode([tag |-> tag, body |-> body])
  PROVE  Encode(f) = [tag |-> tag, body |-> body]
<1>1. tag \in Fixed \/ tag = "auth" \/ tag \in ByNode \/ tag \in ByTag \/ tag = "register" \/ tag = "unknown"
  BY ZenonT(60), Widths DEF FrameTags
<1>2. CASE tag \in Fixed
  <2>1. f = [kind |-> tag, bytes |-> body]
    BY ZenonT(60), <1>2, Decodes
  <2>2. f.kind = tag /\ f.bytes = body
    BY <2>1
  <2> QED BY ZenonT(60), <1>2, <2>2, Encodes
<1>3. CASE tag = "auth"
  <2>1. /\ Len(body) = 3 * IdBytes
        /\ f = [kind |-> "auth", id |-> Upto(body, IdBytes), bytes |-> From(body, IdBytes + 1)]
    BY ZenonT(60), <1>3, Decodes
  <2>2. f.kind = "auth" /\ f.id = Upto(body, IdBytes) /\ f.bytes = From(body, IdBytes + 1)
    BY <2>1
  <2>3. IdBytes \in Nat /\ IdBytes <= Len(body)
    BY <2>1, Widths
  <2>4. f.id \o f.bytes = body
    BY ZenonT(60), <2>2, <2>3, JoinSplit
  <2> QED BY ZenonT(60), <1>3, <2>2, <2>4, Encodes
<1>4. CASE tag \in ByNode
  <2>1. f \in SplitRouted(tag, body, IdBytes) /\ IdBytes \in Nat
    BY ZenonT(60), <1>4, Decodes, Widths
  <2>2. f.kind = tag /\ f.id \o f.bytes = body
    BY ZenonT(60), <2>1, RoutedWrites
  <2> QED BY ZenonT(60), <1>4, <2>2, Encodes
<1>5. CASE tag \in ByTag
  <2>1. f \in SplitRouted(tag, body, TagBytes) /\ TagBytes \in Nat
    BY ZenonT(60), <1>5, Decodes, Widths
  <2>2. f.kind = tag /\ f.id \o f.bytes = body
    BY ZenonT(60), <2>1, RoutedWrites
  <2> QED BY ZenonT(60), <1>5, <2>2, Encodes
<1>6. CASE tag = "register"
  <2>1. f \in DecodeRegister(body)
    BY ZenonT(60), <1>6, Decodes
  <2>2. f.kind = "register" /\ Be(Len(f.tags)) \o Joined(f.tags) = body
    BY ZenonT(60), <2>1, RegisterWrites
  <2> QED BY ZenonT(60), <1>6, <2>2, Encodes
<1>7. CASE tag = "unknown"
  BY ZenonT(60), <1>7, Decodes
<1> QED BY ZenonT(60), <1>1, <1>2, <1>3, <1>4, <1>5, <1>6, <1>7

\* A body is a sequence of bytes.
LEMMA BodiesType == ASSUME NEW b \in Bodies PROVE b \in Seq(Byte)
<1>1. PICK n \in 0..IdBytes + TagBytes + MaxDatagram + 1 : b \in [1..n -> Byte]
  BY ZenonT(60) DEF Bodies
<1>2. n \in Nat
  BY CodecBounds
<1> QED BY ZenonT(60), <1>1, <1>2, Strings

\* Every frame that is written reads back as itself, and every body that is
\* read is the one that its frame is written as.
LEMMA FramesHold == ASSUME FormatsInit PROVE FramesRoundTrip
<1>1. ASSUME item.part = "frame" PROVE Decode(Encode(item.frame)) = {item.frame}
  <2> DEFINE f == item.frame
  <2>1. f \in Frames
    BY ZenonT(60), <1>1, Parts
  <2> HIDE DEF f
  <2>2. Decode(Encode(f)) = {f}
    BY ZenonT(60), <2>1, FrameReads
  <2> QED BY ZenonT(60), <2>2 DEF f
<1>2. ASSUME item.part = "wire", NEW f \in Decode([tag |-> item.tag, body |-> item.body])
      PROVE  Encode(f) = [tag |-> item.tag, body |-> item.body]
  <2> DEFINE tag == item.tag body == item.body
  <2>1. tag \in FrameTags \cup {"unknown"} /\ body \in Seq(Byte)
    BY ZenonT(60), <1>2, Parts, BodiesType
  <2>2. f \in Decode([tag |-> tag, body |-> body])
    BY <1>2
  <2> HIDE DEF tag, body
  <2>3. Encode(f) = [tag |-> tag, body |-> body]
    BY ZenonT(60), <2>1, <2>2, FrameWrites
  <2> QED BY ZenonT(60), <2>3 DEF tag, body
<1> QED BY ZenonT(60), <1>1, <1>2 DEF FramesRoundTrip

(***************************************************************************)
(* More of division, and powers of two.                                    *)
(***************************************************************************)
\* Dividing twice is dividing by the product.
LEMMA DivDiv ==
  ASSUME NEW a \in Nat, NEW p \in Nat \ {0}, NEW q \in Nat \ {0}
  PROVE  (a \div p) \div q = a \div (p * q)
<1> DEFINE d == a \div p e == a % p f == d \div q g == d % q
<1>1. Splits(a, p, d, e)
  BY ZenonT(60), DivMod
<1> HIDE DEF d, e
<1>2. Splits(d, q, f, g)
  BY ZenonT(60), <1>1, DivMod DEF Splits
<1> HIDE DEF f, g
<1>3. /\ p * q \in Nat \ {0} /\ p * g + e \in Nat /\ f \in Nat
      /\ a = (p * q) * f + (p * g + e)
  BY <1>1, <1>2 DEF Splits
<1>4. p * g + e < p * q
  BY <1>1, <1>2 DEF Splits
<1>5. a \div (p * q) = f
  BY ZenonT(60), <1>3, <1>4, Unique DEF Splits
<1> QED BY ZenonT(60), <1>5 DEF f, d

Tailed(a, p, q, x) == (p * a + x) \div (p * q) = a \div q

\* A remainder below p is lost when p divides the divisor.
LEMMA DivTail ==
  ASSUME NEW a \in Nat, NEW p \in Nat \ {0}, NEW q \in Nat \ {0}, NEW x \in Nat, x < p
  PROVE  Tailed(a, p, q, x)
<1> DEFINE b == p * a + x
<1>1. b \in Nat /\ Splits(b, p, a, x)
  BY DEF Splits
<1> HIDE DEF b
<1>2. b \div p = a
  BY ZenonT(60), <1>1, Unique
<1>3. (b \div p) \div q = b \div (p * q)
  BY ZenonT(60), <1>1, DivDiv
<1> QED BY ZenonT(60), <1>2, <1>3 DEF b, Tailed

Kept(a, p, q, m) == ((a % (p * q * m)) \div p) % q = (a \div p) % q

\* A remainder modulo a multiple of p * q keeps the q-digit above p.
LEMMA ModDiv ==
  ASSUME NEW a \in Nat, NEW p \in Nat \ {0}, NEW q \in Nat \ {0}, NEW m \in Nat \ {0}
  PROVE  Kept(a, p, q, m)
<1> DEFINE s == p * q * m
<1> DEFINE k == a \div s r == a % s d == r \div p e == r % p u == d \div q v == d % q
<1>1. s \in Nat \ {0} /\ s = p * (q * m) /\ q * m \in Nat
  OBVIOUS
<1> HIDE DEF s
<1>2. Splits(a, s, k, r)
  BY ZenonT(60), <1>1, DivMod
<1> HIDE DEF k, r
<1>3. Splits(r, p, d, e)
  BY ZenonT(60), <1>2, DivMod DEF Splits
<1> HIDE DEF d, e
<1>4. Splits(d, q, u, v)
  BY ZenonT(60), <1>3, DivMod DEF Splits
<1> HIDE DEF u, v
<1> DEFINE w == q * m * k + d
<1>5. Splits(a, p, w, e)
  <2>1. /\ a = p * (q * m) * k + p * d + e /\ k \in Nat /\ d \in Nat
        /\ e \in Nat /\ e < p
    BY <1>1, <1>2, <1>3 DEF Splits
  <2> QED BY <2>1 DEF Splits
<1>6. Splits(w, q, m * k + u, v)
  BY <1>2, <1>4 DEF Splits
<1> HIDE DEF w
<1>7. a \div p = w /\ w % q = v
  BY ZenonT(60), <1>5, <1>6, Unique
<1> QED BY ZenonT(60), <1>7 DEF v, d, r, s, Kept

\* A set of numbers that is not empty has a least one.
LEMMA Least ==
  ASSUME NEW T, T \subseteq Nat, T # {}
  PROVE  \E x \in T : \A y \in T : x <= y
<1> DEFINE R == {p \in Nat \X Nat : p[1] < p[2]}
<1>1. IsWellFoundedOn(R, Nat)
  BY NatLessThanWellFounded DEF OpToRel
<1> HIDE DEF R
<1>2. PICK x \in T : \A y \in T : ~ (<<y, x>> \in R)
  BY ZenonT(60), <1>1, WFMin
<1>3. \A y \in T : ~ (y < x)
  BY ZenonT(60), <1>2 DEF R
<1> QED BY <1>3, x \in T

\* Induction, for the set of the numbers that a fact holds of.
LEMMA Induction ==
  ASSUME NEW S, 0 \in S, \A n \in Nat : n \in S => n + 1 \in S
  PROVE  \A n \in Nat : n \in S
<1> SUFFICES ASSUME NEW m \in Nat, m \notin S PROVE FALSE
  BY ZenonT(60)
<1> DEFINE T == Nat \ S
<1>1. T \subseteq Nat /\ T # {}
  BY ZenonT(60)
<1> HIDE DEF T
<1>2. PICK x \in T : \A y \in T : x <= y
  BY ZenonT(60), <1>1, Least
<1>3. x \in Nat /\ x # 0 /\ x \notin S
  BY ZenonT(60), <1>2 DEF T
<1>4. x - 1 \in Nat /\ ~(x <= x - 1) /\ (x - 1) + 1 = x
  BY <1>3
<1>5. x - 1 \in S
  BY ZenonT(60), <1>2, <1>4 DEF T
<1> QED BY ZenonT(60), <1>3, <1>4, <1>5

\* `power` doubles from one, n times.
Doubles(n, power) ==
  /\ power \in [0..n -> Nat \ {0}] /\ power[0] = 1
  /\ \A i \in 0..n-1 : power[i + 1] = 2 * power[i]

\* There is such a function for every n.
LEMMA DoublesExists == \A n \in Nat : \E power : Doubles(n, power)
<1> DEFINE S == {n \in Nat : \E power : Doubles(n, power)}
<1>1. 0 \in S
  <2>1. Doubles(0, [i \in 0..0 |-> 1])
    BY DEF Doubles
  <2> QED BY ZenonT(60), <2>1
<1>2. ASSUME NEW n \in Nat, n \in S PROVE n + 1 \in S
  <2>1. PICK power : Doubles(n, power)
    BY ZenonT(60), <1>2
  <2> DEFINE more == [i \in 0..n+1 |-> IF i <= n THEN power[i] ELSE 2 * power[n]]
  <2>2. more \in [0..n+1 -> Nat \ {0}] /\ more[0] = 1
    BY <2>1 DEF Doubles
  <2>3. ASSUME NEW i \in 0..n PROVE more[i + 1] = 2 * more[i]
    BY <2>1 DEF Doubles
  <2> HIDE DEF more
  <2>4. Doubles(n + 1, more)
    BY <2>2, <2>3 DEF Doubles
  <2>5. n + 1 \in Nat
    OBVIOUS
  <2> QED BY ZenonT(60), <2>4, <2>5
<1> HIDE DEF S
<1>3. \A n \in Nat : n \in S
  BY ZenonT(60), <1>1, <1>2, Induction
<1> QED BY ZenonT(60), <1>3 DEF S

Powers(n, power) == power = [i \in 0..n |-> IF i = 0 THEN 1 ELSE 2 * power[i - 1]]

\* It is the recursive function that TwoTo evaluates.
LEMMA DoublesPowers ==
  ASSUME NEW n \in Nat, NEW power, Doubles(n, power) PROVE Powers(n, power)
<1>1. power = [i \in 0..n |-> power[i]]
  BY DEF Doubles
<1>2. \A i \in 0..n : power[i] = IF i = 0 THEN 1 ELSE 2 * power[i - 1]
  <2> TAKE i \in 0..n
  <2>1. CASE i = 0
    BY <2>1 DEF Doubles
  <2>2. CASE i # 0
    <3>1. i - 1 \in 0..n-1 /\ (i - 1) + 1 = i
      BY <2>2
    <3> QED BY ZenonT(60), <3>1, <2>2 DEF Doubles
  <2> QED BY ZenonT(60), <2>1, <2>2
<1> QED BY ZenonT(60), <1>1, <1>2 DEF Powers

\* Two that double agree as far as both go.
LEMMA PowersAgree ==
  ASSUME NEW n \in Nat, NEW m \in Nat, n <= m, NEW f, Powers(n, f), NEW g, Powers(m, g)
  PROVE  f[n] = g[n]
<1> DEFINE S == {i \in Nat : i <= n => f[i] = g[i]}
<1>1. \A i \in 0..n : f[i] = IF i = 0 THEN 1 ELSE 2 * f[i - 1]
  BY DEF Powers
<1>2. \A i \in 0..m : g[i] = IF i = 0 THEN 1 ELSE 2 * g[i - 1]
  BY DEF Powers
<1>3. 0 \in S
  BY <1>1, <1>2
<1>4. ASSUME NEW i \in Nat, i \in S PROVE i + 1 \in S
  <2> SUFFICES ASSUME i + 1 <= n PROVE f[i + 1] = g[i + 1]
    OBVIOUS
  <2>1. i + 1 \in 0..n /\ i + 1 \in 0..m /\ i + 1 # 0 /\ (i + 1) - 1 = i /\ i <= n
    OBVIOUS
  <2>2. f[i + 1] = 2 * f[i] /\ g[i + 1] = 2 * g[i]
    BY ZenonT(60), <1>1, <1>2, <2>1
  <2> QED BY ZenonT(60), <1>4, <2>1, <2>2
<1> HIDE DEF S
<1>5. \A i \in Nat : i \in S
  BY ZenonT(60), <1>3, <1>4, Induction
<1>6. n \in S /\ n <= n
  BY <1>5
<1> QED BY ZenonT(60), <1>6 DEF S

\* TwoTo(n) is its last value.
LEMMA TwoToIs ==
  ASSUME NEW n \in Nat, NEW power, Doubles(n, power) PROVE TwoTo(n) = power[n]
<1> DEFINE p == CHOOSE p : Powers(n, p)
<1>1. Powers(n, p)
  BY ZenonT(60), DoublesPowers
<1>2. TwoTo(n) = p[n]
  BY ZenonT(60) DEF TwoTo, Powers
<1> HIDE DEF p
<1>3. n <= n
  OBVIOUS
<1>4. Powers(n, power)
  BY ZenonT(60), DoublesPowers
<1>5. p[n] = power[n]
  BY ZenonT(60), <1>1, <1>3, <1>4, PowersAgree
<1> QED BY ZenonT(60), <1>2, <1>5

\* The first power of two.
LEMMA TwoToZero == TwoTo(0) = 1
<1>1. PICK power : Doubles(0, power)
  BY ZenonT(60), DoublesExists
<1> QED BY ZenonT(60), <1>1, TwoToIs DEF Doubles

\* Every power of two is twice the one before.
LEMMA TwoToNext ==
  ASSUME NEW n \in Nat
  PROVE  TwoTo(n) \in Nat \ {0} /\ TwoTo(n + 1) = 2 * TwoTo(n)
<1>1. n + 1 \in Nat /\ n <= n + 1 /\ n \in 0..n+1 /\ n \in 0..(n+1)-1 /\ n \in 0..n
  OBVIOUS
<1>2. PICK f : Doubles(n, f)
  BY ZenonT(60), DoublesExists
<1>3. PICK g : Doubles(n + 1, g)
  BY ZenonT(60), <1>1, DoublesExists
<1>4. f[n] = g[n]
  BY ZenonT(60), <1>1, <1>2, <1>3, DoublesPowers, PowersAgree
<1>5. g[n + 1] = 2 * g[n]
  BY ZenonT(60), <1>1, <1>3 DEF Doubles
<1>6. TwoTo(n) = f[n] /\ TwoTo(n + 1) = g[n + 1]
  BY ZenonT(60), <1>1, <1>2, <1>3, TwoToIs
<1>7. f[n] \in Nat \ {0}
  BY ZenonT(60), <1>1, <1>2 DEF Doubles
<1> QED BY ZenonT(60), <1>4, <1>5, <1>6, <1>7

\* Adding exponents multiplies the powers.
LEMMA TwoToSum ==
  ASSUME NEW a \in Nat, NEW b \in Nat PROVE TwoTo(a + b) = TwoTo(a) * TwoTo(b)
<1> DEFINE S == {n \in Nat : TwoTo(a + n) = TwoTo(a) * TwoTo(n)}
<1>1. 0 \in S
  <2>1. a + 0 = a /\ TwoTo(a) * 1 = TwoTo(a)
    BY TwoToNext
  <2> QED BY ZenonT(60), <2>1, TwoToZero
<1>2. ASSUME NEW n \in Nat, n \in S PROVE n + 1 \in S
  <2> DEFINE p == TwoTo(a) q == TwoTo(n) s == TwoTo(a + n)
  <2>1. p \in Nat /\ q \in Nat /\ TwoTo(n + 1) = 2 * q
    BY ZenonT(60), TwoToNext
  <2>2. TwoTo((a + n) + 1) = 2 * s /\ s = p * q
    <3>1. a + n \in Nat
      OBVIOUS
    <3> QED BY ZenonT(60), <3>1, <1>2, TwoToNext
  <2>3. a + (n + 1) = (a + n) + 1
    OBVIOUS
  <2> HIDE DEF p, q, s
  <2>4. 2 * s = p * (2 * q)
    BY <2>1, <2>2
  <2>5. TwoTo(a + (n + 1)) = p * TwoTo(n + 1)
    BY ZenonT(60), <2>1, <2>2, <2>3, <2>4
  <2>6. n + 1 \in Nat
    OBVIOUS
  <2> QED BY ZenonT(60), <2>5, <2>6 DEF p
<1> HIDE DEF S
<1>3. \A n \in Nat : n \in S
  BY ZenonT(60), <1>1, <1>2, Induction
<1> QED BY ZenonT(60), <1>3 DEF S

(***************************************************************************)
(* Numbers as bits.                                                        *)
(***************************************************************************)
\* The n bits of v above its lowest e.
Digit(v, e, n) == (v \div TwoTo(e)) % TwoTo(n)

\* v with w more bits, those of x, below it.
Below(v, w, x) == TwoTo(w) * v + x

\* A number with more bits below it is a number.
LEMMA BelowType ==
  ASSUME NEW v \in Nat, NEW w \in Nat, NEW x \in Nat PROVE Below(v, w, x) \in Nat
<1> DEFINE p == TwoTo(w)
<1>1. p \in Nat
  BY ZenonT(60), TwoToNext
<1> HIDE DEF p
<1>2. p * v + x \in Nat
  BY <1>1
<1> QED BY ZenonT(60), <1>2 DEF p, Below

\* Bits added below leave the ones above as they are.
Lifts(v, w, x, e) == Below(v, w, x) \div TwoTo(w + e) = v \div TwoTo(e)
DigitLifts(v, w, x, e, n) == Digit(Below(v, w, x), w + e, n) = Digit(v, e, n)

\* The number above added bits is found by dividing them away.
LEMMA BelowDiv ==
  ASSUME NEW v \in Nat, NEW w \in Nat, NEW x \in Nat, x < TwoTo(w), NEW e \in Nat
  PROVE  Lifts(v, w, x, e)
<1> DEFINE p == TwoTo(w) q == TwoTo(e)
<1>1. p \in Nat \ {0} /\ q \in Nat \ {0} /\ x < p
  BY ZenonT(60), TwoToNext
<1>2. TwoTo(w + e) = p * q
  BY ZenonT(60), TwoToSum
<1> HIDE DEF p, q
<1>3. Tailed(v, p, q, x)
  BY ZenonT(60), <1>1, DivTail
<1>4. (p * v + x) \div TwoTo(w + e) = v \div q
  BY ZenonT(60), <1>2, <1>3 DEF Tailed
<1> QED BY ZenonT(60), <1>4 DEF p, q, Below, Lifts

\* So is every group of bits of it.
LEMMA BelowDigit ==
  ASSUME NEW v \in Nat, NEW w \in Nat, NEW x \in Nat, x < TwoTo(w), NEW e \in Nat, NEW n
  PROVE  DigitLifts(v, w, x, e, n)
<1>1. Lifts(v, w, x, e)
  BY ZenonT(60), BelowDiv
<1> QED BY ZenonT(60), <1>1 DEF Digit, Lifts, DigitLifts

\* The added bits themselves are the remainder.
LEMMA BelowMod ==
  ASSUME NEW v \in Nat, NEW w \in Nat, NEW x \in Nat, x < TwoTo(w)
  PROVE  Below(v, w, x) % TwoTo(w) = x
<1> DEFINE p == TwoTo(w) y == p * v + x
<1>1. p \in Nat \ {0} /\ x < p
  BY ZenonT(60), TwoToNext
<1>2. Splits(y, p, v, x)
  <2> HIDE DEF p
  <2> QED BY <1>1 DEF Splits
<1>3. y % p = x /\ y \div p = v
  <2> HIDE DEF p, y
  <2> QED BY ZenonT(60), <1>1, <1>2, Unique
<1> QED BY ZenonT(60), <1>3 DEF Below

\* An accumulator of a bits that has lost its upper bits still gives the
\* lower ones.
DigitKept(v, a, e, n) == Digit(v % TwoTo(a), e, n) = Digit(v, e, n)

\* See DigitKept.
LEMMA ModDigit ==
  ASSUME NEW v \in Nat, NEW a \in Nat, NEW e \in Nat, NEW n \in Nat, e + n <= a
  PROVE  DigitKept(v, a, e, n)
<1> DEFINE r == a - (e + n)
<1> DEFINE p == TwoTo(e) q == TwoTo(n) m == TwoTo(r)
<1>1. r \in Nat /\ e + n \in Nat /\ (e + n) + r = a
  OBVIOUS
<1> HIDE DEF r
<1>2. p \in Nat \ {0} /\ q \in Nat \ {0} /\ m \in Nat \ {0}
  BY ZenonT(60), <1>1, TwoToNext
<1>3. TwoTo(a) = TwoTo(e + n) * m /\ TwoTo(e + n) = p * q
  BY ZenonT(60), <1>1, TwoToSum
<1>4. TwoTo(a) = p * q * m
  BY ZenonT(60), <1>3
<1> HIDE DEF p, q, m
<1>5. Kept(v, p, q, m)
  BY ZenonT(60), <1>2, ModDiv
<1>6. ((v % TwoTo(a)) \div p) % q = (v \div p) % q
  BY ZenonT(60), <1>4, <1>5 DEF Kept
<1> QED BY ZenonT(60), <1>6 DEF p, q, Digit, DigitKept

\* Shifting what is left of v and shifting v come to the same.
Shifts(v, m, p, x) == ((((v % m) * p) % m) + x) % m = (p * v + x) % m

\* See Shifts.
LEMMA ModShift ==
  ASSUME NEW v \in Nat, NEW m \in Nat \ {0}, NEW p \in Nat, NEW x \in Nat
  PROVE  Shifts(v, m, p, x)
<1> DEFINE k == v \div m r == v % m
<1>1. Splits(v, m, k, r)
  BY ZenonT(60), DivMod
<1> HIDE DEF k, r
<1> DEFINE y == r * p
<1> DEFINE j == y \div m s == y % m
<1>2. y \in Nat
  BY <1>1 DEF Splits
<1> HIDE DEF y
<1>3. Splits(y, m, j, s)
  BY ZenonT(60), <1>2, DivMod
<1> HIDE DEF j, s
<1> DEFINE z == s + x
<1> DEFINE i == z \div m t == z % m
<1>4. z \in Nat
  BY <1>3 DEF Splits
<1> HIDE DEF z
<1>5. Splits(z, m, i, t)
  BY ZenonT(60), <1>4, DivMod
<1> HIDE DEF i, t
<1> DEFINE w == p * v + x
<1>6. Splits(w, m, p * k + j + i, t)
  <2>1. p * v = p * (m * k) + p * r
    BY <1>1 DEF Splits
  <2>2. p * r = m * j + s
    BY <1>1, <1>3 DEF Splits, y
  <2>3. s + x = m * i + t
    BY <1>5 DEF Splits, z
  <2>4. /\ k \in Nat /\ j \in Nat /\ i \in Nat /\ t \in Nat /\ t < m /\ s \in Nat /\ r \in Nat
    BY <1>1, <1>3, <1>5 DEF Splits
  <2>5. w = p * (m * k) + m * j + m * i + t
    BY <2>1, <2>2, <2>3, <2>4
  <2>6. w = m * (p * k + j + i) + t /\ p * k + j + i \in Nat
    BY <2>4, <2>5
  <2> HIDE DEF w
  <2> QED BY ZenonT(60), <2>4, <2>6 DEF Splits
<1> HIDE DEF w
<1>7. w % m = t
  BY ZenonT(60), <1>6, Unique
<1> QED BY ZenonT(60), <1>7 DEF w, t, z, s, y, r, Shifts

(***************************************************************************)
(* One turn of the loop.  `total` bits have come in, those of v; what has  *)
(* gone out are the uppermost of them, n at a time, and the rest is in the *)
(* accumulator, under whatever an earlier shift has not yet pushed out.    *)
(***************************************************************************)
Holds(s, v, total, n) ==
  /\ s.acc = v % TwoTo(AccBits)
  /\ s.bits \in Nat /\ s.bits < n
  /\ s.out \in Seq(Nat)
  /\ Len(s.out) * n + s.bits = total
  /\ \A j \in 1..Len(s.out) : s.out[j] = Digit(v, total - j * n, n)

\* Products are ordered as their first factors.
LEMMA Times ==
  ASSUME NEW i \in Nat, NEW j \in Nat, i <= j, NEW n \in Nat
  PROVE  i * n \in Nat /\ j * n \in Nat /\ i * n <= j * n
<1> DEFINE d == j - i
<1>1. d \in Nat /\ j = i + d
  OBVIOUS
<1> HIDE DEF d
<1>2. i * n \in Nat /\ d * n \in Nat
  BY <1>1
<1>3. j * n = i * n + d * n
  BY <1>1
<1> QED BY <1>2, <1>3

\* A group of bits is a number.
LEMMA DigitType == ASSUME NEW v \in Nat, NEW e \in Nat, NEW n \in Nat PROVE Digit(v, e, n) \in Nat
<1> DEFINE p == TwoTo(e) q == TwoTo(n) d == v \div p
<1>1. p \in Nat \ {0} /\ q \in Nat \ {0}
  BY ZenonT(60), TwoToNext
<1> HIDE DEF p, q
<1>2. d \in Nat
  BY ZenonT(60), <1>1, DivMod DEF Splits
<1> HIDE DEF d
<1>3. d % q \in Nat
  BY ZenonT(60), <1>1, <1>2, DivMod DEF Splits
<1> QED BY ZenonT(60), <1>3 DEF Digit, d, p, q

\* The symbols that one turn gives out.
Given(more, v, bits, n) ==
  /\ more \in Seq(Nat) /\ Len(more) = bits \div n
  /\ Len(more) \in Nat /\ Len(more) * n <= bits /\ bits - Len(more) * n < n
  /\ \A i \in 1..Len(more) : more[i] = Digit(v, bits - i * n, n)

\* The inner loop of to_base32, and the one push of from_base32.
LEMMA Gives ==
  ASSUME NEW v \in Nat, NEW bits \in Nat, NEW n \in Nat \ {0}, bits <= AccBits
  PROVE  Given([i \in 1..bits \div n |-> ((v % TwoTo(AccBits)) \div TwoTo(bits - i * n)) % TwoTo(n)], v, bits, n)
<1> DEFINE m == bits \div n r == bits % n
<1> DEFINE more == [i \in 1..m |-> ((v % TwoTo(AccBits)) \div TwoTo(bits - i * n)) % TwoTo(n)]
<1>1. Splits(bits, n, m, r)
  BY ZenonT(60), DivMod
<1> HIDE DEF m, r
<1>2. m \in Nat /\ m * n <= bits /\ bits - m * n < n
  BY <1>1 DEF Splits
<1>3. ASSUME NEW i \in 1..m
      PROVE  /\ ((v % TwoTo(AccBits)) \div TwoTo(bits - i * n)) % TwoTo(n) = Digit(v, bits - i * n, n)
             /\ Digit(v, bits - i * n, n) \in Nat
  <2> DEFINE e == bits - i * n
  <2>1. i \in Nat /\ i <= m /\ 1 <= i
    BY <1>2
  <2>2. i * n \in Nat /\ i * n <= m * n /\ n <= i * n /\ m * n \in Nat
    <3>1. i * n \in Nat /\ i * n <= m * n /\ m * n \in Nat
      BY ZenonT(60), <1>2, <2>1, Times
    <3>2. 1 * n <= i * n
      BY ZenonT(60), <2>1, Times
    <3> QED BY <3>1, <3>2
  <2>3. AccBits \in Nat
    BY CodecBounds
  <2>4. e \in Nat /\ e + n <= AccBits
    BY <1>2, <2>2, <2>3
  <2> HIDE DEF e
  <2>5. DigitKept(v, AccBits, e, n)
    BY ZenonT(60), <2>3, <2>4, ModDigit
  <2>6. Digit(v, e, n) \in Nat
    BY ZenonT(60), <2>4, DigitType
  <2> QED BY ZenonT(60), <2>5, <2>6 DEF DigitKept, Digit, e
<1>4. more \in [1..m -> Nat] /\ \A i \in 1..m : more[i] = Digit(v, bits - i * n, n)
  BY ZenonT(60), <1>3
<1> HIDE DEF more
<1>5. more \in Seq(Nat) /\ Len(more) = m
  BY ZenonT(60), <1>2, <1>4, Strings
<1>6. Given(more, v, bits, n)
  BY ZenonT(60), <1>2, <1>4, <1>5 DEF Given, m
<1> QED BY ZenonT(60), <1>6 DEF more, m

\* One turn of either loop keeps Holds, with the bits of its symbol added.
LEMMA TurnHolds ==
  ASSUME NEW s, NEW v \in Nat, NEW total \in Nat, NEW n \in Nat \ {0}, NEW w \in Nat,
         n + w - 1 <= AccBits, Holds(s, v, total, n), NEW x \in Nat, x < TwoTo(w)
  PROVE  Holds(Regrouped(s, x, w, n), Below(v, w, x), total + w, n)
<1> DEFINE u == Below(v, w, x) b == s.bits bits == b + w m == bits \div n
<1> DEFINE acc == (Shifted(s.acc, w) + x) % TwoTo(AccBits)
<1> DEFINE more == [i \in 1..m |-> (acc \div TwoTo(bits - i * n)) % TwoTo(n)]
<1> DEFINE q == s.out l == Len(q)
<1>1. Regrouped(s, x, w, n) = [acc |-> acc, bits |-> bits - m * n, out |-> q \o more]
  BY ZenonT(60) DEF Regrouped
<1>2. acc = u % TwoTo(AccBits)
  <2>1. s.acc = v % TwoTo(AccBits)
    BY ZenonT(60) DEF Holds
  <2>2. TwoTo(AccBits) \in Nat \ {0} /\ TwoTo(w) \in Nat
    <3>1. AccBits \in Nat
      BY CodecBounds
    <3> QED BY ZenonT(60), <3>1, TwoToNext
  <2>3. Shifts(v, TwoTo(AccBits), TwoTo(w), x)
    BY ZenonT(60), <2>2, ModShift
  <2>4. acc = ((((v % TwoTo(AccBits)) * TwoTo(w)) % TwoTo(AccBits)) + x) % TwoTo(AccBits)
    BY ZenonT(60), <2>1 DEF Shifted
  <2> QED BY ZenonT(60), <2>3, <2>4 DEF Shifts, Below
<1>3. u \in Nat
  BY ZenonT(60), BelowType
<1>4. /\ q \in Seq(Nat) /\ l * n + b = total /\ b \in Nat /\ b < n
  BY ZenonT(60) DEF Holds
<1>17. \A j \in 1..l : q[j] = Digit(v, total - j * n, n)
  BY ZenonT(60) DEF Holds
<1>5. l \in Nat
  <2> HIDE DEF q
  <2> QED BY <1>4
<1>16. bits \in Nat /\ bits <= AccBits
  <2>1. AccBits \in Nat
    BY CodecBounds
  <2> HIDE DEF b, l
  <2> QED BY <1>4, <2>1
<1>6. more = [i \in 1..m |-> ((u % TwoTo(AccBits)) \div TwoTo(bits - i * n)) % TwoTo(n)]
  BY ZenonT(60), <1>2
<1> HIDE DEF u, acc, b, bits, more
<1>7. Given(more, u, bits, n)
  BY ZenonT(60), <1>3, <1>6, <1>16, Gives
<1>8. /\ more \in Seq(Nat) /\ Len(more) = m /\ m \in Nat /\ m * n <= bits /\ bits - m * n < n
      /\ \A i \in 1..m : more[i] = Digit(u, bits - i * n, n)
  BY ZenonT(60), <1>7 DEF Given
<1> DEFINE out == q \o more rest == bits - m * n t == Regrouped(s, x, w, n)
<1>9. out \in Seq(Nat) /\ Joins(out, q, more)
  BY ZenonT(60), <1>4, <1>8, Concat
<1>10. t = [acc |-> acc, bits |-> rest, out |-> out]
  BY ZenonT(60), <1>1
<1> HIDE DEF m
<1>11. rest \in Nat /\ rest < n /\ m * n \in Nat
  BY <1>8, <1>16
<1>12. Len(out) = l + m /\ (l + m) * n + rest = total + w
  <2>1. Len(out) = l + m
    BY ZenonT(60), <1>8, <1>9 DEF Joins
  <2> HIDE DEF l, out
  <2>2. (l + m) * n = l * n + m * n /\ l * n \in Nat /\ m * n \in Nat
    BY <1>5, <1>8
  <2>3. (l * n + m * n) + (bits - m * n) = total + w
    <3> DEFINE ln == l * n mn == m * n
    <3>1. ln \in Nat /\ mn \in Nat /\ ln + b = total
      BY <1>4, <2>2
    <3> HIDE DEF ln, mn
    <3>2. (ln + mn) + (bits - mn) = total + w
      BY <1>4, <3>1 DEF bits
    <3> QED BY ZenonT(60), <3>2 DEF ln, mn
  <2> QED BY <2>1, <2>2, <2>3
<1>13. ASSUME NEW j \in 1..l + m PROVE out[j] = Digit(u, (total + w) - j * n, n)
  <2>1. CASE j <= l
    <3> DEFINE e == total - j * n
    <3>1. j \in 1..l /\ j \in Nat
      BY <1>5, <1>8, <2>1
    <3>2. j * n \in Nat /\ j * n <= l * n /\ l * n \in Nat
      BY ZenonT(60), <1>5, <2>1, <3>1, Times
    <3>3. e \in Nat /\ (total + w) - j * n = w + e
      <4> HIDE DEF l
      <4> QED BY <1>4, <3>2
    <3>4. out[j] = Digit(v, e, n)
      BY ZenonT(60), <1>17, <1>9, <3>1 DEF Joins
    <3> HIDE DEF e
    <3>5. DigitLifts(v, w, x, e, n)
      BY ZenonT(60), <3>3, BelowDigit
    <3> QED BY ZenonT(60), <3>3, <3>4, <3>5 DEF DigitLifts, u
  <2>2. CASE ~(j <= l)
    <3> DEFINE i == j - l
    <3>1. i \in 1..m /\ l + i = j /\ i \in Nat
      <4> HIDE DEF l
      <4> QED BY <1>5, <1>8, <2>2
    <3>2. i * n \in Nat /\ l * n \in Nat
      <4> HIDE DEF l, i
      <4> QED BY <1>5, <3>1
    <3> HIDE DEF i
    <3>3. j * n = l * n + i * n
      <4> HIDE DEF l
      <4> QED BY <1>5, <3>1, <3>2
    <3>4. (total + w) - j * n = bits - i * n
      <4> DEFINE ln == l * n in == i * n jn == j * n
      <4>1. ln \in Nat /\ in \in Nat /\ ln + b = total /\ jn = ln + in
        BY ZenonT(60), <1>4, <3>2, <3>3
      <4> HIDE DEF ln, in, jn
      <4>2. (total + w) - jn = bits - in
        BY <1>4, <4>1 DEF bits
      <4> QED BY ZenonT(60), <4>2 DEF in, jn
    <3>5. out[l + i] = more[i]
      BY ZenonT(60), <1>8, <1>9, <3>1 DEF Joins
    <3> QED BY ZenonT(60), <1>8, <3>1, <3>4, <3>5
  <2> QED BY ZenonT(60), <2>1, <2>2
<1> HIDE DEF t, rest, out, l, q
<1>14. t.acc = acc /\ t.bits = rest /\ t.out = out
  BY <1>10
<1>15. Holds(t, u, total + w, n)
  <2>1. t.acc = u % TwoTo(AccBits) /\ t.bits \in Nat /\ t.bits < n /\ t.out \in Seq(Nat)
    BY ZenonT(60), <1>2, <1>9, <1>11, <1>14
  <2>2. Len(t.out) * n + t.bits = total + w
    BY ZenonT(60), <1>12, <1>14
  <2>3. \A j \in 1..Len(t.out) : t.out[j] = Digit(u, (total + w) - j * n, n)
    BY ZenonT(60), <1>12, <1>13, <1>14
  <2> QED BY ZenonT(60), <2>1, <2>2, <2>3 DEF Holds
<1> QED BY ZenonT(60), <1>15 DEF t, u

\* L symbols of w bits.
Symbols(x, L, w) == x \in [1..L -> Nat] /\ \A i \in 1..L : x[i] < TwoTo(w)

\* v[i] is the number that the first i symbols spell.
Spells(x, w, L, v) ==
  /\ v \in [0..L -> Nat] /\ v[0] = 0
  /\ \A i \in 0..L-1 : v[i + 1] = Below(v[i], w, x[i + 1])

\* Every sequence of symbols spells a number.
LEMMA SpellsExists ==
  ASSUME NEW x, NEW L \in Nat, NEW w \in Nat, Symbols(x, L, w)
  PROVE  \E v : Spells(x, w, L, v)
<1> DEFINE S == {n \in Nat : n <= L => \E v : Spells(x, w, n, v)}
<1>1. 0 \in S
  <2>1. Spells(x, w, 0, [i \in 0..0 |-> 0])
    BY DEF Spells
  <2> QED BY ZenonT(60), <2>1
<1>2. ASSUME NEW n \in Nat, n \in S PROVE n + 1 \in S
  <2> SUFFICES ASSUME n + 1 <= L PROVE \E v : Spells(x, w, n + 1, v)
    OBVIOUS
  <2>1. n <= L /\ n + 1 \in 1..L /\ n \in 0..n
    OBVIOUS
  <2>2. PICK v : Spells(x, w, n, v)
    BY ZenonT(60), <1>2, <2>1
  <2> DEFINE new == Below(v[n], w, x[n + 1])
  <2>3. new \in Nat
    <3>1. v[n] \in Nat /\ x[n + 1] \in Nat
      BY ZenonT(60), <2>1, <2>2 DEF Spells, Symbols
    <3> QED BY ZenonT(60), <3>1, BelowType
  <2> DEFINE more == [i \in 0..n+1 |-> IF i <= n THEN v[i] ELSE new]
  <2>4. ASSUME NEW i \in 0..n PROVE more[i + 1] = Below(more[i], w, x[i + 1])
    <3>1. CASE i = n
      <4> HIDE DEF new
      <4>1. more[i] = v[n] /\ more[i + 1] = new
        BY <3>1
      <4> QED BY ZenonT(60), <3>1, <4>1 DEF new
    <3>2. CASE i # n
      <4> HIDE DEF new
      <4>1. more[i] = v[i] /\ more[i + 1] = v[i + 1] /\ i \in 0..n-1
        BY <3>2
      <4> QED BY ZenonT(60), <2>2, <4>1 DEF Spells
    <3> QED BY ZenonT(60), <3>1, <3>2
  <2> HIDE DEF new
  <2>5. more \in [0..n+1 -> Nat] /\ more[0] = 0
    BY <2>2, <2>3 DEF Spells
  <2> HIDE DEF more
  <2>6. 0..(n + 1)-1 = 0..n
    OBVIOUS
  <2>7. Spells(x, w, n + 1, more)
    BY ZenonT(60), <2>4, <2>5, <2>6 DEF Spells
  <2> QED BY ZenonT(60), <2>7
<1> HIDE DEF S
<1>3. \A n \in Nat : n \in S
  BY ZenonT(60), <1>1, <1>2, Induction
<1>4. L \in S /\ L <= L
  BY <1>3
<1> QED BY ZenonT(60), <1>4 DEF S

Nothing == [acc |-> 0, bits |-> 0, out |-> <<>>]

\* run[k] is where the loop stands after k symbols.
Runs(x, w, n, L, run) ==
  /\ run = [k \in 0..L |-> run[k]] /\ run[0] = Nothing
  /\ \A i \in 0..L-1 : run[i + 1] = Regrouped(run[i], x[i + 1], w, n)

\* The loop runs through any number of symbols.
LEMMA RunsExists ==
  ASSUME NEW x, NEW w, NEW n
  PROVE  \A L \in Nat : \E run : Runs(x, w, n, L, run)
<1> DEFINE S == {L \in Nat : \E run : Runs(x, w, n, L, run)}
<1>1. 0 \in S
  <2> DEFINE run == [i \in 0..0 |-> Nothing]
  <2>1. run = [k \in 0..0 |-> run[k]] /\ run[0] = Nothing /\ 0..0-1 = {}
    OBVIOUS
  <2> HIDE DEF run
  <2>2. Runs(x, w, n, 0, run)
    BY ZenonT(60), <2>1 DEF Runs
  <2> QED BY ZenonT(60), <2>2
<1>2. ASSUME NEW L \in Nat, L \in S PROVE L + 1 \in S
  <2>1. PICK run : Runs(x, w, n, L, run)
    BY ZenonT(60), <1>2
  <2> DEFINE new == Regrouped(run[L], x[L + 1], w, n)
  <2> DEFINE more == [i \in 0..L+1 |-> IF i <= L THEN run[i] ELSE new]
  <2>2. ASSUME NEW i \in 0..L PROVE more[i + 1] = Regrouped(more[i], x[i + 1], w, n)
    <3>1. CASE i = L
      <4> HIDE DEF new
      <4>1. more[i] = run[L] /\ more[i + 1] = new
        BY <3>1
      <4> QED BY ZenonT(60), <3>1, <4>1 DEF new
    <3>2. CASE i # L
      <4> HIDE DEF new
      <4>1. more[i] = run[i] /\ more[i + 1] = run[i + 1] /\ i \in 0..L-1
        BY <3>2
      <4> QED BY ZenonT(60), <2>1, <4>1 DEF Runs
    <3> QED BY ZenonT(60), <3>1, <3>2
  <2> HIDE DEF new
  <2>3. run[0] = Nothing
    BY ZenonT(60), <2>1 DEF Runs
  <2>4. more = [k \in 0..L+1 |-> more[k]] /\ more[0] = Nothing
    BY <2>3
  <2> HIDE DEF more
  <2>5. 0..(L + 1)-1 = 0..L /\ L + 1 \in Nat
    OBVIOUS
  <2>6. Runs(x, w, n, L + 1, more)
    BY ZenonT(60), <2>2, <2>4, <2>5 DEF Runs
  <2> QED BY ZenonT(60), <2>5, <2>6
<1> HIDE DEF S
<1>3. \A L \in Nat : L \in S
  BY ZenonT(60), <1>1, <1>2, Induction
<1> QED BY ZenonT(60), <1>3 DEF S

Loops(x, w, n, L, run) ==
  run = [k \in 0..L |-> IF k = 0 THEN [acc |-> 0, bits |-> 0, out |-> <<>>]
                        ELSE Regrouped(run[k - 1], x[k], w, n)]

\* It is the recursive function that Regroup evaluates.
LEMMA RunsLoops ==
  ASSUME NEW x, NEW w, NEW n, NEW L \in Nat, NEW run
  PROVE  Runs(x, w, n, L, run) <=> Loops(x, w, n, L, run)
<1>1. ASSUME Runs(x, w, n, L, run) PROVE Loops(x, w, n, L, run)
  <2>1. ASSUME NEW k \in 0..L
        PROVE  run[k] = IF k = 0 THEN Nothing ELSE Regrouped(run[k - 1], x[k], w, n)
    <3>1. CASE k = 0
      BY ZenonT(60), <1>1, <3>1 DEF Runs
    <3>2. CASE k # 0
      <4> DEFINE i == k - 1
      <4>1. i \in 0..L-1 /\ i + 1 = k
        BY <3>2
      <4> HIDE DEF i
      <4>2. run[i + 1] = Regrouped(run[i], x[i + 1], w, n)
        BY ZenonT(60), <1>1, <4>1 DEF Runs
      <4>3. run[k] = Regrouped(run[i], x[k], w, n)
        BY ZenonT(60), <4>1, <4>2
      <4> QED BY ZenonT(60), <3>2, <4>3 DEF i
    <3> QED BY ZenonT(60), <3>1, <3>2
  <2>2. run = [k \in 0..L |-> run[k]]
    BY ZenonT(60), <1>1 DEF Runs
  <2>3. run = [k \in 0..L |-> IF k = 0 THEN Nothing ELSE Regrouped(run[k - 1], x[k], w, n)]
    BY ZenonT(60), <2>1, <2>2
  <2> QED BY ZenonT(60), <2>3 DEF Loops, Nothing
<1>2. ASSUME Loops(x, w, n, L, run) PROVE Runs(x, w, n, L, run)
  <2>1. run = [k \in 0..L |-> IF k = 0 THEN Nothing ELSE Regrouped(run[k - 1], x[k], w, n)]
    BY ZenonT(60), <1>2 DEF Loops, Nothing
  <2>2. /\ run = [k \in 0..L |-> run[k]]
        /\ \A k \in 0..L : run[k] = IF k = 0 THEN Nothing ELSE Regrouped(run[k - 1], x[k], w, n)
    BY ZenonT(60), <2>1
  <2>3. run[0] = Nothing
    BY <2>2
  <2>4. ASSUME NEW i \in 0..L-1 PROVE run[i + 1] = Regrouped(run[i], x[i + 1], w, n)
    <3>1. i + 1 \in 0..L /\ i + 1 # 0 /\ (i + 1) - 1 = i
      OBVIOUS
    <3>2. run[i + 1] = Regrouped(run[(i + 1) - 1], x[i + 1], w, n)
      BY ZenonT(60), <2>2, <3>1
    <3> QED BY ZenonT(60), <3>1, <3>2
  <2> QED BY ZenonT(60), <2>2, <2>3, <2>4 DEF Runs
<1> QED BY ZenonT(60), <1>1, <1>2

\* Regroup is where the loop stands at the end.
LEMMA RegroupRuns ==
  ASSUME NEW x, NEW w, NEW n, Len(x) \in Nat
  PROVE  \E run : Runs(x, w, n, Len(x), run) /\ Regroup(x, w, n) = run[Len(x)]
<1> DEFINE L == Len(x)
<1> DEFINE run == CHOOSE run : Loops(x, w, n, L, run)
<1>1. \E r : Loops(x, w, n, L, r)
  BY ZenonT(60), RunsExists, RunsLoops
<1>2. Loops(x, w, n, L, run)
  BY ZenonT(60), <1>1
<1>3. Regroup(x, w, n) = run[L]
  BY ZenonT(60) DEF Regroup, Loops
<1> HIDE DEF run
<1>4. Runs(x, w, n, L, run)
  BY ZenonT(60), <1>2, RunsLoops
<1> QED BY ZenonT(60), <1>3, <1>4

\* What the loop has given out when it is done.
LEMMA RegroupHolds ==
  ASSUME NEW x, NEW L \in Nat, NEW w \in Nat, NEW n \in Nat \ {0}, n + w - 1 <= AccBits,
         Symbols(x, L, w), NEW v, Spells(x, w, L, v)
  PROVE  Holds(Regroup(x, w, n), v[L], L * w, n)
<1>1. Len(x) = L
  BY ZenonT(60), Strings DEF Symbols
<1>2. PICK run : Runs(x, w, n, L, run) /\ Regroup(x, w, n) = run[L]
  BY ZenonT(60), <1>1, RegroupRuns
<1> DEFINE S == {k \in Nat : k <= L => Holds(run[k], v[k], k * w, n)}
<1>3. 0 \in S
  <2>1. run[0] = Nothing /\ v[0] = 0
    BY ZenonT(60), <1>2 DEF Runs, Spells
  <2>2. /\ Nothing.acc = 0 /\ Nothing.bits = 0 /\ Nothing.out = <<>> /\ 0 * w = 0 /\ 0 < n
        /\ Len(<<>>) = 0 /\ 0 * n + 0 = 0 /\ <<>> \in Seq(Nat) /\ 1..0 = {} /\ 0 \in Nat
    BY DEF Nothing
  <2>3. 0 % TwoTo(AccBits) = 0
    <3>1. AccBits \in Nat
      BY CodecBounds
    <3>2. TwoTo(AccBits) \in Nat \ {0}
      BY ZenonT(60), <3>1, TwoToNext
    <3> QED BY <3>2
  <2>4. Holds(Nothing, 0, 0, n)
    BY ZenonT(60), <2>2, <2>3 DEF Holds
  <2> QED BY ZenonT(60), <2>1, <2>2, <2>4
<1>4. ASSUME NEW k \in Nat, k \in S PROVE k + 1 \in S
  <2> SUFFICES ASSUME k + 1 <= L PROVE Holds(run[k + 1], v[k + 1], (k + 1) * w, n)
    OBVIOUS
  <2>1. k <= L /\ k \in 0..L-1 /\ k \in 0..L /\ k + 1 \in 1..L
    OBVIOUS
  <2>2. Holds(run[k], v[k], k * w, n)
    BY ZenonT(60), <1>4, <2>1
  <2>3. /\ run[k + 1] = Regrouped(run[k], x[k + 1], w, n)
        /\ v[k + 1] = Below(v[k], w, x[k + 1]) /\ v[k] \in Nat
        /\ x[k + 1] \in Nat /\ x[k + 1] < TwoTo(w)
    BY ZenonT(60), <1>2, <2>1 DEF Runs, Spells, Symbols
  <2>4. k * w \in Nat /\ (k + 1) * w = k * w + w
    OBVIOUS
  <2>5. Holds(Regrouped(run[k], x[k + 1], w, n), Below(v[k], w, x[k + 1]), k * w + w, n)
    BY ZenonT(60), <2>2, <2>3, <2>4, TurnHolds
  <2> QED BY ZenonT(60), <2>3, <2>4, <2>5
<1> HIDE DEF S
<1>5. \A k \in Nat : k \in S
  BY ZenonT(60), <1>3, <1>4, Induction
<1>6. L \in S /\ L <= L
  BY <1>5
<1>7. Holds(run[L], v[L], L * w, n)
  BY ZenonT(60), <1>6 DEF S
<1> QED BY ZenonT(60), <1>2, <1>7

(***************************************************************************)
(* Symbols and the number they spell.                                      *)
(***************************************************************************)
Leading(v, j, d, w) == v[j] = v[j + d] \div TwoTo(d * w)

\* Dividing the last symbols away leaves what the first ones spell.
LEMMA Prefixes ==
  ASSUME NEW x, NEW L \in Nat, NEW w \in Nat, Symbols(x, L, w), NEW v, Spells(x, w, L, v),
         NEW j \in 0..L
  PROVE  \A d \in Nat : j + d <= L => Leading(v, j, d, w)
<1> DEFINE S == {d \in Nat : j + d <= L => Leading(v, j, d, w)}
<1>1. 0 \in S
  <2>1. j + 0 = j /\ 0 * w = 0 /\ v[j] \in Nat
    BY DEF Spells
  <2>2. v[j] \div 1 = v[j]
    BY <2>1
  <2>3. Leading(v, j, 0, w)
    BY ZenonT(60), <2>1, <2>2, TwoToZero DEF Leading
  <2> QED BY ZenonT(60), <2>3
<1>2. ASSUME NEW d \in Nat, d \in S PROVE d + 1 \in S
  <2> SUFFICES ASSUME j + (d + 1) <= L PROVE Leading(v, j, d + 1, w)
    OBVIOUS
  <2> DEFINE k == j + d
  <2>1. /\ k \in 0..L-1 /\ k \in 0..L /\ k + 1 \in 1..L /\ j + (d + 1) = k + 1 /\ k <= L
        /\ d * w \in Nat /\ (d + 1) * w = w + d * w
    OBVIOUS
  <2>2. v[j] = v[k] \div TwoTo(d * w)
    BY ZenonT(60), <1>2, <2>1 DEF Leading
  <2> HIDE DEF k
  <2>3. /\ v[k + 1] = Below(v[k], w, x[k + 1]) /\ v[k] \in Nat
        /\ x[k + 1] \in Nat /\ x[k + 1] < TwoTo(w)
    BY ZenonT(60), <2>1 DEF Spells, Symbols
  <2>4. Lifts(v[k], w, x[k + 1], d * w)
    BY ZenonT(60), <2>1, <2>3, BelowDiv
  <2> QED BY ZenonT(60), <2>1, <2>2, <2>3, <2>4 DEF Leading, Lifts
<1> HIDE DEF S
<1>3. \A d \in Nat : d \in S
  BY ZenonT(60), <1>1, <1>2, Induction
<1> QED BY ZenonT(60), <1>3 DEF S

\* The number gives every symbol back.
DigitOf(x, v, L, w, j) == x[j] = Digit(v[L], (L - j) * w, w)

\* See DigitOf.
LEMMA SymbolIs ==
  ASSUME NEW x, NEW L \in Nat, NEW w \in Nat, Symbols(x, L, w), NEW v, Spells(x, w, L, v),
         NEW j \in 1..L
  PROVE  DigitOf(x, v, L, w, j)
<1> DEFINE i == j - 1 d == L - j
<1>1. i \in 0..L-1 /\ i \in 0..L /\ i + 1 = j /\ d \in Nat /\ j + d = L /\ j + d <= L /\ j \in 0..L
  OBVIOUS
<1> HIDE DEF i
<1>2. v[j] = Below(v[i], w, x[j]) /\ v[i] \in Nat /\ x[j] \in Nat /\ x[j] < TwoTo(w)
  BY ZenonT(60), <1>1 DEF Spells, Symbols
<1>3. v[j] % TwoTo(w) = x[j]
  <2>1. Below(v[i], w, x[j]) % TwoTo(w) = x[j]
    BY ZenonT(60), <1>2, BelowMod
  <2> QED BY ZenonT(60), <1>2, <2>1
<1>4. Leading(v, j, d, w)
  BY ZenonT(60), <1>1, Prefixes
<1>5. v[j] = v[L] \div TwoTo(d * w)
  BY ZenonT(60), <1>1, <1>4 DEF Leading
<1> QED BY ZenonT(60), <1>3, <1>5 DEF Digit, DigitOf

\* A number of L symbols of w bits has L * w bits.
LEMMA SpellsBound ==
  ASSUME NEW x, NEW L \in Nat, NEW w \in Nat, Symbols(x, L, w), NEW v, Spells(x, w, L, v)
  PROVE  v[L] \in Nat /\ v[L] < TwoTo(L * w)
<1>1. 0 \in 0..L /\ L \in 0..L /\ 0 + L = L /\ 0 + L <= L /\ L * w \in Nat
  OBVIOUS
<1>2. Leading(v, 0, L, w)
  BY ZenonT(60), <1>1, Prefixes
<1> DEFINE a == v[L] p == TwoTo(L * w)
<1>3. a \in Nat /\ 0 = a \div p /\ p \in Nat \ {0}
  <2>1. a \in Nat /\ v[0] = 0 /\ p \in Nat \ {0}
    BY ZenonT(60), <1>1, TwoToNext DEF Spells
  <2>2. v[0] = v[0 + L] \div TwoTo(L * w)
    BY ZenonT(60), <1>2 DEF Leading
  <2>3. v[0 + L] = a
    BY ZenonT(60), <1>1
  <2> HIDE DEF a
  <2>4. 0 = a \div p
    BY ZenonT(60), <2>1, <2>2, <2>3
  <2> QED BY ZenonT(60), <2>1, <2>4
<1>4. Splits(a, p, a \div p, a % p)
  BY ZenonT(60), <1>3, DivMod
<1> HIDE DEF a, p
<1>5. a < p
  BY <1>3, <1>4 DEF Splits
<1> QED BY ZenonT(60), <1>3, <1>5 DEF a, p

\* The digits of a number spell it.
LEMMA DigitsSpell ==
  ASSUME NEW x, NEW L \in Nat, NEW w \in Nat, NEW a \in Nat, a < TwoTo(L * w),
         \A j \in 1..L : x[j] = Digit(a, (L - j) * w, w), NEW v, Spells(x, w, L, v)
  PROVE  v[L] = a
<1> DEFINE S == {k \in Nat : k <= L => v[k] = a \div TwoTo((L - k) * w)}
<1>1. 0 \in S
  <2> DEFINE p == TwoTo(L * w)
  <2>1. L - 0 = L /\ L * w \in Nat
    OBVIOUS
  <2>2. p \in Nat \ {0} /\ a < p
    BY ZenonT(60), <2>1, TwoToNext
  <2> HIDE DEF p
  <2>3. Splits(a, p, 0, a)
    BY <2>2 DEF Splits
  <2>4. a \div p = 0
    BY ZenonT(60), <2>2, <2>3, Unique
  <2>5. v[0] = 0
    BY ZenonT(60) DEF Spells
  <2> QED BY ZenonT(60), <2>1, <2>4, <2>5 DEF p
<1>2. ASSUME NEW k \in Nat, k \in S PROVE k + 1 \in S
  <2> SUFFICES ASSUME k + 1 <= L PROVE v[k + 1] = a \div TwoTo((L - (k + 1)) * w)
    OBVIOUS
  <2> DEFINE j == k + 1 e == (L - j) * w
  <2>1. /\ k <= L /\ k \in 0..L-1 /\ j \in 1..L /\ e \in Nat
        /\ (L - k) * w = e + w
    <3> DEFINE d == L - j
    <3>1. d \in Nat /\ L - k = d + 1
      OBVIOUS
    <3> HIDE DEF d
    <3>2. d * w \in Nat /\ (d + 1) * w = d * w + w
      BY <3>1
    <3>3. e = d * w
      BY ZenonT(60) DEF d
    <3>4. k <= L /\ k \in 0..L-1 /\ j \in 1..L
      OBVIOUS
    <3> HIDE DEF e, j
    <3> QED BY ZenonT(60), <3>1, <3>2, <3>3, <3>4
  <2>2. v[k] = a \div TwoTo(e + w)
    BY ZenonT(60), <1>2, <2>1
  <2>3. v[j] = Below(v[k], w, x[j]) /\ x[j] = Digit(a, e, w)
    BY ZenonT(60), <2>1 DEF Spells
  <2> HIDE DEF e, j
  <2> DEFINE p == TwoTo(e) q == TwoTo(w) b == a \div p
  <2>4. p \in Nat \ {0} /\ q \in Nat \ {0} /\ TwoTo(e + w) = p * q
    BY ZenonT(60), <2>1, TwoToNext, TwoToSum
  <2>5. v[j] = q * v[k] + (b % q)
    BY ZenonT(60), <2>3 DEF Below, Digit
  <2> HIDE DEF p, q
  <2>6. b \in Nat /\ b \div q = a \div (p * q)
    BY ZenonT(60), <2>4, DivDiv, DivMod DEF Splits
  <2>7. v[k] = b \div q
    BY ZenonT(60), <2>2, <2>4, <2>6
  <2> HIDE DEF b
  <2>8. Splits(b, q, b \div q, b % q)
    BY ZenonT(60), <2>4, <2>6, DivMod
  <2>9. v[j] = b
    BY ZenonT(60), <2>5, <2>7, <2>8 DEF Splits
  <2> QED BY ZenonT(60), <2>9 DEF b, p, e, j
<1> HIDE DEF S
<1>3. \A k \in Nat : k \in S
  BY ZenonT(60), <1>1, <1>2, Induction
<1>4. L \in S /\ L <= L /\ (L - L) * w = 0 /\ a \div 1 = a
  BY <1>3
<1> QED BY ZenonT(60), <1>4, TwoToZero DEF S

(***************************************************************************)
(* Base32.                                                                 *)
(***************************************************************************)
\* `text` is the number a in T characters.
Written(text, a, T) ==
  /\ text \in Seq(Nat) /\ Len(text) = T
  /\ \A j \in 1..T : text[j] = Digit(a, (T - j) * CharBits, CharBits)

\* pad bits are missing in T characters of an ID.
Padded(T, pad) ==
  /\ T \in Nat /\ pad \in Nat /\ pad < CharBits
  /\ T * CharBits = IdBytes * ByteBits + pad

\* What the assumptions on the widths say: the accumulator holds a byte and a
\* character less one bit.
LEMMA IdWidths ==
  /\ ByteBits \in Nat \ {0} /\ CharBits \in Nat \ {0} /\ AccBits \in Nat /\ IdBytes \in Nat
  /\ CharBits <= ByteBits
  /\ CharBits + ByteBits - 1 <= AccBits /\ ByteBits + CharBits - 1 <= AccBits
BY CodecBounds

\* The padded last character of to_base32, taken from an accumulator that has
\* lost its upper bits.
LEMMA LastCharacter ==
  ASSUME NEW v \in Nat, NEW acc, acc = v % TwoTo(AccBits), NEW pad \in Nat
  PROVE  Shifted(acc, pad) % TwoTo(CharBits) = Digit(Below(v, pad, 0), 0, CharBits)
<1> DEFINE m == TwoTo(AccBits) p == TwoTo(pad) y == ((v % m) * p) % m u == Below(v, pad, 0)
<1>1. m \in Nat \ {0} /\ p \in Nat
  BY ZenonT(60), IdWidths, TwoToNext
<1>2. Shifted(acc, pad) = y
  BY ZenonT(60) DEF Shifted
<1>3. 0 \in Nat
  OBVIOUS
<1>4. u \in Nat
  BY ZenonT(60), <1>3, BelowType
<1>5. y = u % m
  <2>1. Shifts(v, m, p, 0)
    BY ZenonT(60), <1>1, <1>3, ModShift
  <2>2. (y + 0) % m = u % m
    BY ZenonT(60), <2>1 DEF Shifts, Below
  <2> DEFINE z == (v % m) * p
  <2>3. z \in Nat
    <3>1. v % m \in Nat
      BY ZenonT(60), <1>1, DivMod DEF Splits
    <3> HIDE DEF m, p
    <3> QED BY <1>1, <3>1
  <2> HIDE DEF m, z
  <2>4. Splits(z, m, z \div m, y)
    BY ZenonT(60), <1>1, <2>3, DivMod DEF z
  <2> HIDE DEF y
  <2>5. y \in Nat /\ y < m /\ y + 0 = y
    BY <2>4 DEF Splits
  <2>6. y % m = y
    BY <1>1, <2>5
  <2> QED BY ZenonT(60), <2>2, <2>5, <2>6
<1>6. DigitKept(u, AccBits, 0, CharBits)
  <2>1. 0 + CharBits <= AccBits /\ CharBits \in Nat
    BY IdWidths
  <2> HIDE DEF u
  <2> QED BY ZenonT(60), <1>3, <1>4, <2>1, IdWidths, ModDigit
<1> HIDE DEF u
<1>7. Digit(u % m, 0, CharBits) = (u % m) % TwoTo(CharBits)
  <2> DEFINE r == u % m
  <2>1. r \in Nat
    BY ZenonT(60), <1>1, <1>4, DivMod DEF Splits
  <2> HIDE DEF r
  <2>2. r \div 1 = r
    BY <2>1
  <2>3. Digit(r, 0, CharBits) = r % TwoTo(CharBits)
    BY ZenonT(60), <2>2, TwoToZero DEF Digit
  <2> QED BY ZenonT(60), <2>3 DEF r
<1>8. (u % m) % TwoTo(CharBits) = Digit(u, 0, CharBits)
  BY ZenonT(60), <1>6, <1>7 DEF DigitKept
<1>9. Shifted(acc, pad) % TwoTo(CharBits) = Digit(u, 0, CharBits)
  BY ZenonT(60), <1>2, <1>5, <1>8
<1> QED BY ZenonT(60), <1>9 DEF u

\* The text of an ID is its number with the padding below, in characters.
LEMMA TextWritten ==
  ASSUME NEW id, Symbols(id, IdBytes, ByteBits), NEW v, Spells(id, ByteBits, IdBytes, v)
  PROVE  \E T, pad : Padded(T, pad) /\ Written(ToBase32(id), Below(v[IdBytes], pad, 0), T)
<1> DEFINE s == Regroup(id, ByteBits, CharBits) q == s.out l == Len(q) b == s.bits a == v[IdBytes]
           c == CharBits total == IdBytes * ByteBits
<1>1. Holds(s, a, total, c)
  BY ZenonT(60), IdWidths, RegroupHolds
<1>2. /\ s.acc = a % TwoTo(AccBits) /\ b \in Nat /\ b < c /\ q \in Seq(Nat) /\ l * c + b = total
      /\ \A j \in 1..l : q[j] = Digit(a, total - j * c, c)
  BY ZenonT(60), <1>1 DEF Holds
<1>3. a \in Nat
  BY ZenonT(60), IdWidths, SpellsBound
<1>4. c \in Nat \ {0} /\ total \in Nat
  BY IdWidths
<1>5. l \in Nat
  <2> HIDE DEF q
  <2> QED BY <1>2
<1>6. ToBase32(id) = IF b = 0 THEN q ELSE Append(q, Shifted(s.acc, c - b) % TwoTo(c))
  BY ZenonT(60) DEF ToBase32
<1> HIDE DEF s, q, l, b, a, total, c
<1>7. CASE b = 0
  <2>1. Padded(l, 0) /\ l * c = total
    <3>1. l * c = total /\ 0 \in Nat /\ 0 < c /\ total + 0 = total
      BY <1>2, <1>4, <1>5, <1>7
    <3> QED BY ZenonT(60), <1>5, <3>1 DEF Padded, c, total
  <2>2. Below(a, 0, 0) = a
    <3>1. 1 * a + 0 = a
      BY <1>3
    <3> QED BY ZenonT(60), <3>1, TwoToZero DEF Below
  <2>3. ASSUME NEW j \in 1..l PROVE q[j] = Digit(a, (l - j) * c, c)
    <3>1. (l - j) * c = l * c - j * c
      BY <1>4, <1>5
    <3> QED BY ZenonT(60), <1>2, <2>1, <3>1
  <2>4. Written(q, a, l)
    BY ZenonT(60), <1>2, <2>3 DEF Written, l, c
  <2>5. Written(ToBase32(id), Below(v[IdBytes], 0, 0), l)
    BY ZenonT(60), <1>6, <1>7, <2>2, <2>4 DEF a
  <2> QED BY ZenonT(60), <2>1, <2>5
<1>8. CASE b # 0
  <2> DEFINE pad == c - b last == Shifted(s.acc, pad) % TwoTo(c) u == Below(a, pad, 0) T == l + 1
             text == Append(q, last)
  <2>1. pad \in Nat /\ pad < c /\ b + pad = c
    BY <1>2, <1>4, <1>8
  <2>2. T \in Nat /\ T * c = total + pad
    <3>1. T * c = l * c + c /\ l * c \in Nat
      BY <1>4, <1>5
    <3> HIDE DEF pad
    <3>2. l * c + c = total + pad
      <4> DEFINE lc == l * c
      <4>1. lc \in Nat /\ lc + b = total
        BY ZenonT(60), <1>2, <3>1
      <4> HIDE DEF lc
      <4>2. lc + c = total + pad
        BY <1>2, <1>4, <2>1, <4>1
      <4> QED BY ZenonT(60), <4>2 DEF lc
    <3>3. T \in Nat
      BY <1>5
    <3> HIDE DEF T
    <3> QED BY ZenonT(60), <3>1, <3>2, <3>3
  <2>3. Padded(T, pad)
    BY ZenonT(60), <2>1, <2>2 DEF Padded, c, total
  <2> HIDE DEF pad
  <2>4. last = Digit(u, 0, c)
    BY ZenonT(60), <1>2, <1>3, <2>1, LastCharacter DEF c
  <2>5. 0 \in Nat /\ 0 < TwoTo(pad) /\ u \in Nat
    <3>1. 0 \in Nat
      OBVIOUS
    <3>2. TwoTo(pad) \in Nat \ {0}
      BY ZenonT(60), <2>1, TwoToNext
    <3>3. 0 < TwoTo(pad)
      BY <3>2
    <3>4. u \in Nat
      BY ZenonT(60), <1>3, <2>1, <3>1, BelowType
    <3> QED BY ZenonT(60), <3>1, <3>3, <3>4
  <2>6. last \in Nat
    <3> HIDE DEF u, last
    <3>1. Digit(u, 0, c) \in Nat
      BY ZenonT(60), <1>4, <2>5, DigitType
    <3> QED BY ZenonT(60), <2>4, <3>1
  <2> HIDE DEF last
  <2>7. /\ text \in Seq(Nat) /\ Len(text) = T /\ text[T] = last
        /\ \A j \in 1..l : text[j] = q[j]
    BY <1>2, <1>5, <2>6 DEF l
  <2>8. ASSUME NEW j \in 1..T PROVE text[j] = Digit(u, (T - j) * c, c)
    <3>1. CASE j = T
      <4>1. T - T = 0 /\ 0 * c = 0
        BY <1>4, <2>2
      <4> HIDE DEF text, u, T
      <4>2. (T - j) * c = 0
        BY ZenonT(60), <3>1, <4>1
      <4> QED BY ZenonT(60), <2>4, <2>7, <3>1, <4>2
    <3>2. CASE j # T
      <4> DEFINE e == total - j * c
      <4>1. j \in 1..l /\ j \in Nat /\ j <= l
        BY <1>5, <3>2
      <4>2. j * c \in Nat /\ j * c <= l * c /\ l * c \in Nat
        BY ZenonT(60), <1>4, <1>5, <4>1, Times
      <4>3. e \in Nat
        BY <1>2, <1>4, <4>2
      <4>4. (T - j) * c = T * c - j * c
        BY <1>4, <1>5, <4>1
      <4>5. (total + pad) - j * c = pad + e
        BY <1>4, <2>1, <4>2
      <4>6. text[j] = Digit(a, e, c)
        BY ZenonT(60), <1>2, <2>7, <4>1
      <4> HIDE DEF e, text
      <4>7. DigitLifts(a, pad, 0, e, c)
        BY ZenonT(60), <1>3, <2>1, <2>5, <4>3, BelowDigit
      <4>8. Digit(u, pad + e, c) = text[j]
        BY ZenonT(60), <4>6, <4>7 DEF DigitLifts
      <4> HIDE DEF u, T
      <4> QED BY ZenonT(60), <2>2, <4>4, <4>5, <4>8
    <3> QED BY ZenonT(60), <3>1, <3>2
  <2>9. Written(text, u, T)
    <3> HIDE DEF text, u, T
    <3> QED BY ZenonT(60), <2>7, <2>8 DEF Written, c
  <2>10. ToBase32(id) = text
    BY ZenonT(60), <1>6, <1>8 DEF last, pad
  <2>11. Written(ToBase32(id), Below(v[IdBytes], pad, 0), T)
    BY ZenonT(60), <2>9, <2>10 DEF a
  <2> HIDE DEF T, text, u
  <2> QED BY ZenonT(60), <2>3, <2>11
<1> QED BY ZenonT(60), <1>7, <1>8

\* The length from_base32 asks for is the one to_base32 writes.
LEMMA TextLengthIs ==
  ASSUME NEW T, NEW pad, Padded(T, pad) PROVE TextLength = T
<1> DEFINE c == CharBits total == IdBytes * ByteBits r == (c - 1) - pad y == total + (c - 1)
<1>1. /\ c \in Nat \ {0} /\ total \in Nat /\ T \in Nat /\ pad \in Nat /\ pad < c
      /\ T * c = total + pad
  BY IdWidths DEF Padded
<1>2. c * T = T * c
  BY <1>1
<1>3. TextLength = y \div c
  BY DEF TextLength
<1> HIDE DEF c, total
<1>4. r \in Nat /\ r < c /\ y = (total + pad) + r
  BY <1>1
<1>5. Splits(y, c, T, r)
  <2> HIDE DEF r, y
  <2> QED BY ZenonT(60), <1>1, <1>2, <1>4 DEF Splits
<1>6. y \div c = T
  <2> HIDE DEF r, y
  <2> QED BY ZenonT(60), <1>1, <1>5, Unique
<1> QED BY ZenonT(60), <1>3, <1>6

\* Written characters are symbols, and spell the number that was written.
LEMMA WrittenSpells ==
  ASSUME NEW text, NEW a \in Nat, NEW T \in Nat, Written(text, a, T), a < TwoTo(T * CharBits)
  PROVE  /\ Symbols(text, T, CharBits)
         /\ \A u : Spells(text, CharBits, T, u) => u[T] = a
<1>1. text \in [1..T -> Nat]
  BY DEF Written
<1>2. \A j \in 1..T : text[j] = Digit(a, (T - j) * CharBits, CharBits)
  BY ZenonT(60) DEF Written
<1>3. ASSUME NEW j \in 1..T PROVE text[j] < TwoTo(CharBits)
  <2> DEFINE e == (T - j) * CharBits p == TwoTo(e) q == TwoTo(CharBits) d == a \div p
  <2>1. e \in Nat /\ CharBits \in Nat
    BY IdWidths
  <2>2. p \in Nat \ {0} /\ q \in Nat \ {0}
    BY ZenonT(60), <2>1, TwoToNext
  <2>3. d \in Nat
    BY ZenonT(60), <2>2, DivMod DEF Splits
  <2>4. text[j] = d % q
    BY ZenonT(60), <1>2 DEF Digit
  <2> HIDE DEF d, q
  <2>5. d % q < q
    BY ZenonT(60), <2>2, <2>3, DivMod DEF Splits
  <2> QED BY ZenonT(60), <2>4, <2>5 DEF q
<1>4. ASSUME NEW u, Spells(text, CharBits, T, u) PROVE u[T] = a
  BY ZenonT(60), <1>2, <1>4, IdWidths, DigitsSpell
<1> QED BY ZenonT(60), <1>1, <1>3, <1>4 DEF Symbols

\* from_base32 gives the ID back whose text it reads.
LEMMA TextReads ==
  ASSUME NEW id, Symbols(id, IdBytes, ByteBits)
  PROVE  /\ Len(ToBase32(id)) = TextLength
         /\ Regroup(ToBase32(id), CharBits, ByteBits).out = id
<1>1. PICK v : Spells(id, ByteBits, IdBytes, v)
  BY ZenonT(60), IdWidths, SpellsExists
<1> DEFINE text == ToBase32(id) L == IdBytes b == ByteBits c == CharBits total == L * b a == v[L]
<1>2. PICK T, pad : Padded(T, pad) /\ Written(text, Below(a, pad, 0), T)
  BY ZenonT(60), <1>1, TextWritten
<1> DEFINE u == Below(a, pad, 0)
<1>3. T \in Nat /\ pad \in Nat /\ pad < c /\ T * c = total + pad
  BY ZenonT(60), <1>2 DEF Padded
<1>4. b \in Nat \ {0} /\ c \in Nat \ {0} /\ L \in Nat /\ c <= b
  BY ZenonT(60), IdWidths
<1>5. a \in Nat /\ a < TwoTo(total)
  BY ZenonT(60), <1>1, IdWidths, SpellsBound
<1>6. total \in Nat
  <2> HIDE DEF L, b
  <2> QED BY <1>4
<1>7. Len(text) = T /\ T = TextLength
  BY ZenonT(60), <1>2, TextLengthIs DEF Written
<1> DEFINE s == Regroup(text, c, b) q == s.out l == Len(q)
<1> HIDE DEF text, a, total, L, b, c
<1>8. u \in Nat /\ u < TwoTo(T * c) /\ 0 \in Nat /\ 0 < TwoTo(pad)
  <2> DEFINE p == TwoTo(pad) m == TwoTo(total)
  <2>1. p \in Nat \ {0} /\ m \in Nat \ {0} /\ TwoTo(total + pad) = m * p /\ a < m
    BY ZenonT(60), <1>3, <1>5, <1>6, TwoToNext, TwoToSum
  <2>2. u = p * a + 0
    BY ZenonT(60) DEF Below
  <2> HIDE DEF p, m, u
  <2>3. p * a < p * m /\ p * a \in Nat /\ p * m = m * p /\ 0 < p
    BY <1>5, <2>1
  <2>4. u \in Nat /\ u < m * p
    BY <2>2, <2>3
  <2>5. 0 \in Nat
    OBVIOUS
  <2> QED BY ZenonT(60), <1>3, <2>1, <2>3, <2>4, <2>5 DEF p
<1>9. Symbols(text, T, c) /\ \A w : Spells(text, c, T, w) => w[T] = u
  <2> HIDE DEF u
  <2>1. Written(text, u, T)
    BY ZenonT(60), <1>2 DEF u
  <2> QED BY ZenonT(60), <1>3, <1>8, <2>1, WrittenSpells DEF c
<1>10. PICK w : Spells(text, c, T, w)
  BY ZenonT(60), <1>3, <1>4, <1>9, SpellsExists
<1>11. Holds(s, u, T * c, b)
  <2>1. Holds(s, w[T], T * c, b)
    <3>1. b + c - 1 <= AccBits
      BY IdWidths DEF b, c
    <3> QED BY ZenonT(60), <1>3, <1>4, <1>9, <1>10, <3>1, RegroupHolds
  <2>2. w[T] = u
    BY ZenonT(60), <1>9, <1>10
  <2> HIDE DEF u
  <2> QED BY ZenonT(60), <2>1, <2>2
<1> HIDE DEF s
<1>12. s.bits \in Nat /\ s.bits < b /\ q \in Seq(Nat) /\ l * b + s.bits = T * c
  BY ZenonT(60), <1>11 DEF Holds
<1>13. \A j \in 1..l : q[j] = Digit(u, T * c - j * b, b)
  BY ZenonT(60), <1>11 DEF Holds
<1> HIDE DEF q
<1>14. l \in Nat
  BY <1>12
<1> HIDE DEF l
<1>15. l = L
  <2> DEFINE y == T * c r == s.bits
  <2>1. b * l = l * b /\ b * L = total /\ b * l \in Nat
    BY <1>4, <1>14 DEF total
  <2>2. y = b * l + r /\ y = b * L + pad /\ y \in Nat
    BY <1>3, <1>6, <1>12, <2>1
  <2>3. r \in Nat /\ r < b /\ pad < b
    BY <1>3, <1>4, <1>12
  <2> HIDE DEF y, r
  <2>4. Splits(y, b, l, r) /\ Splits(y, b, L, pad)
    BY ZenonT(60), <1>3, <1>4, <1>14, <2>2, <2>3 DEF Splits
  <2>5. y \div b = l
    BY ZenonT(60), <1>4, <2>4, Unique
  <2>6. y \div b = L
    BY ZenonT(60), <1>4, <2>4, Unique
  <2> QED BY ZenonT(60), <2>5, <2>6
<1>16. ASSUME NEW j \in 1..L PROVE q[j] = id[j]
  <2> DEFINE e == (L - j) * b
  <2>1. j \in Nat /\ j <= L /\ L - j \in Nat
    BY <1>4
  <2>2. e \in Nat /\ e = total - j * b /\ j * b \in Nat
    BY <1>4, <2>1 DEF total
  <2> HIDE DEF e
  <2>3. T * c - j * b = pad + e
    <3> DEFINE y == T * c z == j * b
    <3>1. y = total + pad /\ e = total - z /\ z \in Nat
      BY ZenonT(60), <1>3, <2>2
    <3> HIDE DEF y, z
    <3>2. y - z = pad + e
      BY <1>3, <1>6, <3>1
    <3> QED BY ZenonT(60), <3>2 DEF y, z
  <2>4. DigitLifts(a, pad, 0, e, b)
    BY ZenonT(60), <1>3, <1>5, <1>8, <2>2, BelowDigit
  <2>5. q[j] = Digit(a, e, b)
    BY ZenonT(60), <1>13, <1>15, <2>3, <2>4 DEF DigitLifts
  <2>6. id[j] = Digit(a, e, b)
    <3>1. j \in 1..IdBytes
      BY ZenonT(60) DEF L
    <3>2. DigitOf(id, v, IdBytes, ByteBits, j)
      BY ZenonT(60), <1>1, <3>1, IdWidths, SymbolIs
    <3> QED BY ZenonT(60), <3>2 DEF a, L, b, e, DigitOf
  <2> QED BY ZenonT(60), <2>5, <2>6
<1>17. q = id
  <2>1. id \in Seq(Nat) /\ Len(id) = L
    BY ZenonT(60), <1>4, Strings DEF Symbols, L
  <2>2. Len(q) = L
    BY ZenonT(60), <1>15 DEF l
  <2> QED BY ZenonT(60), <1>12, <1>16, <2>1, <2>2, Same
<1> QED BY ZenonT(60), <1>7, <1>17 DEF text, s, q, c, b

\* from_base32 undoes to_base32.
LEMMA IdReads ==
  ASSUME NEW id \in [1..IdBytes -> 0..TwoTo(ByteBits) - 1]
  PROVE  FromBase32(ToBase32(id)) = {id}
<1> DEFINE text == ToBase32(id) q == Regroup(text, CharBits, ByteBits).out
<1>1. Symbols(id, IdBytes, ByteBits)
  <2>1. TwoTo(ByteBits) \in Nat
    BY ZenonT(60), IdWidths, TwoToNext
  <2> QED BY <2>1 DEF Symbols
<1>2. Len(text) = TextLength /\ q = id
  BY ZenonT(60), <1>1, TextReads
<1>3. Len(id) = IdBytes
  BY ZenonT(60), IdWidths, Strings
<1>4. FromBase32(text) = {x \in {q} : Len(x) = IdBytes /\ ToBase32(x) = text}
  BY ZenonT(60), <1>2 DEF FromBase32
<1>5. id \in {x \in {q} : Len(x) = IdBytes /\ ToBase32(x) = text}
  BY ZenonT(60), <1>2, <1>3
<1>6. \A x \in {x \in {q} : Len(x) = IdBytes /\ ToBase32(x) = text} : x = id
  BY ZenonT(60), <1>2
<1> HIDE DEF text, q
<1>7. FromBase32(text) = {id}
  BY ZenonT(60), <1>4, <1>5, <1>6
<1> QED BY ZenonT(60), <1>7 DEF text

\* from_base32 accepts no text but the one to_base32 writes.
LEMMA SpellingReads ==
  ASSUME NEW text, NEW id \in FromBase32(text) PROVE ToBase32(id) = text
BY ZenonT(60) DEF FromBase32

\* The text of every ID reads back as that ID, and a text that is read is the
\* one that its ID is written as.
LEMMA IdsHold == ASSUME FormatsInit PROVE IdsCanonical
<1>1. ASSUME item.part = "id" PROVE FromBase32(ToBase32(item.id)) = {item.id}
  <2> DEFINE id == item.id
  <2>1. id \in [1..IdBytes -> 0..TwoTo(ByteBits) - 1]
    BY ZenonT(60), <1>1, Parts
  <2> HIDE DEF id
  <2>2. FromBase32(ToBase32(id)) = {id}
    BY ZenonT(60), <2>1, IdReads
  <2> QED BY ZenonT(60), <2>2 DEF id
<1>2. \A id \in FromBase32(item.text) : ToBase32(id) = item.text
  BY ZenonT(60), SpellingReads
<1> QED BY ZenonT(60), <1>1, <1>2 DEF IdsCanonical

(***************************************************************************)
(* HTTP exchanges.                                                         *)
(***************************************************************************)
\* What every row of the allowlist is.
RowOk(row) ==
  /\ row.body \in {"json", "octets", "empty"} /\ row.maxBody \in Nat
  /\ row.body = "empty" => row.maxBody = 0
  /\ row.auth \in BOOLEAN /\ row.maxResponse \in Nat
  /\ row.response \in {"upload", "delete"} => row.maxResponse = MaxBody
  /\ row.response = "download" => row.maxResponse = MaxBlob
  /\ row.response = "receipt" => row.maxResponse = Receipt

\* The limits are numbers.
LEMMA Limited ==
  /\ MaxBody \in Nat /\ MaxJson \in Nat /\ MaxEnvelope \in Nat /\ MaxFetch \in Nat
  /\ MaxWitness \in Nat /\ Receipt \in Nat /\ MaxBlob \in Nat /\ MaxDiscarded \in Nat /\ 0 \in Nat
BY HttpBounds

\* A row made of a kind of body and its limits is well formed.
LEMMA RowIsOk ==
  ASSUME NEW body \in {"json", "octets", "empty"}, NEW maxBody \in Nat, NEW auth \in BOOLEAN,
         NEW response, NEW maxResponse \in Nat,
         body = "empty" => maxBody = 0,
         response \in {"upload", "delete"} => maxResponse = MaxBody,
         response = "download" => maxResponse = MaxBlob,
         response = "receipt" => maxResponse = Receipt,
         NEW row \in Row(body, maxBody, auth, response, maxResponse)
  PROVE  RowOk(row)
<1>1. row = [body |-> body, maxBody |-> maxBody, auth |-> auth, response |-> response,
             maxResponse |-> maxResponse]
  BY ZenonT(60) DEF Row
<1>2. /\ row.body = body /\ row.maxBody = maxBody /\ row.auth = auth
      /\ row.response = response /\ row.maxResponse = maxResponse
  BY <1>1
<1> QED BY ZenonT(60), <1>2 DEF RowOk

\* The blob routes' rows are.
LEMMA BlobRows ==
  ASSUME NEW method, NEW path, NEW row \in BlobRoute(method, path) PROVE RowOk(row)
<1>1. \/ row \in Row("octets", MaxBlob, TRUE, "upload", MaxBody)
      \/ row \in Row("empty", 0, FALSE, "download", MaxBlob)
      \/ row \in Row("empty", 0, TRUE, "delete", MaxBody)
  BY ZenonT(60) DEF BlobRoute
<1> QED BY ZenonT(60), <1>1, Limited, RowIsOk

\* The vault routes' rows are.
LEMMA VmlsRows ==
  ASSUME NEW method, NEW path, NEW row \in Vmls(method, path) PROVE RowOk(row)
<1>1. \E body \in {"json", "octets", "empty"}, most \in {MaxBody, MaxFetch} : row \in VmlsRoute(body, most)
  <2> SUFFICES ASSUME \A body \in {"json", "octets", "empty"}, most \in {MaxBody, MaxFetch} :
                        row \notin VmlsRoute(body, most)
               PROVE  FALSE
    BY ZenonT(60)
  <2> QED BY DEF Vmls
<1>2. PICK body \in {"json", "octets", "empty"}, most \in {MaxBody, MaxFetch} : row \in VmlsRoute(body, most)
  BY ZenonT(60), <1>1
<1>3. VmlsBody[body] \in Nat /\ (body = "empty" => VmlsBody[body] = 0) /\ most \in Nat
  BY Limited DEF VmlsBody
<1>4. row \in Row(body, VmlsBody[body], TRUE, "json or empty", most)
  BY ZenonT(60), <1>2 DEF VmlsRoute
<1> QED BY ZenonT(60), <1>3, <1>4, RowIsOk

\* Every row of the allowlist is.
LEMMA Rows ==
  ASSUME NEW method, NEW path, NEW row \in Allowlisted(method, path) PROVE RowOk(row)
<1>1. \/ row \in BlobRoute(method, path) \/ row \in Vmls(method, path)
      \/ row \in Row("json", MaxBody, TRUE, "json", MaxBody)
      \/ row \in Row("octets", MaxWitness, FALSE, "receipt", Receipt)
  BY ZenonT(60) DEF Allowlisted
<1>2. \/ row \in Row("json", MaxBody, TRUE, "json", MaxBody)
      \/ row \in Row("octets", MaxWitness, FALSE, "receipt", Receipt)
      => RowOk(row)
  BY ZenonT(60), Limited, RowIsOk
<1> QED BY ZenonT(60), <1>1, <1>2, BlobRows, VmlsRows

\* What leaves for an accepted request is within its row.
LEMMA RequestBounded ==
  ASSUME NEW r, r.bytes \in Nat, NEW row \in Validate(r)
  PROVE  LET out == Outgoing(r, row) IN
         /\ out.bytes <= row.maxBody /\ (out.type = "none" => out.bytes = 0)
         /\ out.auth = r.auth /\ (out.auth = "nostr" <=> row.auth)
         /\ out.digest => out.bytes > 0
<1>1. /\ row \in Allowlisted(r.method, r.path) /\ r.bytes <= row.maxBody
      /\ r.auth = IF row.auth THEN "nostr" ELSE "none"
      /\ row.response = "upload" => r.bytes > 0
  BY ZenonT(60) DEF Validate
<1>2. RowOk(row)
  BY ZenonT(60), <1>1, Rows
<1> DEFINE out == Outgoing(r, row)
<1>3. /\ out.bytes = r.bytes /\ out.auth = IF row.auth THEN r.auth ELSE "none"
      /\ out.digest = (row.body = "octets" /\ row.response = "upload")
      /\ out.type = CASE row.body = "json" -> "json" [] row.body = "octets" -> "octets"
                      [] row.body = "empty" -> "none"
  BY ZenonT(60) DEF Outgoing
<1> HIDE DEF out
<1>4. out.type = "none" => row.body = "empty"
  BY <1>2, <1>3 DEF RowOk
<1>5. out.type = "none" => out.bytes = 0
  BY <1>1, <1>2, <1>3, <1>4 DEF RowOk
<1>6. out.auth = r.auth /\ (out.auth = "nostr" <=> row.auth)
  BY <1>1, <1>2, <1>3 DEF RowOk
<1>7. out.digest => out.bytes > 0
  BY ZenonT(60), <1>1, <1>3
<1>8. out.bytes <= row.maxBody
  BY ZenonT(60), <1>1, <1>3
<1> QED BY ZenonT(60), <1>5, <1>6, <1>7, <1>8 DEF out

AnswerOk(answer, response, row) ==
  /\ answer.bytes <= row.maxResponse
  /\ row.response = "download" /\ answer.bytes > 0 =>
       response.digest /\ answer.bytes = response.length.n /\ answer.status = "ok"
  /\ row.response = "receipt" => answer.bytes \in {0, Receipt}
  /\ WitnessRefusal(response, row) => answer.bytes = 0
  /\ answer.bytes > 0 /\ ~Success(response) => response.type \in {"json", "octets"}

\* An answer has the status of its response, and bytes of those collected.
LEMMA AnswerIs ==
  ASSUME NEW r, NEW bytes, NEW answer \in Answer(r, bytes)
  PROVE  answer.status = r.status /\ answer.bytes \in bytes
<1>1. PICK n \in bytes : answer = [status |-> r.status, bytes |-> n]
  BY ZenonT(60) DEF Answer
<1> QED BY <1>1

\* Bounded collection gives everything or nothing.
LEMMA Collected ==
  ASSUME NEW r, r.bytes \in Nat, NEW limit \in Nat, NEW n \in Collect(r, limit)
  PROVE  n = r.bytes /\ n \in Nat /\ n <= limit
BY DEF Collect

\* A discarded body leaves an empty answer.
LEMMA DiscardedOk ==
  ASSUME NEW r, NEW row, RowOk(row), NEW answer \in Discarded(r)
  PROVE  AnswerOk(answer, r, row)
<1>1. answer = [status |-> r.status, bytes |-> 0]
  BY ZenonT(60) DEF Discarded
<1>2. answer.bytes = 0
  BY <1>1
<1>3. answer.bytes <= row.maxResponse /\ ~(answer.bytes > 0)
  BY <1>2 DEF RowOk
<1> QED BY ZenonT(60), <1>2, <1>3 DEF AnswerOk

\* A download that is answered has its length and its digest.
LEMMA DownloadOk ==
  ASSUME NEW r, r.bytes \in Nat, r.length.n \in Nat, NEW row, RowOk(row), row.response = "download",
         Success(r), r.status = "ok", NEW answer \in DecodeDownload(r)
  PROVE  AnswerOk(answer, r, row)
<1> DEFINE got == {n \in Collect(r, r.length.n) : n = r.length.n /\ r.digest}
<1>1. r.length.n <= MaxBlob /\ answer \in Answer(r, got)
  BY ZenonT(60) DEF DecodeDownload
<1>2. answer.status = r.status /\ answer.bytes \in got
  <2> HIDE DEF got
  <2> QED BY ZenonT(60), <1>1, AnswerIs
<1>3. answer.bytes = r.length.n /\ r.digest
  BY ZenonT(60), <1>2
<1>4. row.response \notin {"receipt"} /\ row.maxResponse = MaxBlob
  BY ZenonT(60) DEF RowOk
<1>5. ~WitnessRefusal(r, row)
  BY ZenonT(60), <1>4 DEF WitnessRefusal
<1> QED BY ZenonT(60), <1>1, <1>2, <1>3, <1>4, <1>5 DEF AnswerOk

\* Every answer of a blob route is within its row.
LEMMA BlobOk ==
  ASSUME NEW r, r.bytes \in Nat, r.length.n \in Nat, NEW row, RowOk(row),
         row.response \in {"upload", "download", "delete"}, NEW answer \in DecodeBlob(r, row)
  PROVE  AnswerOk(answer, r, row)
<1>1. CASE ~Success(r)
  <2>1. answer \in Discarded(r)
    BY ZenonT(60), <1>1 DEF DecodeBlob
  <2> QED BY ZenonT(60), <2>1, DiscardedOk
<1>2. CASE Success(r) /\ row.response = "download"
  <2>1. answer \in DecodeDownload(r) /\ r.status = "ok"
    BY ZenonT(60), <1>2 DEF DecodeBlob
  <2> QED BY ZenonT(60), <1>2, <2>1, DownloadOk
<1>3. CASE Success(r) /\ row.response # "download"
  <2>1. answer \in Answer(r, Collect(r, MaxBody))
    BY ZenonT(60), <1>3 DEF DecodeBlob
  <2>2. answer.bytes <= MaxBody
    BY ZenonT(60), <2>1, AnswerIs, Collected, Limited
  <2>3. row.maxResponse = MaxBody /\ row.response # "receipt"
    BY ZenonT(60), <1>3 DEF RowOk
  <2>4. ~WitnessRefusal(r, row)
    BY ZenonT(60), <2>3 DEF WitnessRefusal
  <2> QED BY ZenonT(60), <1>3, <2>2, <2>3, <2>4 DEF AnswerOk
<1> QED BY ZenonT(60), <1>1, <1>2, <1>3

\* Every answer of any route is within its row.
LEMMA ResponseBounded ==
  ASSUME NEW r, r.bytes \in Nat, r.length.n \in Nat, NEW row, RowOk(row),
         NEW answer \in DecodeResponse(r, row)
  PROVE  AnswerOk(answer, r, row)
<1> DEFINE expected == IF row.response = "receipt" THEN "octets" ELSE "json"
<1> DEFINE typed == /\ r.type = expected
                    /\ row.response = "receipt" => r.status \in {"ok", "conflict", "gone"}
<1> DEFINE got == {n \in Collect(r, row.maxResponse) : row.response = "receipt" => n = Receipt}
<1>1. \/ row.response \in {"upload", "download", "delete"} /\ answer \in DecodeBlob(r, row)
      \/ answer \in Discarded(r)
      \/ /\ row.response \notin {"upload", "download", "delete"} /\ typed
         /\ answer \in Answer(r, got)
  BY ZenonT(60) DEF DecodeResponse
<1>2. CASE row.response \in {"upload", "download", "delete"} /\ answer \in DecodeBlob(r, row)
  BY ZenonT(60), <1>2, BlobOk
<1>3. CASE answer \in Discarded(r)
  BY ZenonT(60), <1>3, DiscardedOk
<1>4. CASE /\ row.response \notin {"upload", "download", "delete"} /\ typed
           /\ answer \in Answer(r, got)
  <2>1. answer.bytes \in got
    <3> HIDE DEF got
    <3> QED BY ZenonT(60), <1>4, AnswerIs
  <2>2. answer.bytes <= row.maxResponse /\ (row.response = "receipt" => answer.bytes = Receipt)
    BY ZenonT(60), <2>1, Collected DEF RowOk
  <2>3. r.type \in {"json", "octets"}
    BY ZenonT(60), <1>4
  <2>4. ~WitnessRefusal(r, row)
    <3>1. "forbidden" \notin {"ok", "conflict", "gone"}
      OBVIOUS
    <3> QED BY ZenonT(60), <1>4, <3>1 DEF WitnessRefusal
  <2> QED BY ZenonT(60), <1>4, <2>2, <2>3, <2>4 DEF AnswerOk
<1> QED BY ZenonT(60), <1>1, <1>2, <1>3, <1>4

\* No request and no answer passes the bounds of its route.
LEMMA ExchangesHold == ASSUME FormatsInit PROVE ExchangesBounded
<1>1. ASSUME item.part = "request", NEW row \in Validate(item)
      PROVE  LET out == Outgoing(item, row) IN
             /\ out.bytes <= row.maxBody /\ (out.type = "none" => out.bytes = 0)
             /\ out.auth = item.auth /\ (out.auth = "nostr" <=> row.auth)
             /\ out.digest => out.bytes > 0
  <2>1. item \in HttpRequests
    BY ZenonT(60), <1>1, Parts
  <2>2. MaxBlob + 1 \in Nat
    BY Limited
  <2>3. item.bytes \in Nat
    BY ZenonT(60), <2>1, <2>2, Limited DEF HttpRequests
  <2> QED BY ZenonT(60), <2>3, RequestBounded
<1>2. ASSUME item.part = "response", NEW m \in Methods, NEW p \in Paths, NEW row \in Allowlisted(m, p),
             NEW answer \in DecodeResponse(item, row)
      PROVE  AnswerOk(answer, item, row)
  <2>1. item \in HttpResponses
    BY ZenonT(60), <1>2, Parts
  <2>2. MaxBlob + 1 \in Nat /\ MaxDiscarded + 1 \in Nat
    BY Limited
  <2>3. item.bytes \in Nat
    BY ZenonT(60), <2>1, <2>2, Limited DEF HttpResponses
  <2>4. item.length.n \in Nat
    <3>1. \/ item.length \in [form : {"canonical"}, n : {0, Receipt, MaxBlob, MaxBlob + 1}]
          \/ item.length \in [form : {"absent", "malformed"}, n : {0}]
      BY ZenonT(60), <2>1 DEF HttpResponses
    <3> QED BY ZenonT(60), <3>1, <2>2, Limited
  <2>5. RowOk(row)
    BY ZenonT(60), Rows
  <2> QED BY ZenonT(60), <2>3, <2>4, <2>5, ResponseBounded
<1> QED BY ZenonT(60), <1>1, <1>2 DEF ExchangesBounded, AnswerOk

(***************************************************************************)
(* All formats.                                                            *)
(***************************************************************************)
\* For every width of a byte, an ID, a tag, a character and the accumulator,
\* and every limit: encode and decode of relay frames, base32 text, blob headers
\* and enrolment frames undo each other, whatever is cut off or left over is
\* refused, and validate_http_request and decode_http_response keep every exchange
\* within the bounds of its row.
THEOREM FormatsExactCorrect == FormatsSpec => []FormatsExact
<1>1. FormatsInit => FormatsExact
  BY ZenonT(60), FramesHold, IdsHold, FieldsHold, ExchangesHold DEF FormatsExact
<1>2. FormatsExact /\ [FormatsNext]_<<item, cardVars, limitVars>> => FormatsExact'
  <2> SUFFICES ASSUME FormatsExact, [FormatsNext]_<<item, cardVars, limitVars>> PROVE FormatsExact'
    OBVIOUS
  <2>1. item' = item
    BY ZenonT(60) DEF FormatsNext
  <2>2. FramesRoundTrip' /\ IdsCanonical'
    BY ZenonT(60), <2>1 DEF FormatsExact, FramesRoundTrip, IdsCanonical
  <2>3. FieldsExact'
    BY ZenonT(60), <2>1 DEF FormatsExact, FieldsExact
  <2>4. ExchangesBounded'
    BY ZenonT(60), <2>1 DEF FormatsExact, ExchangesBounded
  <2> QED BY ZenonT(60), <2>2, <2>3, <2>4 DEF FormatsExact
<1> QED BY <1>1, <1>2, PTL DEF FormatsSpec

\* The composition adds nothing to its parts: its behaviours are behaviours of
\* the address cards (Endpoint::card, Card::verify) and of the relay's limiters
\* (SourceLimiter, ByteBudget), so what is proved of those holds of it.
THEOREM FormatsImplementsParts == FormatsSpec => CardSpec /\ LimitSpec
<1>1. FormatsInit => CardInit /\ LimitInit
  BY ZenonT(60) DEF FormatsInit
<1>2. [FormatsNext]_<<item, cardVars, limitVars>> => [CardNext]_cardVars /\ [LimitNext]_limitVars
  <2> SUFFICES ASSUME [FormatsNext]_<<item, cardVars, limitVars>>
               PROVE  [CardNext]_cardVars /\ [LimitNext]_limitVars
    OBVIOUS
  <2>1. CASE UNCHANGED <<item, cardVars, limitVars>>
    BY ZenonT(60), <2>1
  <2>2. CASE CardNext /\ UNCHANGED <<item, limitVars>>
    BY ZenonT(60), <2>2
  <2>3. CASE LimitNext /\ UNCHANGED <<item, cardVars>>
    BY ZenonT(60), <2>3
  <2> QED BY ZenonT(60), <2>1, <2>2, <2>3 DEF FormatsNext
<1> QED BY <1>1, <1>2, PTL DEF FormatsSpec, CardSpec, LimitSpec

=============================================================================
