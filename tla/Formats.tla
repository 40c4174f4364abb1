------------------------------ MODULE Formats ------------------------------
(***************************************************************************)
(* What the bytes and bounds of Link mean, asked of every value a small    *)
(* instance has: the wire formats (Codecs) and the HTTP exchanges          *)
(* (HttpRoutes), each input an initial state, and beside them the two      *)
(* machines that live on time, the life of a card (Cards) and the relay's  *)
(* rate limits (Limits).  They share nothing; `item` says which is run.    *)
(***************************************************************************)
EXTENDS Codecs, HttpRoutes, Cards, Limits

VARIABLE
  item   \* the part that is run, with its input

(***************************************************************************)
(* Every value and every short byte string, each an initial state.         *)
(***************************************************************************)
Bodies == UNION {[1..n -> Byte] : n \in 0..IdBytes + TagBytes + MaxDatagram + 1}
NodeIds == [1..IdBytes -> Byte]
Frames ==
  (UNION {[kind : {kind}, bytes : [1..FixedWidth[kind] -> Byte]] : kind \in DOMAIN FixedWidth})
  \cup [kind : {"auth"}, id : NodeIds, bytes : [1..2 * IdBytes -> Byte]]
  \cup (UNION {[kind : ByNode, id : NodeIds, bytes : [1..n -> Byte]] : n \in 1..MaxDatagram})
  \cup (UNION {[kind : ByTag, id : [1..TagBytes -> Byte], bytes : [1..n -> Byte]] : n \in 1..MaxDatagram})
  \cup (UNION {[kind : {"register"}, tags : [1..n -> [1..TagBytes -> Byte]]] : n \in 0..MaxTags})
Texts == UNION {[1..n -> Byte] : n \in 0..MaxText + 1}
ContentTypes == {text \in Texts : Utf8(text)}
Replies == UNION {[1..n -> Byte] : n \in 0..MaxText + 4}

CodecItems ==
  [part : {"wire"}, tag : FrameTags \cup {"unknown"}, body : Bodies]
  \cup [part : {"frame"}, frame : Frames]
  \cup [part : {"id"}, id : [1..IdBytes -> 0..TwoTo(ByteBits) - 1]]
  \cup [part : {"text"}, text : [1..TextLength -> 0..TwoTo(CharBits) - 1]]
  \cup [part : {"header"}, status : HeaderStatuses, text : ContentTypes, body : {<<>>, <<1>>}]
  \cup [part : {"reply"}, status : HeaderStatuses \cup {"unknown"}, rest : Replies]
  \cup [part : {"card"}, card : Texts]

HttpRequests ==
  [part : {"request"}, method : Methods, path : Paths, plain : BOOLEAN,
   auth : {"none", "nostr", "bad"}, bytes : {0, MaxWitness, MaxBody, MaxBlob, MaxBlob + 1}]

HttpResponses ==
  [part : {"response"},
   status : {"ok", "created", "other 2xx", "redirect", "forbidden", "conflict", "gone"},
   type : {"json", "octets", "encrypted", "none"}, repeated : BOOLEAN,
   ranged : BOOLEAN, chunked : BOOLEAN, encoding : {"none", "identity", "other"},
   length : [form : {"canonical"}, n : {0, Receipt, MaxBlob, MaxBlob + 1}]
              \cup [form : {"absent", "malformed"}, n : {0}],
   refused : BOOLEAN, digest : BOOLEAN,
   bytes : {0, Receipt, MaxDiscarded + 1, MaxBlob, MaxBlob + 1}]

FormatsInit ==
  /\ item \in CodecItems \cup HttpRequests \cup HttpResponses \cup [part : {"cards", "limits"}]
  /\ CardInit /\ LimitInit

FormatsNext ==
  \/ item.part = "cards" /\ CardNext /\ UNCHANGED <<item, limitVars>>
  \/ item.part = "limits" /\ LimitNext /\ UNCHANGED <<item, cardVars>>

FormatsSpec == FormatsInit /\ [][FormatsNext]_<<item, cardVars, limitVars>>

(***************************************************************************)
(* Properties                                                              *)
(***************************************************************************)
\* wire.rs: every frame within the bounds decodes to itself, and the bytes of
\* a frame that decodes are the ones encode gives for it, so no two byte
\* strings are the same frame.
FramesRoundTrip ==
  /\ item.part = "frame" => Decode(Encode(item.frame)) = {item.frame}
  /\ item.part = "wire" =>
       LET wire == [tag |-> item.tag, body |-> item.body]
       IN \A f \in Decode(wire) : Encode(f) = wire

\* id.rs: the text of a node ID reads back as that ID although the
\* accumulator overflows on the way, and a node has one spelling only.
IdsCanonical ==
  /\ item.part = "id" => FromBase32(ToBase32(item.id)) = {item.id}
  /\ item.part = "text" => \A id \in FromBase32(item.text) : ToBase32(id) = item.text

\* wire.rs of link-blossom and route_card: a length-prefixed field comes back
\* whole whatever follows it on the stream, a header cut anywhere is Short
\* and never misread, the bytes a header is read from are the ones encode
\* gives for it and its content type is text, and a frame with bytes missing or left over is refused.
FieldsExact ==
  /\ item.part = "header" =>
       LET h == IF item.status = "ok" THEN [status |-> "ok", size |-> 0, text |-> item.text]
                ELSE [status |-> item.status]
           wire == EncodeHeader(h)
           read == DecodeHeader(wire.status, wire.rest \o item.body)
       IN /\ read.taken = Len(wire.rest)
          /\ read.header = IF Len(item.text) <= MaxText \/ item.status # "ok" THEN h
                           ELSE [h EXCEPT !.text = <<>>]
          /\ \A k \in 0..Len(wire.rest) - 1 :
               DecodeHeader(wire.status, Upto(wire.rest, k)).header = Short
  /\ item.part = "reply" =>
       LET read == DecodeHeader(item.status, item.rest)
       IN read.header.status \in HeaderStatuses =>
            /\ EncodeHeader(read.header)
                 = [status |-> item.status, rest |-> Upto(item.rest, read.taken)]
            /\ item.status = "ok" => Utf8(read.header.text)
  /\ item.part = "card" /\ Len(item.card) <= MaxText =>
       LET frame == RouteFrame(item.card)
       IN /\ RouteCard(frame) = {item.card}
          /\ RouteCard(Append(frame, 0)) = {}
          /\ \A k \in 0..Len(frame) - 1 : RouteCard(Upto(frame, k)) = {}

\* lib.rs and blob_http.rs of link-engine: a request leaves with a body, a
\* type and an authorization only where its route has one; and no answer
\* gives the caller more bytes than the route allows, a download that is not
\* exactly its length and digest, a short receipt, or a refusal's text where
\* refusals have none.
ExchangesBounded ==
  /\ item.part = "request" =>
       \A row \in Validate(item) :
         LET out == Outgoing(item, row) IN
         /\ out.bytes <= row.maxBody /\ (out.type = "none" => out.bytes = 0)
         /\ out.auth = item.auth /\ (out.auth = "nostr" <=> row.auth)
         /\ out.digest => out.bytes > 0
  /\ item.part = "response" =>
       \A m \in Methods, p \in Paths : \A row \in Allowlisted(m, p) :
         \A answer \in DecodeResponse(item, row) :
           /\ answer.bytes <= row.maxResponse
           /\ row.response = "download" /\ answer.bytes > 0 =>
                item.digest /\ answer.bytes = item.length.n /\ answer.status = "ok"
           /\ row.response = "receipt" => answer.bytes \in {0, Receipt}
           /\ WitnessRefusal(item, row) => answer.bytes = 0
           /\ answer.bytes > 0 /\ ~Success(item) => item.type \in {"json", "octets"}

\* Every encoder and its decoder agree on every value and on every byte string,
\* and no exchange passes its bounds.
FormatsExact == FramesRoundTrip /\ IdsCanonical /\ FieldsExact /\ ExchangesBounded

=============================================================================
