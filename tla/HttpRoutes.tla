----------------------------- MODULE HttpRoutes -----------------------------
(***************************************************************************)
(* HTTP over a Link session, crates/link-engine/src/lib.rs and             *)
(* blob_http.rs: the allowlist with its bounds, what a request is checked  *)
(* for and sent as, and what is made of the answer.  A path is its shape   *)
(* and whether its variable segments are canonical; text is what the       *)
(* checks tell apart; lengths are numbers, scaled by the bounds below.     *)
(***************************************************************************)
EXTENDS Naturals, FiniteSets

CONSTANTS
  MaxBody,       \* MAX_HTTP_BODY_BYTES
  MaxJson,       \* MAX_VMLS_JSON_BYTES
  MaxEnvelope,   \* MAX_VMLS_ENVELOPE_BYTES
  MaxFetch,      \* MAX_VMLS_FETCH_RESPONSE_BYTES
  MaxWitness,    \* MAX_WITNESS_REQUEST_BYTES
  Receipt,       \* WITNESS_RECEIPT_BYTES
  MaxBlob,       \* MAX_BLOB_BYTES
  MaxDiscarded   \* MAX_DISCARDED_REFUSAL_BYTES

ASSUME HttpBounds ==
  {MaxBody, MaxJson, MaxEnvelope, MaxFetch, MaxWitness, Receipt, MaxBlob, MaxDiscarded}
    \subseteq Nat \ {0}

Methods == {"GET", "POST", "PUT", "DELETE", "PATCH"}
Shapes ==
  {"upload", "blob", "cadence", "witness", "records", "fetch", "ack", "package", "slot",
   "status", "capabilities", "other"}
Paths == [shape : Shapes, canonical : BOOLEAN]

(***************************************************************************)
(* The allowlist.                                                          *)
(***************************************************************************)
Row(body, maxBody, auth, response, maxResponse) ==
  {[body |-> body, maxBody |-> maxBody, auth |-> auth, response |-> response,
    maxResponse |-> maxResponse]}

BlobRoute(method, path) ==
  CASE path.shape = "upload" /\ method = "PUT" -> Row("octets", MaxBlob, TRUE, "upload", MaxBody)
    [] path.shape = "blob" /\ path.canonical /\ method = "GET" ->
         Row("empty", 0, FALSE, "download", MaxBlob)
    [] path.shape = "blob" /\ path.canonical /\ method = "DELETE" ->
         Row("empty", 0, TRUE, "delete", MaxBody)
    [] OTHER -> {}

VmlsBody == [json |-> MaxJson, octets |-> MaxEnvelope, empty |-> 0]
VmlsRoute(body, maxResponse) == Row(body, VmlsBody[body], TRUE, "json or empty", maxResponse)

Vmls(method, path) ==
  CASE path.shape = "records" /\ method = "PUT" /\ path.canonical -> VmlsRoute("octets", MaxBody)
    [] path.shape = "fetch" /\ method = "POST" -> VmlsRoute("json", MaxFetch)
    [] path.shape = "ack" /\ method = "POST" -> VmlsRoute("json", MaxBody)
    [] path.shape = "package" /\ method = "PUT" /\ path.canonical -> VmlsRoute("json", MaxBody)
    [] path.shape = "package" /\ method = "DELETE" /\ path.canonical -> VmlsRoute("empty", MaxBody)
    [] path.shape = "slot" /\ method = "PUT" /\ path.canonical -> VmlsRoute("octets", MaxBody)
    [] path.shape = "status" /\ method = "POST" /\ path.canonical -> VmlsRoute("json", MaxFetch)
    [] path.shape = "capabilities" /\ method = "GET" -> VmlsRoute("empty", MaxBody)
    [] OTHER -> {}

Allowlisted(method, path) ==
  CASE BlobRoute(method, path) # {} -> BlobRoute(method, path)
    [] path.shape = "cadence" ->
         IF method \in {"POST", "PUT"} THEN Row("json", MaxBody, TRUE, "json", MaxBody) ELSE {}
    [] path.shape = "witness" ->
         IF method = "POST" THEN Row("octets", MaxWitness, FALSE, "receipt", Receipt) ELSE {}
    [] OTHER -> Vmls(method, path)

(***************************************************************************)
(* validate_http_request_length and outgoing_http_request.  plain: the     *)
(* path is graphic ASCII without ? or #, and not too long.                 *)
(***************************************************************************)
Validate(r) ==
  {row \in Allowlisted(r.method, r.path) :
     /\ r.method \in {"GET", "POST", "PUT", "DELETE"} /\ r.plain
     /\ r.auth = IF row.auth THEN "nostr" ELSE "none"
     /\ r.bytes <= row.maxBody
     /\ row.response = "upload" => r.bytes > 0}

Outgoing(r, row) ==
  [bytes |-> r.bytes,
   type |-> CASE row.body = "json" -> "json" [] row.body = "octets" -> "octets"
              [] row.body = "empty" -> "none",
   digest |-> row.body = "octets" /\ row.response = "upload",
   auth |-> IF row.auth THEN r.auth ELSE "none"]

(***************************************************************************)
(* decode_http_response: {} is an error, {a} the status and body returned. *)
(* A response has a status class, its headers and the bytes that came; the *)
(* first Content-Type counts, and `repeated` says there were more.         *)
(***************************************************************************)
Collect(response, limit) == IF response.bytes > limit THEN {} ELSE {response.bytes}
Answer(response, bytes) == {[status |-> response.status, bytes |-> n] : n \in bytes}
Success(response) == response.status \in {"ok", "created", "other 2xx"}
Discarded(response) ==
  {[status |-> response.status, bytes |-> 0] : n \in Collect(response, MaxDiscarded)}

\* The length is checked against the bound, the bytes only against each other.
DecodeDownload_Lax(response) ==
  IF ~(/\ response.type \in {"encrypted", "octets"} /\ ~response.chunked
       /\ response.length.form = "canonical" /\ response.length.n <= MaxBlob)
  THEN {}
  ELSE Answer(response, {n \in Collect(response, MaxBlob) : response.digest})

DecodeDownload(response) ==
  IF ~(/\ response.type \in {"encrypted", "octets"} /\ ~response.chunked
       /\ response.length.form = "canonical" /\ response.length.n <= MaxBlob)
  THEN {}
  ELSE Answer(response, {n \in Collect(response, response.length.n) :
                           n = response.length.n /\ response.digest})

DecodeBlob(response, row) ==
  IF ~Success(response) THEN Discarded(response)
  ELSE IF \/ response.status \notin (IF row.response = "upload" THEN {"ok", "created"} ELSE {"ok"})
          \/ response.ranged
          \/ response.encoding \notin {"none", "identity"}
          \/ response.repeated
       THEN {}
  ELSE IF row.response = "download" THEN DecodeDownload(response)
  ELSE IF response.type # "json" THEN {}
  ELSE Answer(response, Collect(response, MaxBody))

DecodeResponse(response, row) ==
  LET expected == IF row.response = "receipt" THEN "octets" ELSE "json"
      typed == /\ response.type = expected
               /\ row.response = "receipt" => response.status \in {"ok", "conflict", "gone"}
  IN IF response.status = "redirect" THEN {}
     ELSE IF row.response \in {"upload", "download", "delete"} THEN DecodeBlob(response, row)
     ELSE IF ~typed
          THEN IF row.response = "json" \/ Success(response) THEN {} ELSE Discarded(response)
     ELSE Answer(response, {n \in Collect(response, row.maxResponse) :
                              row.response = "receipt" => n = Receipt})

\* is_witness_refusal.
WitnessRefusal(response, row) ==
  row.response = "receipt" /\ response.status = "forbidden" /\ response.refused

=============================================================================
