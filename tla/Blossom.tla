------------------------------- MODULE Blossom -------------------------------
(***************************************************************************)
(* Blobs over Link, crates/link-blossom/src: the fetcher (client.rs), the   *)
(* server (server.rs) and the FSLB exchange between them (wire.rs).  Every  *)
(* fetch here is of one peer, so the endpoint's rule that a peer's newest   *)
(* session wins closes an older one.  A body is a number of bytes and the   *)
(* stream delivers in order.  A send stream that is dropped finishes in     *)
(* quinn, as after finish(): the reader still gets what was written before. *)
(***************************************************************************)
EXTENDS Naturals, FiniteSetsExt

CONSTANTS
  Fetches,   \* fetches in flight
  Sizes,     \* sizes a source states, and sizes it really produces
  Chunk      \* CHUNK: what the client reads at a time

ASSUME BlossomBounds == Sizes \subseteq Nat /\ Sizes # {} /\ Chunk \in Nat \ {0}

VARIABLES
  session,   \* the session a fetch uses
  fetch,     \* where the fetch is
  declared,  \* the size of the response header the client read
  got,       \* body bytes the body stream yielded
  server,    \* where serve_stream is for this fetch's stream
  size,      \* the size the blob source states
  holds,     \* the bytes the source really produces, if it does not fail first
  sent       \* body bytes the server wrote

blobVars == <<session, fetch, declared, got, server, size, holds, sent>>
client == <<fetch, declared, got>>
serving == <<server, size, holds, sent>>

BlobInit ==
  /\ session = [f \in Fetches |-> "none"] /\ fetch = [f \in Fetches |-> "idle"]
  /\ server = [f \in Fetches |-> "none"]
  /\ declared = [f \in Fetches |-> 0]
  /\ got = declared /\ sent = declared /\ size = declared /\ holds = declared

Closed(f) == session[f] = "closed"

\* The server still writes while the client has the stream open.
Served(f) == ~Closed(f) /\ fetch[f] \in {"requested", "body"}

\* fetch_over_link dials a session of its own, which supersedes the peer's
\* others; fetch_blob_over is given one.  Then the request is written.
Request(f, owner, kind) ==
  /\ fetch[f] = "idle"
  /\ session' = [g \in Fetches |-> IF g = f THEN owner
                                   ELSE IF owner = "owned" /\ session[g] # "none" THEN "closed"
                                   ELSE session[g]]
  /\ fetch' = [fetch EXCEPT ![f] = "requested"]
  /\ server' = [server EXCEPT ![f] = kind]
  /\ UNCHANGED <<declared, got, size, holds, sent>>

\* serve_stream: the source's blob, whose stated size may not be what it holds;
\* a refusal of a newer version; a stream dropped unwritten for what is not a
\* request.
Found(f, stated, real) ==
  /\ Served(f) /\ server[f] = "request"
  /\ server' = [server EXCEPT ![f] = "blob"]
  /\ size' = [size EXCEPT ![f] = stated] /\ holds' = [holds EXCEPT ![f] = real]
  /\ UNCHANGED <<client, session, sent>>

Refused(f) ==
  /\ Served(f) /\ server[f] \in {"newer", "garbage"}
  /\ server' = [server EXCEPT ![f] = IF @ = "newer" THEN "refused" ELSE "silent"]
  /\ UNCHANGED <<client, session, size, holds, sent>>

NotFound(f) ==
  /\ Served(f) /\ server[f] = "request"
  /\ server' = [server EXCEPT ![f] = "refused"]
  /\ UNCHANGED <<client, session, size, holds, sent>>

\* send_blob: a part of at most Chunk bytes; one past the stated size is an
\* error, which drops the stream.
SendPart(f, n) ==
  /\ Served(f) /\ server[f] = "blob"
  /\ sent[f] + n <= holds[f]
  /\ IF sent[f] + n > size[f]
     THEN server' = [server EXCEPT ![f] = "finished"] /\ UNCHANGED sent
     ELSE sent' = [sent EXCEPT ![f] = @ + n] /\ UNCHANGED server
  /\ UNCHANGED <<client, session, size, holds>>

\* The source is exhausted: finish() after exactly the stated size, else an
\* error.  The peer sees the stream end in the same way.
BodyEnds(f) ==
  /\ Served(f) /\ server[f] = "blob" /\ sent[f] = holds[f]
  /\ server' = [server EXCEPT ![f] = "finished"]
  /\ UNCHANGED <<client, session, size, holds, sent>>

\* The source reports an error part way, and the stream is dropped.
SourceFails(f) ==
  /\ Served(f) /\ server[f] = "blob"
  /\ server' = [server EXCEPT ![f] = "finished"]
  /\ UNCHANGED <<client, session, size, holds, sent>>

\* read_response and, over a held session, the check of the expected size.
ReadHeader(f) ==
  /\ ~Closed(f) /\ fetch[f] = "requested" /\ server[f] \in {"blob", "finished"}
  /\ declared' = [declared EXCEPT ![f] = size[f]]
  /\ \/ fetch' = [fetch EXCEPT ![f] = "body"]
     \/ session[f] = "shared" /\ fetch' = [fetch EXCEPT ![f] = "failed"]
  /\ UNCHANGED <<session, got, serving>>

\* No usable answer: fetch_over_link drops its session without a close.
HeaderFails(f) ==
  /\ fetch[f] = "requested" /\ (Closed(f) \/ server[f] \in {"refused", "silent"})
  /\ fetch' = [fetch EXCEPT ![f] = "failed"]
  /\ UNCHANGED <<session, declared, got, serving>>

\* BodySession::finish closes a session of the fetcher's own.
Finished(f) == session' = [session EXCEPT ![f] = IF @ = "owned" THEN "closed" ELSE @]

\* link_body: read_exact of the next piece, which fails when the connection is
\* lost, though its bytes were sent, or when the stream ends before it is whole;
\* the end once nothing remains.
Wanted(f) == Min({declared[f] - got[f], Chunk})
CutShort(f) == Closed(f) \/ (server[f] = "finished" /\ sent[f] - got[f] < Wanted(f))

ReadBody(f) ==
  /\ ~Closed(f) /\ fetch[f] = "body" /\ got[f] < declared[f]
  /\ sent[f] - got[f] >= Wanted(f)
  /\ got' = [got EXCEPT ![f] = @ + Wanted(f)]
  /\ UNCHANGED <<session, fetch, declared, serving>>

ReadFails_AsEnd(f) ==
  /\ fetch[f] = "body" /\ got[f] < declared[f] /\ CutShort(f)
  /\ fetch' = [fetch EXCEPT ![f] = "ended"]
  /\ Finished(f)
  /\ UNCHANGED <<declared, got, serving>>

ReadFails(f) ==
  /\ fetch[f] = "body" /\ got[f] < declared[f] /\ CutShort(f)
  /\ fetch' = [fetch EXCEPT ![f] = "errored"]
  /\ Finished(f)
  /\ UNCHANGED <<declared, got, serving>>

BodyDone(f) ==
  /\ fetch[f] = "body" /\ got[f] = declared[f]
  /\ fetch' = [fetch EXCEPT ![f] = "ended"]
  /\ Finished(f)
  /\ UNCHANGED <<declared, got, serving>>

\* The consumer drops the body.
DropBody(f) ==
  /\ fetch[f] = "body"
  /\ fetch' = [fetch EXCEPT ![f] = "dropped"]
  /\ UNCHANGED <<session, declared, got, serving>>

\* The connection is lost under the session of a fetch that goes on.
SessionLost(f) ==
  /\ session[f] \in {"owned", "shared"} /\ fetch[f] \in {"requested", "body"}
  /\ session' = [session EXCEPT ![f] = "closed"]
  /\ UNCHANGED <<client, serving>>

Serves(f) == \/ \E stated, real \in Sizes : Found(f, stated, real)
             \/ Refused(f) \/ NotFound(f) \/ BodyEnds(f)
             \/ \E n \in 1..Chunk : SendPart(f, n)
Fetching(f) == ReadHeader(f) \/ HeaderFails(f) \/ ReadBody(f) \/ ReadFails(f) \/ BodyDone(f)

BlobNext ==
  \E f \in Fetches :
    \/ \E owner \in {"owned", "shared"}, kind \in {"request", "newer", "garbage"} :
         Request(f, owner, kind)
    \/ Serves(f) \/ SourceFails(f) \/ Fetching(f) \/ DropBody(f) \/ SessionLost(f)

\* The server's task runs, and the consumer polls the fetch and its body.
BlobFairness == \A f \in Fetches : WF_blobVars(Serves(f)) /\ WF_blobVars(Fetching(f))

(***************************************************************************)
(* Properties.                                                             *)
(***************************************************************************)

\* A body that ends without an error is the whole blob: the client yielded
\* exactly the size the server declared, and the server had written all of it.
\* No other end passes for it, though the peer's stream ends alike when the
\* source is complete, misstates its size or fails part way, and the session may
\* be lost or superseded at any byte (link_body, send_blob); and nobody reads
\* more than was sent, nor sends more than was declared.
ExactBody ==
  \A f \in Fetches :
    /\ got[f] <= declared[f] /\ got[f] <= sent[f] /\ sent[f] <= size[f]
    /\ fetch[f] = "ended" => declared[f] = size[f] /\ got[f] = declared[f] /\ sent[f] = size[f]

=============================================================================
