------------------------------ MODULE Streams ------------------------------
(***************************************************************************)
(* The three stream ends above the transport: a text WebSocket and its      *)
(* listener, a browser's relay sockets and their driver, and blobs fetched  *)
(* and served.  They share nothing, so a behaviour follows one of them from *)
(* its start while the other two have ended.                                *)
(***************************************************************************)
EXTENDS TextSocket, BrowserSocket, Blossom

streamVars == <<textVars, pageVars, blobVars>>

TextEnded ==
  /\ commands = <<>> /\ handles = FALSE /\ overflow = FALSE /\ at = "ended"
  /\ incoming = <<>> /\ heard = <<Goodbye>> /\ accepted = 0 /\ written = 0 /\ left = 0

PageEnded ==
  /\ ws = [i \in Ids |-> "none"] /\ guards = {} /\ cur = 0
  /\ task = "finished" /\ woken = TRUE /\ shared = Fresh
  /\ arrived = <<>> /\ read = <<>> /\ stopping = TRUE

BlobEnded ==
  /\ session = [f \in Fetches |-> "closed"] /\ fetch = [f \in Fetches |-> "dropped"]
  /\ server = [f \in Fetches |-> "none"]
  /\ declared = [f \in Fetches |-> 0]
  /\ got = declared /\ sent = declared /\ size = declared /\ holds = declared

StreamsInit ==
  \/ TextInit /\ PageEnded /\ BlobEnded
  \/ TextEnded /\ PageInit /\ BlobEnded
  \/ TextEnded /\ PageEnded /\ BlobInit

StreamsNext ==
  \/ TextNext /\ UNCHANGED <<pageVars, blobVars>>
  \/ PageNext /\ UNCHANGED <<textVars, blobVars>>
  \/ BlobNext /\ UNCHANGED <<textVars, pageVars>>

StreamsSpec ==
  StreamsInit /\ [][StreamsNext]_streamVars /\ TextFairness /\ PageFairness /\ BlobFairness

=============================================================================
