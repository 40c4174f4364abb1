SPECIFICATION FairSpec
CONSTANTS
  p1 = p1
  Session = {s1, s2}
  Peer = {p1}
  Addr = {a1}
  PeerOf <- OnePeerOf
  Reach <- OneReach
  MaxPings = 1
  None = None
INVARIANTS PathsCoherent
PROPERTIES ProofKept SupersededEnds
