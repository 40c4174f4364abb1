SPECIFICATION StreamsSpec
CONSTANTS
  OutboundQueue = 2
  InboundQueue = 2
  MaxEvents = 6
  \* Two bounds that bind in turn: three messages, or four bytes.
  InboundBound = 3
  InboundBytes = 4
  MaxMessage = 2
  MaxSockets = 2
  MaxMessages = 4
  Fetches = {f, g}
  Sizes = {0, 3}
  Chunk = 2
INVARIANTS ExactBody InboundKept FinishedMeansClosed
PROPERTIES AcceptedOrTold StopFinishes
CHECK_DEADLOCK FALSE
