SPECIFICATION Spec
CONSTANTS
  MaxConns = 1
  MaxEpoch = 1
  MaxWriters = 2
  Hosts = {1}
  Cached = {"dialler"}
INVARIANT EstablishedReaches
CHECK_DEADLOCK FALSE
