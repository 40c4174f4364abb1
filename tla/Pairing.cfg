SPECIFICATION FairSpec
CONSTANTS
  MaxConns = 2
  MaxEpoch = 1
  MaxWriters = 2
  Hosts = {1, 2}
  Cached = {"dialler"}
INVARIANTS CacheCoherent AdmissionReaches LiveIsOwned
PROPERTIES NothingLingers
CHECK_DEADLOCK FALSE
