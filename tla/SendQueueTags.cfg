SPECIFICATION Spec
CONSTANTS
  d1 = d1
  Conn = {c1, c2}
  Driver = {d1}
  Relay = {r1, r2}
  DriverOf <- SharedDriver
  TagMode = TRUE
  QueueCap = 2
  None = None
SYMMETRY RelaySymmetry
INVARIANTS StaleFramesBounded WakeIsOwed
