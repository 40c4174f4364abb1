SPECIFICATION ReconnectSpec
CONSTANTS
  d1 = d1
  Conn = {c1, c2}
  Driver = {d1}
  Relay = {r1}
  DriverOf <- SharedDriver
  TagMode = FALSE
  QueueCap = 2
  None = None
PROPERTIES WaitEnds
