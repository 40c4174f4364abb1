SPECIFICATION FairSpec
CONSTANTS
  c1 = c1
  c2 = c2
  Conn = {c1, c2}
  Node = {n1}
  Tag = {t1}
  Source = {s1, s2}
  MaxSessions = 2
  MaxPerSource = 1
  QueueCap = 2
  NoConn = NoConn
  NoNode = NoNode
INVARIANTS SlotsAccounted
PROPERTIES ToldEnds ShutdownCompletes
