SPECIFICATION Spec
CONSTANTS
  c1 = c1
  c2 = c2
  c3 = c3
  Conn = {c1, c2, c3}
  Node = {n1}
  Tag = {t1}
  Source = {s1}
  MaxSessions = 3
  MaxPerSource = 3
  QueueCap = 1
  NoConn = NoConn
  NoNode = NoNode
SYMMETRY Symmetry
INVARIANTS RegistryCoherent
PROPERTIES NewestWins OldestIsEvicted ToldUnlessFull
