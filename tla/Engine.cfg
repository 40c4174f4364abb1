SPECIFICATION MCSpec
CONSTANTS
  Callers = {a, b}
  Routes = {r1, r2}
  Nodes = {n1, n2}
  MaxSerial = 2
  MaxSessions = 2
  MaxExtra = 1
  MaxEvents = 4
  None = None
INVARIANTS SecretsBacked OneFileStream EndIsFinal
PROPERTIES RouteCoalesces StopEnds
CHECK_DEADLOCK FALSE
