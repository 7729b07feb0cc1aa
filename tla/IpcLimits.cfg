CONSTANTS
  p1 = p1
  p2 = p2
  NoTime = NoTime
  Peer = {p1, p2}
  MaxConnections = 1
  RateLimit = 2
  RateWindow = 2
  AuthFailures = 2
  AuthWindow = 3
  Lockout = 3
  MaxNow = 7
SYMMETRY Peers
SPECIFICATION Spec
INVARIANTS TypeOK CounterIsConnections RateHolds GuessesBounded RefusedOnlyWhileLocked
CHECK_DEADLOCK FALSE
