CONSTANTS
  s1 = s1
  s2 = s2
  Session = {s1}
  Initial = 1
  MaxDelay = 6
  Multiplier = 2
  Jitter = 4
  EventCap = 2
  OutputCap = 1
  InBuf = 1
  OutBuf = 1
  MaxConns = 2
  MaxFails = 4
SPECIFICATION Spec
INVARIANTS TypeOK BackoffFollowsFormula NoShellLeftBehind ToldWhatThereIs OutputBelongs
PROPERTY ExitReported
CHECK_DEADLOCK FALSE
