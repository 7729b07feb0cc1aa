CONSTANTS
  Machine = {m1}
  NoMachine = none
  Cap = 1
  WireCap = 1
  MaxSeq = 8
  MaxEpoch = 0
  MaxConns = 1
  MaxReqs = 0
SPECIFICATION Spec
INVARIANTS GapsDetected
CHECK_DEADLOCK FALSE
