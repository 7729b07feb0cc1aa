CONSTANTS
  Machine = {m1}
  NoMachine = none
  Cap = 2
  WireCap = 2
  MaxSeq = 7
  MaxEpoch = 0
  MaxConns = 1
  MaxReqs = 1
SPECIFICATION Spec
INVARIANTS RecoveryPrunes
CHECK_DEADLOCK FALSE
