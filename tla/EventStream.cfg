CONSTANTS
  Machine = {m1}
  NoMachine = none
  Cap = 1
  WireCap = 1
  MaxSeq = 8
  MaxEpoch = 1
  MaxConns = 2
  MaxReqs = 1
SPECIFICATION Spec
INVARIANT NotSilentlyBehind
PROPERTIES OutputInOrder Settles
CHECK_DEADLOCK FALSE
