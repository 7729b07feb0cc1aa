SPECIFICATION Spec
CONSTANTS
  d1 = d1
  d2 = d2
  g = g
  x = x
  Process = {d1, d2, g, x}
  KindOf <- MCKindOf
  NoProcess = none
  Pid = {1, 2}
  NoPid = 0
  BadPid = 9
  MaxStops = 1
INVARIANT
  SerialStartsAgree
PROPERTY
  StartsAfterCrash
CHECK_DEADLOCK FALSE
