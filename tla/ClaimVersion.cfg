SPECIFICATION Spec
CONSTANTS
  Radix = 2
  SessionId = {0, 13}
  Message <- MCMessage
  NoHeader = none
  MaxSent = 3
INVARIANT
  VersionIsOptional
CHECK_DEADLOCK FALSE
