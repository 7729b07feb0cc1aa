CONSTANTS
  MaxReq = 3
  QueueCap = 2
  WireCap = 4
  MaxBreaks = 3
SPECIFICATION Spec
INVARIANTS AnswersMatch AtMostOnce
PROPERTIES DesktopAnswered TerminalEnds
CHECK_DEADLOCK FALSE
