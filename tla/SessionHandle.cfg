SPECIFICATION Spec
CONSTANTS
  t1 = t1
  t2 = t2
  Task = {t1, t2}
  Time <- MCTime
  MaxCalls = 3
CHECK_DEADLOCK FALSE
INVARIANTS TypeOK WinsAlternate TimestampOfWinner FailureJustified ClosedStaysClosed RetriesPaid
PROPERTIES FollowsDiagram
