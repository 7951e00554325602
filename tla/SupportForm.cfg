SPECIFICATION FormSpec
CONSTANTS
  Workers = {w1, w2}
  Limit = 2
  Window = 1
  MaxTime = 3
  MaxCalls = 5
INVARIANTS
  QueueIsBounded
  LoopWithinLimit
  OkWasHeard
  MailsWereAllowed
PROPERTIES
  ImplementsSlidingWindow
  RequestsEnd
CHECK_DEADLOCK FALSE
