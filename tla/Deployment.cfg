SPECIFICATION DeploySpec
CONSTANTS
  Runs = {r1, r2}
  Requests = {q1, q2}
  NoStack = NoStack
  Unread = Unread
INVARIANTS
  PendingIsNext
  PointedAtIsWhole
PROPERTY ScriptEnds
CHECK_DEADLOCK FALSE
