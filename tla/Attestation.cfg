SPECIFICATION FairSpec
CONSTANTS
  Tabs = {t1}
  Clicks = {c1, c2}
  Txs = {x1, x2}
  PollMax = 2
  MaxRound = 2
  MaxReload = 1
INVARIANTS
  NoDuplicateProofs
  ProofsWereRequested
PROPERTIES
  ProofsAreKept
  HandlersEnd
  PendingSettlesOrFailed
CHECK_DEADLOCK FALSE
