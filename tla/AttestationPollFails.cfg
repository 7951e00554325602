SPECIFICATION FairSpec
CONSTANTS
  Tabs = {t1}
  Clicks = {c1}
  Txs = {x1}
  PollMax = 2
  MaxRound = 1
  MaxReload = 0
PROPERTIES
  PendingSettles
CHECK_DEADLOCK FALSE
