SPECIFICATION Spec
CONSTANTS
  x1 = x1
  Xrpls <- MCXrpls
  Foreign <- MCForeign
  None = None
  MaxNonce = 2
  MaxPending = 3
  MaxReload = 2
INVARIANTS
  WayForward
  UnverifiedCameFromOutside
  LinkedShownIsLinked
  OneSignatureLasts
CHECK_DEADLOCK FALSE
