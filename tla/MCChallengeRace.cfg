SPECIFICATION Spec
CONSTANTS
  Workers = {w1, w2}
  Flares = {f1}
  Xrpls = {x1, x2}
  TTL = 1
  MaxTime = 2
  MaxNonce = 2
  None = None
SYMMETRY Symmetric
INVARIANTS
  NonceAcceptedOnce
CHECK_DEADLOCK FALSE
