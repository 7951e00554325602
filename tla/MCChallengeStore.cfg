SPECIFICATION Spec
CONSTANTS
  Workers = {w1, w2}
  Flares = {f1, f2}
  Xrpls = {x1, x2}
  TTL = 1
  MaxTime = 2
  MaxNonce = 3
  None = None
SYMMETRY Symmetric
INVARIANTS
  AcceptancesWithinChallenges
  BindingsAreEarned
  NonceAcceptedOnceApart
  RightAnswerWins
CHECK_DEADLOCK FALSE
