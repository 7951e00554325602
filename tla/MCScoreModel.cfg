SPECIFICATION Spec
CONSTANTS
  me = me
  you = you
  shop = shop
  Addresses <- MCAddresses
  Proofs <- MCProofs
  MaxProofs = 3
  MaxDay = 33
INVARIANTS
  ScoreIsOfPayments
  Lockstep
PROPERTIES
  FallsOnlyUnanswered
CHECK_DEADLOCK FALSE
