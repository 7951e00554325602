CONSTANTS
  NumAccounts = 1
  Owner = 1
  CodeHashes = {h1}
  NoHash = NoHash
  Keys = {k1, k2}
  NoKey = NoKey
  Stranger = Stranger
  Subjects = {0, 1}
  ScoreValues = {500, 540, 580, 640, 680}
  Validity = 2
  MaxTime = 2
  MaxSigned = 2
  Calls = {c1, c2}
  Applicant = 0
  Expected = h1
  ScoreFor <- CountAndAge
  MaxProofs = 2
  MaxChanges = 1
SPECIFICATION RelaySpec
PROPERTY RefusalIsTrue
CONSTRAINT OneDisturbance
CHECK_DEADLOCK FALSE
SYMMETRY Alike
