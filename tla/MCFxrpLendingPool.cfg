CONSTANTS
  WeiPerCoin = 2
  UnitsPerFxrp = 1
  MaxUint = 1000000
  NumAccounts = 2
  MaxSupply = 2
  Amounts = {1}
  Owner = 1
  CodeHashes = {h1}
  NoHash = NoHash
  Keys = {k1}
  NoKey = NoKey
  Stranger = Stranger
  Subjects = {1}
  ScoreValues = {700}
  Validity = 1
  MaxTime = 2
  MaxSigned = 1
  WeiAmounts = {2, 3}
  InitialCoins <- BorrowerAndLiquidator
  PoolFunding = 1
  TrustedScore = 700
  Prices <- AllPrices
SPECIFICATION Spec
INVARIANTS CollateralBacked TrustedRatioIsAttested BorrowLimitIsHonoured
  LiquidationIsOpen WayOutIsOpen
PROPERTIES ImplementsLendingBook OnlyTheWorldBreaksHealth CollateralLeavesFairly
