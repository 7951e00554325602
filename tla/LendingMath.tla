----------------------------- MODULE LendingMath -----------------------------
(***************************************************************************)
(* The arithmetic of FxrpLendingPool: prices, conversions, ratios and the  *)
(* liquidation bonus, over integers with Solidity's flooring division.     *)
(*                                                                         *)
(* A price feed is a record: `value` is the integer the oracle returns and *)
(* `scale` is 10 ** uint8(decimals). A scale of 0 stands for an exponent   *)
(* the pool cannot raise (a negative `decimals` becomes at least 128), for *)
(* which every conversion reverts.                                         *)
(***************************************************************************)
EXTENDS Integers

CONSTANTS
  WeiPerCoin,   \* 1e18
  UnitsPerFxrp, \* 10 ** fxrpDecimals
  MaxUint       \* type(uint256).max

ASSUME MathAssumption ==
  /\ WeiPerCoin \in Nat \ {0}
  /\ UnitsPerFxrp \in Nat \ {0}
  /\ MaxUint \in Nat \ {0}

BPS == 10000
DefaultRatioBps == 15000
TrustedRatioBps == 12000
LiquidationBonusBps == 500

Feeds == [value : Nat, scale : Nat]
PricePairs == [flr : Feeds, xrp : Feeds]

\* The prices are a pair of feeds [flr, xrp]. WeiValue / FxrpValue is the
\* price of one FXRP unit in wei, as a fraction of two uint256 products.
WeiValue(prices) == prices.xrp.value * prices.flr.scale * WeiPerCoin
FxrpValue(prices) == prices.flr.value * prices.xrp.scale * UnitsPerFxrp

Readable(prices) == prices.flr.scale > 0 /\ prices.xrp.scale > 0

\* When _fxrpToWei returns: the checked products fit and no division by zero.
FxrpToWeiReturns(amount, prices) ==
  /\ Readable(prices)
  /\ FxrpValue(prices) \in 1..MaxUint
  /\ amount * WeiValue(prices) <= MaxUint

FxrpToWei(amount, prices) ==
  (amount * WeiValue(prices)) \div FxrpValue(prices)

WeiToFxrpReturns(amount, prices) ==
  /\ Readable(prices)
  /\ WeiValue(prices) \in 1..MaxUint
  /\ amount * FxrpValue(prices) <= MaxUint

WeiToFxrp(amount, prices) ==
  (amount * FxrpValue(prices)) \div WeiValue(prices)

\* requiredWei of _healthy.
RequiredWei(debt, ratio, prices) == (FxrpToWei(debt, prices) * ratio) \div BPS

\* Faulty variant: the prices are read whether or not there is debt.
HealthReturnsEager(debt, ratio, prices) ==
  /\ FxrpToWeiReturns(debt, prices)
  /\ FxrpToWei(debt, prices) * ratio <= MaxUint

\* _healthy reads the prices only when there is debt.
HealthReturns(debt, ratio, prices) ==
  IF debt = 0 THEN TRUE
  ELSE /\ FxrpToWeiReturns(debt, prices)
       /\ FxrpToWei(debt, prices) * ratio <= MaxUint

Covers(collateral, debt, ratio, prices) ==
  IF debt = 0 THEN TRUE ELSE collateral >= RequiredWei(debt, ratio, prices)

\* Faulty variant: the payment is not capped by the collateral.
SeizedWeiUncapped(debt, collateral, prices) ==
  (FxrpToWei(debt, prices) * (BPS + LiquidationBonusBps)) \div BPS

\* Faulty variant: the liquidator takes the whole position.
SeizedWeiAll(debt, collateral, prices) == collateral

\* The collateral a liquidator of `debt` is paid: its value and the bonus,
\* or all the collateral there is.
SeizedWei(debt, collateral, prices) ==
  LET due == (FxrpToWei(debt, prices) * (BPS + LiquidationBonusBps)) \div BPS
  IN  IF due > collateral THEN collateral ELSE due

\* maxBorrowable: the capacity of the collateral less the debt already drawn.
CapacityFxrp(collateral, ratio, prices) ==
  (WeiToFxrp(collateral, prices) * BPS) \div ratio

\* Faulty variant: the debt already drawn is forgotten.
MaxBorrowableGross(collateral, debt, ratio, prices) ==
  CapacityFxrp(collateral, ratio, prices)

MaxBorrowable(collateral, debt, ratio, prices) ==
  LET capacity == CapacityFxrp(collateral, ratio, prices)
  IN  IF capacity > debt THEN capacity - debt ELSE 0

MaxBorrowableReturns(collateral, prices) ==
  /\ WeiToFxrpReturns(collateral, prices)
  /\ WeiToFxrp(collateral, prices) * BPS <= MaxUint
=============================================================================
