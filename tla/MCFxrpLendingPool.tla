------------------------- MODULE MCFxrpLendingPool -------------------------
(***************************************************************************)
(* A small instance of FxrpLendingPool: a borrower and a liquidator, in    *)
(* prices that make a unit of FXRP worth two wei, twice that, or unknown.  *)
(***************************************************************************)
EXTENDS FxrpLendingPool

Feed(v) == [value |-> v, scale |-> 1]

Parity == [flr |-> Feed(1), xrp |-> Feed(1)]
XrpDoubles == [flr |-> Feed(1), xrp |-> Feed(2)]
FlrFeedDead == [flr |-> Feed(0), xrp |-> Feed(1)]

\* The borrower has more to put up than the liquidator.
BorrowerAndLiquidator == [u \in Users |-> IF u = 1 THEN 5 ELSE 3]

MovingPrices == {Parity, XrpDoubles}
AllPrices == MovingPrices \cup {FlrFeedDead}
=============================================================================
