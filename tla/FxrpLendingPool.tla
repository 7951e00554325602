--------------------------- MODULE FxrpLendingPool ---------------------------
(***************************************************************************)
(* The lending pool (contracts/FxrpLendingPool.sol) on its chain: native   *)
(* coins in as collateral, FXRP out as loans, priced by two FTSOv2 feeds,  *)
(* with a collateral ratio that depends on the borrower's credit score.    *)
(*                                                                         *)
(* An action is a whole transaction: the effects of the pool's function    *)
(* and of the token call it makes, or nothing when any of them reverts.    *)
(* Everything else on the chain moves too: token holders, the registry and *)
(* the enclaves that sign for it, block time, and the price feeds.         *)
(***************************************************************************)
EXTENDS AccountTotals, LendingMath

CONSTANTS
  NumAccounts, MaxSupply, Amounts,                         \* MockFXRP
  Owner, CodeHashes, NoHash, Keys, NoKey, Stranger,        \* CreditRegistry
  Subjects, ScoreValues, Validity, MaxTime, MaxSigned,
  WeiAmounts,     \* amounts of wei callers send or withdraw
  InitialCoins,   \* native coins each user starts with
  PoolFunding,    \* FXRP tools/deploy.py mints to the pool
  TrustedScore,   \* TRUSTED_SCORE: 700
  Prices          \* the pairs of feeds the oracle may return

Pool == 0
Users == 1..NumAccounts
Accounts == 0..NumAccounts

ASSUME PoolAssumption ==
  /\ NumAccounts \in Nat \ {0}
  /\ MaxSupply \in 0..MaxUint
  /\ Amounts \subseteq 0..MaxUint
  /\ WeiAmounts \subseteq Nat
  /\ InitialCoins \in [Users -> Nat]
  /\ PoolFunding \in 0..MaxSupply
  /\ TrustedScore \in 1..1000
  /\ Prices \subseteq PricePairs
  /\ Prices # {}
  /\ NoHash \notin CodeHashes
  /\ NoKey \notin Keys /\ Stranger \notin Keys \cup {NoKey}
  /\ Subjects \subseteq Users
  /\ ScoreValues \subseteq Nat
  /\ Validity \in Nat \ {0}

Positions == [collateralWei : Nat, debtFxrp : 0..MaxUint]

VARIABLES
  positions,                         \* mapping(address => Position)
  coins,                             \* native balance of every account
  prices,                            \* what the FTSOv2 feeds return now
  totalSupply, balanceOf, allowance, \* MockFXRP
  teeSignerOf, scores, now, signed   \* CreditRegistry

\* Who calls the token is not recorded here: the pool is in its own name.
Token == INSTANCE MockFXRP WITH caller <- Pool
Registry == INSTANCE CreditRegistry

tokenVars == <<totalSupply, balanceOf, allowance>>
registryVars == <<teeSignerOf, scores, now, signed>>
poolVars == <<positions, coins>>
vars == <<poolVars, prices, tokenVars, registryVars>>

Collateral == [a \in Accounts |-> positions[a].collateralWei]
Debts == [a \in Accounts |-> positions[a].debtFxrp]

Book == INSTANCE LendingBook WITH
  Holders <- Accounts, Deposits <- WeiAmounts,
  collateral <- Collateral, debt <- Debts,
  backing <- coins[Pool], reserve <- balanceOf[Pool]
-----------------------------------------------------------------------------
\* Faulty variant: the stored score is read, lapsed or not.
CollateralRatioBpsStale(who) ==
  IF scores[who].score >= TrustedScore THEN TrustedRatioBps ELSE DefaultRatioBps

\* collateralRatioBps: the score-gated ratio.
CollateralRatioBps(who) ==
  LET s == Registry!GetScore(who) IN
  IF s.score >= TrustedScore /\ s.expiry > now
  THEN TrustedRatioBps ELSE DefaultRatioBps

\* _healthy of the position p that `who` holds or is about to hold. It may
\* also revert, so a position can be neither Healthy nor Unhealthy.
HealthKnown(who, p) == HealthReturns(p.debtFxrp, CollateralRatioBps(who), prices)
Covered(who, p) ==
  Covers(p.collateralWei, p.debtFxrp, CollateralRatioBps(who), prices)
Healthy(who, p) == HealthKnown(who, p) /\ Covered(who, p)
Unhealthy(who, p) == HealthKnown(who, p) /\ ~Covered(who, p)

\* maxBorrowable(borrower)
BorrowLimit(who) ==
  MaxBorrowable(positions[who].collateralWei, positions[who].debtFxrp,
                CollateralRatioBps(who), prices)

Init ==
  /\ positions = [a \in Accounts |-> [collateralWei |-> 0, debtFxrp |-> 0]]
  /\ coins = [a \in Accounts |-> IF a = Pool THEN 0 ELSE InitialCoins[a]]
  /\ prices \in Prices
  /\ totalSupply = PoolFunding
  /\ balanceOf = [a \in Accounts |-> IF a = Pool THEN PoolFunding ELSE 0]
  /\ allowance = [a \in Accounts |-> [s \in Accounts |-> 0]]
  /\ Registry!Init
-----------------------------------------------------------------------------
\* Faulty variant: receive() takes the coins and credits nobody.
DepositUncredited(sender, amount) ==
  /\ amount > 0
  /\ coins[sender] >= amount
  /\ coins' = Move(coins, sender, Pool, amount)
  /\ UNCHANGED <<positions, prices, tokenVars, registryVars>>

\* deposit(), and receive() for a plain payment to the pool.
Deposit(sender, amount) ==
  /\ amount > 0
  /\ coins[sender] >= amount
  /\ coins' = Move(coins, sender, Pool, amount)
  /\ positions' = [positions EXCEPT ![sender].collateralWei = @ + amount]
  /\ UNCHANGED <<prices, tokenVars, registryVars>>

\* Faulty variant: the health checked is that of before the withdrawal.
WithdrawChecksBefore(sender, amount) ==
  /\ positions[sender].collateralWei >= amount
  /\ Healthy(sender, positions[sender])
  /\ positions' = [positions EXCEPT ![sender].collateralWei = @ - amount]
  /\ coins[Pool] >= amount
  /\ coins' = Move(coins, Pool, sender, amount)
  /\ UNCHANGED <<prices, tokenVars, registryVars>>

Withdraw(sender, amount) ==
  LET after == [positions[sender] EXCEPT !.collateralWei = @ - amount] IN
  /\ positions[sender].collateralWei >= amount
  /\ Healthy(sender, after)
  /\ positions' = [positions EXCEPT ![sender] = after]
  /\ coins[Pool] >= amount
  /\ coins' = Move(coins, Pool, sender, amount)
  /\ UNCHANGED <<prices, tokenVars, registryVars>>

Borrow(sender, amount) ==
  LET after == [positions[sender] EXCEPT !.debtFxrp = @ + amount] IN
  /\ after.debtFxrp <= MaxUint
  /\ Healthy(sender, after)
  /\ positions' = [positions EXCEPT ![sender] = after]
  /\ Token!Transfer(Pool, sender, amount)
  /\ UNCHANGED <<coins, prices, registryVars>>

\* Faulty variant: any repayment clears the debt.
RepayClears(sender, amountFxrp) ==
  LET debt == positions[sender].debtFxrp
      amount == IF amountFxrp > debt THEN debt ELSE amountFxrp
  IN
  /\ Token!TransferFrom(Pool, sender, Pool, amount)
  /\ positions' = [positions EXCEPT ![sender].debtFxrp = 0]
  /\ UNCHANGED <<coins, prices, registryVars>>

\* The amount pulled is the debt at most, so no repayment reverts for being
\* too large.
Repay(sender, amountFxrp) ==
  LET debt == positions[sender].debtFxrp
      amount == IF amountFxrp > debt THEN debt ELSE amountFxrp
  IN
  /\ Token!TransferFrom(Pool, sender, Pool, amount)
  /\ positions' = [positions EXCEPT ![sender].debtFxrp = @ - amount]
  /\ UNCHANGED <<coins, prices, registryVars>>

\* Anyone, the borrower too, repays all the debt of an unhealthy position and
\* is paid out of its collateral.
Liquidate(sender, who) ==
  LET p == positions[who]
      seized == SeizedWei(p.debtFxrp, p.collateralWei, prices)
  IN
  /\ Unhealthy(who, p)
  /\ Token!TransferFrom(Pool, sender, Pool, p.debtFxrp)
  /\ FxrpToWei(p.debtFxrp, prices) * (BPS + LiquidationBonusBps) <= MaxUint
  /\ p.collateralWei >= seized
  /\ positions' = [positions EXCEPT
       ![who] = [collateralWei |-> p.collateralWei - seized, debtFxrp |-> 0]]
  /\ coins[Pool] >= seized
  /\ coins' = Move(coins, Pool, sender, seized)
  /\ UNCHANGED <<prices, registryVars>>

\* The oracle publishes other prices; MockFtsoV2.setFeed lets anyone do so.
SetFeeds ==
  /\ prices' \in Prices
  /\ UNCHANGED <<poolVars, tokenVars, registryVars>>

\* Token holders call the token directly, the pool as recipient included. They
\* approve only the pool here: MockFXRP is checked with other spenders.
HolderStep ==
  /\ \E a \in Users, b \in Accounts, amount \in Amounts :
       \/ Token!Mint(b, amount)
       \/ Token!Transfer(a, b, amount)
       \/ Token!Approve(a, Pool, amount)
  /\ UNCHANGED <<poolVars, prices, registryVars>>

RegistryStep ==
  /\ Registry!Next
  /\ UNCHANGED <<poolVars, prices, tokenVars>>

PoolStep(sender) ==
  \/ \E w \in WeiAmounts : Deposit(sender, w) \/ Withdraw(sender, w)
  \/ \E amount \in Amounts : Borrow(sender, amount) \/ Repay(sender, amount)
  \/ \E who \in Users : Liquidate(sender, who)

Next ==
  \/ \E u \in Users : PoolStep(u)
  \/ SetFeeds
  \/ HolderStep
  \/ RegistryStep

Spec == Init /\ [][Next]_vars
-----------------------------------------------------------------------------
TypeOK ==
  /\ positions \in [Accounts -> Positions]
  /\ coins \in [Accounts -> Nat]
  /\ prices \in Prices
  /\ Token!TypeOK
  /\ Registry!TypeOK

\* The pool holds exactly the collateral of its positions, so every depositor
\* can be paid, whatever the others withdraw or liquidate.
CollateralBacked == coins[Pool] = Total(Collateral, NumAccounts)

LoanBook == balanceOf[Pool] + Total(Debts, NumAccounts)

LoanBookStep ==
  /\ LoanBook' >= LoanBook
  /\ positions' # positions => LoanBook' = LoanBook

\* The FXRP the pool holds and the FXRP it is owed, together, never shrink,
\* and a step that touches a position (a loan, a repayment, a liquidation)
\* leaves their sum as it was: no debt is forgiven and none is invented.
LoanBookConserved == [][LoanBookStep]_vars

\* Seen through its book, the pool only ever puts in, takes out, lends, is
\* repaid, closes a debt or is given FXRP: each transaction of it, and each
\* token call of anyone else, is one of these as a whole, or changes nothing.
ImplementsLendingBook == Book!Spec

HealthStep ==
  \A u \in Users :
    Healthy(u, positions[u]) /\ Unhealthy(u, positions[u])'
      => prices' # prices \/ now' # now \/ scores'[u] # scores[u]

\* Whatever the pool and its users do, a healthy position is liquidatable in
\* the next state only if the prices moved, time passed, or its owner's score
\* was replaced: not because of a withdrawal, a loan, a repayment, a
\* liquidation or a transfer, of its own or of anyone else.
OnlyTheWorldBreaksHealth == [][HealthStep]_vars

CollateralStep ==
  \A u \in Users :
    LET p == positions[u]
        loss == p.collateralWei - positions'[u].collateralWei
    IN  loss > 0 =>
          \/ /\ coins'[u] = coins[u] + loss
             /\ positions'[u].debtFxrp = p.debtFxrp
             /\ Covered(u, positions[u])'
          \/ /\ Unhealthy(u, p)
             /\ positions'[u].debtFxrp = 0
             /\ loss * BPS <=
                  FxrpToWei(p.debtFxrp, prices) * (BPS + LiquidationBonusBps)

\* Collateral leaves a position in two ways: to its owner, who stays healthy,
\* or in a liquidation of an unhealthy position, which ends all of its debt
\* and takes at most the debt's value and the bonus of 5%.
CollateralLeavesFairly == [][CollateralStep]_vars

\* The lower ratio is granted only to an account for which an enclave signed a
\* trusted score that is still running.
TrustedRatioIsAttested ==
  \A u \in Users : CollateralRatioBps(u) = TrustedRatioBps =>
    \E s \in signed : /\ s.digest.subject = u
                     /\ s.digest.score >= TrustedScore
                     /\ s.digest.expiry > now

\* What maxBorrowable promises, borrow's health check grants: after rounding
\* down twice, any amount up to the limit leaves the position covered.
BorrowLimitIsHonoured ==
  \A u \in Users :
    MaxBorrowableReturns(positions[u].collateralWei, prices) =>
      \A n \in 1..BorrowLimit(u) :
        Covered(u, [positions[u] EXCEPT !.debtFxrp = @ + n])

\* The FAQ's promise about a score that expires: collateral and debt are
\* unaffected until the score is recomputed. So a position that covers its
\* debt at the trusted ratio its lapsed score earned is not liquidated. Does not
\* hold: the ratio is read anew at every check.
LapseLeavesPositionAlone ==
  [][\A u, v \in Users :
       Liquidate(v, u) =>
         ~ /\ scores[u].score >= TrustedScore
           /\ scores[u].expiry <= now
           /\ Covers(positions[u].collateralWei, positions[u].debtFxrp,
                     TrustedRatioBps, prices)]_vars

\* `who` holds and has approved the FXRP that a debt asks for.
CanPay(who, debt) == balanceOf[who] >= debt /\ allowance[who][Pool] >= debt

\* Whatever the feeds return, even nothing usable: who owes nothing can take
\* out all of the collateral, and who owes can repay.
WayOutIsOpen ==
  \A u \in Users :
    LET p == positions[u] IN
    IF p.debtFxrp = 0
    THEN p.collateralWei > 0 => ENABLED Withdraw(u, p.collateralWei)
    ELSE CanPay(u, p.debtFxrp) => ENABLED Repay(u, p.debtFxrp)

\* An unhealthy position, one under water too, can be liquidated by anyone who
\* holds and has approved the FXRP it owes.
LiquidationIsOpen ==
  \A u, v \in Users :
    Unhealthy(u, positions[u]) /\ CanPay(v, positions[u].debtFxrp)
      => ENABLED Liquidate(v, u)
=============================================================================
