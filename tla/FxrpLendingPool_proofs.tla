----------------------- MODULE FxrpLendingPool_proofs -----------------------
(***************************************************************************)
(* The pool conserves what it is given, for any number of accounts, any    *)
(* prices and any amounts. First what rounding does and does not do to the *)
(* pool's arithmetic; then the pool: every transaction that touches a      *)
(* position is reduced to one form, PoolEffect, and the invariants follow  *)
(* from it.                                                                *)
(***************************************************************************)
EXTENDS FxrpLendingPool, TLAPS

\* Flooring division, as a multiplication.
LEMMA DivBounds ==
  ASSUME NEW a \in Nat, NEW b \in Nat \ {0}
  PROVE  /\ a \div b \in Nat
         /\ b * (a \div b) <= a
         /\ a < b * (a \div b) + b
OBVIOUS

\* Multiplication by a natural keeps the order.
LEMMA MulMono ==
  ASSUME NEW a \in Nat, NEW b \in Nat, NEW c \in Nat, a <= b
  PROVE  a * c <= b * c /\ a * c \in Nat /\ b * c \in Nat
OBVIOUS

\* And division by a positive one keeps it too.
LEMMA MulCancel ==
  ASSUME NEW a \in Nat, NEW b \in Nat, NEW c \in Nat \ {0}, a * c <= b * c
  PROVE  a <= b
OBVIOUS

LEMMA DivMono ==
  ASSUME NEW a \in Nat, NEW b \in Nat, NEW c \in Nat \ {0}, a <= b
  PROVE  a \div c <= b \div c
<1> DEFINE p == a \div c
           q == b \div c
<1>1. p \in Nat /\ q \in Nat /\ c * p <= a /\ b < c * q + c
  BY DivBounds
<1> HIDE DEF p, q
<1>2. c * p < c * q + c
  BY <1>1
<1>3. c * p < c * (q + 1)
  BY <1>1, <1>2
<1>4. p < q + 1
  BY <1>1, <1>3
<1>5. QED BY <1>1, <1>4 DEF p, q

\* The two products that make up a price are naturals.
LEMMA PriceType ==
  ASSUME NEW pair \in PricePairs
  PROVE  WeiValue(pair) \in Nat /\ FxrpValue(pair) \in Nat
<1>1. /\ pair.xrp.value \in Nat /\ pair.flr.scale \in Nat
      /\ pair.flr.value \in Nat /\ pair.xrp.scale \in Nat
      /\ WeiPerCoin \in Nat /\ UnitsPerFxrp \in Nat
  BY MathAssumption DEF PricePairs, Feeds
<1>2. \A a, b \in Nat : a * b \in Nat
  OBVIOUS
<1>3. QED BY <1>1, <1>2 DEF WeiValue, FxrpValue

\* The collateral that a debt asks for is a natural number.
LEMMA RequiredType ==
  ASSUME NEW pair \in PricePairs, FxrpValue(pair) > 0, NEW ratio \in Nat,
         NEW d \in Nat
  PROVE  RequiredWei(d, ratio, pair) \in Nat
<1> DEFINE a == WeiValue(pair)
           b == FxrpValue(pair)
           q == (d * a) \div b
<1>1. a \in Nat /\ b \in Nat \ {0}
  BY PriceType
<1> HIDE DEF a, b
<1>2. d * a \in Nat
  BY <1>1
<1>3. q \in Nat
  BY <1>1, <1>2, DivBounds
<1> HIDE DEF q
<1>4. q * ratio \in Nat
  BY <1>3
<1>5. (q * ratio) \div BPS \in Nat
  BY <1>4, DivBounds DEF BPS
<1>6. QED BY <1>5 DEF RequiredWei, FxrpToWei, q, a, b

\* Whoever owes less needs no more collateral.
LEMMA RequiredMono ==
  ASSUME NEW pair \in PricePairs, FxrpValue(pair) > 0, NEW ratio \in Nat,
         NEW d \in Nat, NEW e \in Nat, d <= e
  PROVE  RequiredWei(d, ratio, pair) <= RequiredWei(e, ratio, pair)
<1> DEFINE a == WeiValue(pair)
           b == FxrpValue(pair)
<1>1. a \in Nat /\ b \in Nat \ {0}
  BY PriceType
<1> HIDE DEF a, b
<1>2. d * a <= e * a /\ d * a \in Nat /\ e * a \in Nat
  BY <1>1, MulMono
<1> DEFINE v == (d * a) \div b
           w == (e * a) \div b
<1>3. v <= w /\ v \in Nat /\ w \in Nat
  BY <1>1, <1>2, DivMono, DivBounds
<1>4. RequiredWei(d, ratio, pair) = (v * ratio) \div BPS
      /\ RequiredWei(e, ratio, pair) = (w * ratio) \div BPS
  BY DEF RequiredWei, FxrpToWei, a, b
<1> HIDE DEF v, w
<1>5. v * ratio <= w * ratio /\ v * ratio \in Nat /\ w * ratio \in Nat
  BY <1>3, MulMono
<1>6. BPS \in Nat \ {0}
  BY DEF BPS
<1>7. QED BY <1>4, <1>5, <1>6, DivMono

\* A covered position stays covered when debt is repaid.
LEMMA RepayKeepsCover ==
  ASSUME NEW pair \in PricePairs, FxrpValue(pair) > 0, NEW ratio \in Nat,
         NEW collateral \in Nat, NEW d \in Nat, NEW e \in Nat, d <= e,
         Covers(collateral, e, ratio, pair)
  PROVE  Covers(collateral, d, ratio, pair)
<1>1. CASE e = 0
  BY <1>1 DEF Covers
<1>2. CASE e # 0
  <2>1. RequiredWei(d, ratio, pair) <= RequiredWei(e, ratio, pair)
    BY RequiredMono
  <2>2. collateral >= RequiredWei(e, ratio, pair)
    BY <1>2 DEF Covers
  <2>3. RequiredWei(d, ratio, pair) \in Nat /\ RequiredWei(e, ratio, pair) \in Nat
    <3>1. \A x \in Nat : (x * WeiValue(pair)) \in Nat
      BY PriceType
    <3>2. \A x \in Nat : FxrpToWei(x, pair) \in Nat
      BY <3>1, PriceType, DivBounds DEF FxrpToWei
    <3>3. \A x \in Nat : FxrpToWei(x, pair) * ratio \in Nat
      BY <3>2
    <3>4. QED BY <3>3, DivBounds DEF RequiredWei, BPS
  <2>4. QED BY <2>1, <2>2, <2>3 DEF Covers
<1>3. QED BY <1>1, <1>2

\* The capacity of the collateral is covered by it: rounding down the value of
\* the collateral, then the capacity, then the debt's value and the required
\* collateral never asks for more than there is.
LEMMA CapacityIsCovered ==
  ASSUME NEW pair \in PricePairs, WeiValue(pair) > 0, NEW ratio \in Nat \ {0},
         NEW collateral \in Nat, NEW debt \in Nat,
         debt <= CapacityFxrp(collateral, ratio, pair)
  PROVE  Covers(collateral, debt, ratio, pair)
<1> DEFINE a == WeiValue(pair)
           b == FxrpValue(pair)
<1>1. a \in Nat \ {0} /\ b \in Nat
  BY PriceType
<1> DEFINE W == (collateral * b) \div a
           K == (W * BPS) \div ratio
<1>2. K = CapacityFxrp(collateral, ratio, pair)
  BY DEF CapacityFxrp, WeiToFxrp
<1> HIDE DEF a, b
<1>3. collateral * b \in Nat
  BY <1>1
<1>4. W \in Nat /\ a * W <= collateral * b
  BY <1>1, <1>3, DivBounds
<1> HIDE DEF W
<1>5. W * BPS \in Nat
  BY <1>4 DEF BPS
<1>6. K \in Nat /\ ratio * K <= W * BPS
  BY <1>5, DivBounds
<1> HIDE DEF K
<1>7. debt <= K
  BY <1>2
<1>8. CASE debt = 0
  BY <1>8 DEF Covers
<1>9. CASE debt # 0
  <2>1. K > 0
    BY <1>6, <1>7, <1>9
  <2>2. b \in Nat \ {0}
    <3>1. ratio * K > 0
      BY <1>6, <2>1
    <3>2. W > 0
      BY <1>4, <1>6, <3>1 DEF BPS
    <3>3. a * W > 0
      BY <1>1, <1>4, <3>2
    <3>4. QED BY <1>1, <1>4, <3>3
  <2> DEFINE V == (debt * a) \div b
             R == (V * ratio) \div BPS
  <2>3. RequiredWei(debt, ratio, pair) = R
    BY DEF RequiredWei, FxrpToWei, a, b
  <2>4. debt * a \in Nat
    BY <1>1
  <2>5. V \in Nat /\ b * V <= debt * a
    BY <2>2, <2>4, DivBounds
  <2> HIDE DEF V
  <2>6. V * ratio \in Nat
    BY <2>5
  <2>7. R \in Nat /\ BPS * R <= V * ratio
    BY <2>6, DivBounds DEF BPS
  <2> HIDE DEF R
  <2>8. (BPS * R) * b <= (V * ratio) * b
    BY <2>2, <2>6, <2>7, MulMono DEF BPS
  <2>9. (b * V) * ratio <= (debt * a) * ratio
    BY <2>2, <2>4, <2>5, MulMono
  <2>10. (debt * ratio) * a <= (K * ratio) * a
    <3>1. debt * ratio <= K * ratio /\ debt * ratio \in Nat /\ K * ratio \in Nat
      BY <1>6, <1>7, MulMono
    <3>2. QED BY <1>1, <3>1, MulMono
  <2>11. (ratio * K) * a <= (W * BPS) * a
    <3>1. ratio * K \in Nat
      BY <1>6
    <3>2. QED BY <1>1, <1>5, <1>6, <3>1, MulMono
  <2>12. (a * W) * BPS <= (collateral * b) * BPS
    <3>1. a * W \in Nat
      BY <1>1, <1>4
    <3>2. QED BY <1>3, <1>4, <3>1, MulMono DEF BPS
  <2>13. /\ (V * ratio) * b = (b * V) * ratio
         /\ (debt * a) * ratio = (debt * ratio) * a
         /\ (K * ratio) * a = (ratio * K) * a
         /\ (W * BPS) * a = (a * W) * BPS
         /\ (BPS * R) * b = R * (b * BPS)
         /\ (collateral * b) * BPS = collateral * (b * BPS)
    BY <1>1, <1>4, <1>6, <2>5, <2>7 DEF BPS
  <2>14. R * (b * BPS) <= collateral * (b * BPS)
    <3>1. /\ (BPS * R) * b \in Nat /\ (V * ratio) * b \in Nat /\ (debt * a) * ratio \in Nat
          /\ (K * ratio) * a \in Nat /\ (W * BPS) * a \in Nat /\ (collateral * b) * BPS \in Nat
      BY <1>1, <1>3, <1>4, <1>5, <1>6, <2>4, <2>6, <2>7 DEF BPS
    <3>2. QED BY <2>8, <2>9, <2>10, <2>11, <2>12, <2>13, <3>1
  <2>15. b * BPS \in Nat \ {0}
    BY <2>2 DEF BPS
  <2>16. R <= collateral
    BY <2>7, <2>14, <2>15, MulCancel
  <2>17. QED BY <2>3, <2>7, <2>16 DEF Covers
<1>10. QED BY <1>8, <1>9

\* What maxBorrowable returns can be borrowed, whatever the pair, the ratio
\* and the debt already drawn.
THEOREM MaxBorrowableIsCovered ==
  ASSUME NEW pair \in PricePairs, WeiValue(pair) > 0, NEW ratio \in Nat \ {0},
         NEW collateral \in Nat, NEW debt \in Nat, NEW amount \in Nat \ {0},
         amount <= MaxBorrowable(collateral, debt, ratio, pair)
  PROVE  Covers(collateral, debt + amount, ratio, pair)
<1> DEFINE capacity == CapacityFxrp(collateral, ratio, pair)
<1>1. capacity \in Nat
  <2>1. collateral * FxrpValue(pair) \in Nat /\ WeiValue(pair) \in Nat \ {0}
    BY PriceType
  <2>2. WeiToFxrp(collateral, pair) \in Nat
    BY <2>1, DivBounds DEF WeiToFxrp
  <2>3. WeiToFxrp(collateral, pair) * BPS \in Nat
    BY <2>2 DEF BPS
  <2>4. QED BY <2>3, DivBounds DEF CapacityFxrp
<1>2. MaxBorrowable(collateral, debt, ratio, pair)
        = IF capacity > debt THEN capacity - debt ELSE 0
  BY DEF MaxBorrowable
<1> HIDE DEF capacity
<1>3. debt + amount <= capacity
  BY <1>1, <1>2
<1>4. QED BY <1>3, CapacityIsCovered DEF capacity

\* A liquidator is paid at most the value of the debt and the bonus, and never
\* more than the collateral.
THEOREM SeizureIsBounded ==
  ASSUME NEW pair \in PricePairs, FxrpValue(pair) > 0,
         NEW debt \in Nat, NEW collateral \in Nat
  PROVE  /\ SeizedWei(debt, collateral, pair) \in 0..collateral
         /\ SeizedWei(debt, collateral, pair) * BPS
              <= FxrpToWei(debt, pair) * (BPS + LiquidationBonusBps)
<1> DEFINE x == FxrpToWei(debt, pair) * (BPS + LiquidationBonusBps)
           due == x \div BPS
<1>1. debt * WeiValue(pair) \in Nat /\ FxrpValue(pair) \in Nat \ {0}
  BY PriceType
<1>2. FxrpToWei(debt, pair) \in Nat
  BY <1>1, DivBounds DEF FxrpToWei
<1>3. x \in Nat
  BY <1>2 DEF BPS, LiquidationBonusBps
<1>4. SeizedWei(debt, collateral, pair) = IF due > collateral THEN collateral ELSE due
  BY DEF SeizedWei
<1> HIDE DEF x
<1>5. due \in Nat /\ BPS * due <= x
  BY <1>3, DivBounds DEF BPS
<1> HIDE DEF due
<1>6. QED BY <1>3, <1>4, <1>5 DEF x, BPS
-----------------------------------------------------------------------------
\* The facts about sums and moves that the token's proofs hold, which are of
\* the same definitions.
TokenProofs == INSTANCE MockFXRP_proofs WITH caller <- Pool

\* The token's constants are within the pool's assumptions.
LEMMA TokenConstants == TokenProofs!TokenAssumption
BY PoolAssumption, MathAssumption DEF TokenProofs!TokenAssumption

\* The token module has sums and moves of its own name; they are the same.
LEMMA SameSums ==
  /\ \A f, n : Token!Total(f, n) = Total(f, n) /\ TokenProofs!Total(f, n) = Total(f, n)
  /\ \A f, a, b, n : /\ Token!Move(f, a, b, n) = Move(f, a, b, n)
                     /\ TokenProofs!Move(f, a, b, n) = Move(f, a, b, n)
<1>1. ASSUME NEW f, NEW n
      PROVE  Token!Total(f, n) = Total(f, n) /\ TokenProofs!Total(f, n) = Total(f, n)
  BY DEF Token!Total, TokenProofs!Total, Total
<1>2. ASSUME NEW f, NEW a, NEW b, NEW n
      PROVE  /\ Token!Move(f, a, b, n) = Move(f, a, b, n)
             /\ TokenProofs!Move(f, a, b, n) = Move(f, a, b, n)
  BY DEF Token!Move, TokenProofs!Move, Move
<1>3. QED BY <1>1, <1>2

\* Sums of integers are integers; changing one entry changes the sum by as much.
LEMMA TotalUpdate ==
  ASSUME NEW n \in Nat, NEW f \in [0..n -> Int], NEW a \in 0..n, NEW v \in Int
  PROVE  /\ Total(f, n) \in Int
         /\ Total([f EXCEPT ![a] = v], n) = Total(f, n) - f[a] + v
<1>1. TokenProofs!Total(f, n) \in Int
  BY TokenConstants, TokenProofs!TotalType
<1>2. TokenProofs!Total([f EXCEPT ![a] = v], n) = TokenProofs!Total(f, n) - f[a] + v
  BY TokenConstants, TokenProofs!TotalUpdate
<1>3. QED BY <1>1, <1>2, SameSums

\* A move between accounts leaves the sum as it was.
LEMMA TotalMove ==
  ASSUME NEW n \in Nat, NEW f \in [0..n -> Int],
         NEW from \in 0..n, NEW to \in 0..n, NEW amount \in Int
  PROVE  /\ Move(f, from, to, amount) \in [0..n -> Int]
         /\ Total(Move(f, from, to, amount), n) = Total(f, n)
<1>1. TokenProofs!Move(f, from, to, amount) \in [0..n -> Int]
  BY TokenConstants, TokenProofs!TotalMove
<1>2. TokenProofs!Total(TokenProofs!Move(f, from, to, amount), n) = TokenProofs!Total(f, n)
  BY TokenConstants, TokenProofs!TotalMove
<1>3. QED BY <1>1, <1>2, SameSums

\* No entry is more than the sum of them all.
LEMMA TotalBounds ==
  ASSUME NEW n \in Nat, NEW f \in [0..n -> Nat], NEW a \in 0..n
  PROVE  f[a] <= Total(f, n) /\ Total(f, n) \in Nat
BY TokenConstants, SameSums, TokenProofs!TotalBounds

\* A balance that pays for a move leaves no balance negative.
LEMMA MoveStaysNat ==
  ASSUME NEW S, NEW f \in [S -> Nat], NEW from \in S, NEW to \in S,
         NEW amount \in Nat, f[from] >= amount
  PROVE  Move(f, from, to, amount) \in [S -> Nat]
<1>1. TokenProofs!Move(f, from, to, amount) \in [S -> Nat]
  BY TokenConstants, TokenProofs!MoveStaysNat
<1>2. QED BY <1>1, SameSums

\* A mapping that is zero but for its first entry adds up to that entry.
LEMMA TotalOfFirst ==
  ASSUME NEW n \in Nat, NEW f \in [0..n -> Int], \A i \in 1..n : f[i] = 0
  PROVE  Total(f, n) = f[0]
<1>1. TokenProofs!Total(f, n) = f[0]
  BY TokenConstants, TokenProofs!TotalOfFirst
<1>2. QED BY <1>1, SameSums

USE DEF Accounts, Users, Pool, Token!Accounts, Registry!Accounts

\* Replacing one position changes the totals by what it adds.
LEMMA PositionUpdate ==
  ASSUME positions \in [Accounts -> Positions], NEW a \in Accounts, NEW p \in Positions,
         positions' = [positions EXCEPT ![a] = p]
  PROVE  /\ positions' \in [Accounts -> Positions]
         /\ Total(Collateral, NumAccounts) \in Int
         /\ Total(Debts, NumAccounts) \in Int
         /\ Total(Collateral', NumAccounts) = Total(Collateral, NumAccounts)
              - positions[a].collateralWei + p.collateralWei
         /\ Total(Debts', NumAccounts) = Total(Debts, NumAccounts)
              - positions[a].debtFxrp + p.debtFxrp
<1>1. NumAccounts \in Nat /\ MaxUint \in Nat
  BY PoolAssumption, MathAssumption
<1>2. Collateral \in [0..NumAccounts -> Int] /\ Debts \in [0..NumAccounts -> Int]
  <2>1. \A b \in Accounts : positions[b].collateralWei \in Int /\ positions[b].debtFxrp \in Int
    <3>1. \A b \in Accounts : positions[b] \in Positions
      OBVIOUS
    <3>2. QED BY <1>1, <3>1 DEF Positions
  <2>2. QED BY <2>1 DEF Collateral, Debts
<1>3. p.collateralWei \in Int /\ p.debtFxrp \in Int
  BY <1>1 DEF Positions
<1>4. Collateral' = [Collateral EXCEPT ![a] = p.collateralWei]
  BY DEF Collateral
<1>5. Debts' = [Debts EXCEPT ![a] = p.debtFxrp]
  BY DEF Debts
<1>6. Total([Collateral EXCEPT ![a] = p.collateralWei], NumAccounts)
        = Total(Collateral, NumAccounts) - Collateral[a] + p.collateralWei
  BY <1>1, <1>2, <1>3, TotalUpdate
<1>7. Total([Debts EXCEPT ![a] = p.debtFxrp], NumAccounts)
        = Total(Debts, NumAccounts) - Debts[a] + p.debtFxrp
  BY <1>1, <1>2, <1>3, TotalUpdate
<1>8. Collateral[a] = positions[a].collateralWei /\ Debts[a] = positions[a].debtFxrp
  BY DEF Collateral, Debts
<1>9. positions' \in [Accounts -> Positions]
  OBVIOUS
<1>10. Total(Collateral, NumAccounts) \in Int /\ Total(Debts, NumAccounts) \in Int
  BY <1>1, <1>2, TotalUpdate
<1>11. QED BY <1>4, <1>5, <1>6, <1>7, <1>8, <1>9, <1>10

\* What a move of native coins between two accounts does.
LEMMA CoinMove ==
  ASSUME NEW f \in [Accounts -> Nat], NEW from \in Accounts, NEW to \in Accounts,
         from # to, NEW amount \in Nat, f[from] >= amount
  PROVE  /\ Move(f, from, to, amount) \in [Accounts -> Nat]
         /\ Move(f, from, to, amount)[from] = f[from] - amount
         /\ Move(f, from, to, amount)[to] = f[to] + amount
<1>1. f[from] - amount \in Nat /\ f[to] + amount \in Nat
  OBVIOUS
<1>2. Move(f, from, to, amount)
        = [f EXCEPT ![from] = f[from] - amount, ![to] = f[to] + amount]
  BY DEF Move
<1>3. QED BY <1>1, <1>2

\* The token's part of the invariant.
TokenOK == Token!TypeOK /\ Token!SupplyIsTotal

\* What _transfer does to the balances.
LEMMA TokenMove ==
  ASSUME TokenOK, NEW from \in Accounts, NEW to \in Accounts, NEW amount \in Nat,
         Token!TransferTail(from, to, amount)
  PROVE  /\ totalSupply' \in 0..MaxUint
         /\ balanceOf' \in [Accounts -> 0..MaxUint]
         /\ Token!SupplyIsTotal'
         /\ from # to => /\ balanceOf'[from] = balanceOf[from] - amount
                         /\ balanceOf'[to] = balanceOf[to] + amount
<1>1. balanceOf \in [0..NumAccounts -> Int] /\ NumAccounts \in Nat
  BY PoolAssumption, MathAssumption DEF TokenOK, Token!TypeOK
<1>2. balanceOf' = Move(balanceOf, from, to, amount) /\ totalSupply' = totalSupply
      /\ balanceOf[from] >= amount
  BY SameSums DEF Token!TransferTail
<1>3. /\ balanceOf' \in [0..NumAccounts -> Int]
      /\ Total(balanceOf', NumAccounts) = Total(balanceOf, NumAccounts)
  BY <1>1, <1>2, TotalMove
<1>4. balanceOf \in [Accounts -> Nat]
  <2>1. balanceOf \in [Accounts -> 0..MaxUint]
    BY DEF TokenOK, Token!TypeOK
  <2>2. \A n \in 0..MaxUint : n \in Nat
    BY MathAssumption
  <2>3. QED BY <2>1, <2>2
<1>5. balanceOf' \in [Accounts -> Nat]
  BY <1>2, <1>4, MoveStaysNat
<1>6. \A a \in Accounts : balanceOf'[a] <= Total(balanceOf', NumAccounts)
  BY <1>1, <1>5, TotalBounds
<1>7. totalSupply \in 0..MaxUint /\ MaxUint \in Nat
  BY MathAssumption DEF TokenOK, Token!TypeOK
<1>8. Token!SupplyIsTotal'
  BY <1>2, <1>3, SameSums DEF TokenOK, Token!SupplyIsTotal
<1>9. \A a \in Accounts : balanceOf'[a] \in 0..MaxUint
  BY <1>2, <1>3, <1>5, <1>6, <1>7, SameSums DEF TokenOK, Token!SupplyIsTotal
<1>10. from # to => /\ balanceOf'[from] = balanceOf[from] - amount
                    /\ balanceOf'[to] = balanceOf[to] + amount
  BY <1>1, <1>2 DEF Move
<1>11. QED BY <1>2, <1>5, <1>7, <1>8, <1>9, <1>10

\* transfer and transferFrom keep the token's invariant and do what _transfer does.
LEMMA TokenTransfer ==
  ASSUME TokenOK, NEW from \in Accounts, NEW to \in Accounts, NEW amount \in Nat,
         NEW spender \in Accounts,
         \/ Token!Transfer(from, to, amount)
         \/ Token!TransferFrom(spender, from, to, amount)
  PROVE  /\ TokenOK'
         /\ balanceOf[from] >= amount
         /\ from # to => /\ balanceOf'[from] = balanceOf[from] - amount
                         /\ balanceOf'[to] = balanceOf[to] + amount
<1>1. Token!TransferTail(from, to, amount)
  BY DEF Token!Transfer, Token!TransferFrom
<1>2. allowance \in [Accounts -> [Accounts -> 0..MaxUint]]
  BY DEF TokenOK, Token!TypeOK
<1>3. allowance' \in [Accounts -> [Accounts -> 0..MaxUint]]
  <2>1. CASE Token!Transfer(from, to, amount)
    BY <1>2, <2>1 DEF Token!Transfer
  <2>2. CASE /\ allowance[from][spender] >= amount
             /\ allowance' = Token!Spend(from, spender, amount)
    <3>1. CASE allowance[from][spender] = MaxUint
      BY <1>2, <2>2, <3>1 DEF Token!Spend
    <3>2. CASE allowance[from][spender] # MaxUint
      <4>1. allowance[from][spender] \in 0..MaxUint /\ MaxUint \in Nat
        BY <1>2, MathAssumption
      <4>2. allowance[from][spender] - amount \in 0..MaxUint
        BY <2>2, <4>1
      <4>3. allowance' = [allowance EXCEPT ![from][spender]
                            = allowance[from][spender] - amount]
        BY <2>2, <3>2 DEF Token!Spend
      <4>4. QED BY <1>2, <4>2, <4>3
    <3>3. QED BY <3>1, <3>2
  <2>3. QED BY <2>1, <2>2 DEF Token!TransferFrom
<1>4. balanceOf[from] >= amount
  BY <1>1 DEF Token!TransferTail
<1>5. QED BY <1>1, <1>3, <1>4, TokenMove DEF TokenOK, Token!TypeOK
-----------------------------------------------------------------------------
\* The invariant: what the pool holds in coins is backed by what it knows of
\* its positions, on a token and a registry that keep their own promises.
IInv ==
  /\ TypeOK
  /\ Token!SupplyIsTotal
  /\ CollateralBacked
  /\ Registry!StoredScoresWereSigned

\* What every transaction of the pool amounts to: the position of one account
\* becomes p, the coins follow its collateral and the FXRP follows its debt.
PoolEffect(a, p) ==
  /\ positions' = [positions EXCEPT ![a] = p]
  /\ coins' \in [Accounts -> Nat]
  /\ coins'[Pool] - coins[Pool] = p.collateralWei - positions[a].collateralWei
  /\ TokenOK'
  /\ balanceOf'[Pool] - balanceOf[Pool] = positions[a].debtFxrp - p.debtFxrp
  /\ UNCHANGED <<prices, registryVars>>

\* The types of what the actions read.
LEMMA Types ==
  ASSUME IInv
  PROVE  /\ NumAccounts \in Nat /\ MaxUint \in Nat
         /\ positions \in [Accounts -> Positions]
         /\ \A a \in Accounts : /\ positions[a].collateralWei \in Nat
                               /\ positions[a].debtFxrp \in 0..MaxUint
                               /\ positions[a].debtFxrp \in Nat
         /\ coins \in [Accounts -> Nat]
         /\ balanceOf \in [Accounts -> Nat]
         /\ TokenOK
         /\ prices \in PricePairs
<1>1. NumAccounts \in Nat /\ MaxUint \in Nat
  BY PoolAssumption, MathAssumption
<1>2. positions \in [Accounts -> Positions]
  BY DEF IInv, TypeOK
<1>3. \A a \in Accounts : positions[a] \in Positions
  BY <1>2
<1>4. TokenOK /\ coins \in [Accounts -> Nat] /\ prices \in PricePairs
  BY PoolAssumption DEF IInv, TypeOK, TokenOK
<1>5. balanceOf \in [Accounts -> Nat]
  BY <1>1 DEF IInv, TypeOK, Token!TypeOK
<1>6. QED BY <1>1, <1>2, <1>3, <1>4, <1>5 DEF Positions

LEMMA DepositEffect ==
  ASSUME IInv, NEW u \in Users, NEW w \in WeiAmounts, Deposit(u, w)
  PROVE  \E p \in Positions : /\ PoolEffect(u, p)
                             /\ p.collateralWei = positions[u].collateralWei + w
                             /\ p.debtFxrp = positions[u].debtFxrp
<1> DEFINE p == [positions[u] EXCEPT !.collateralWei = positions[u].collateralWei + w]
<1>1. w \in Nat /\ u \in Accounts /\ u # 0 /\ 0 \in Accounts
  BY PoolAssumption
<1>2. p \in Positions /\ p.collateralWei = positions[u].collateralWei + w
      /\ p.debtFxrp = positions[u].debtFxrp
  <2>1. positions[u] \in [collateralWei : Nat, debtFxrp : 0..MaxUint]
    BY <1>1, Types DEF Positions
  <2>2. positions[u].collateralWei + w \in Nat
    BY <1>1, <2>1
  <2>3. QED BY <2>1, <2>2 DEF Positions
<1>3. positions' = [positions EXCEPT ![u] = p]
  BY <1>1, Types DEF Deposit
<1>4. coins' \in [Accounts -> Nat] /\ coins'[0] = coins[0] + w
  <2>1. coins' = Move(coins, u, 0, w) /\ coins[u] >= w
    BY DEF Deposit
  <2>2. coins \in [Accounts -> Nat]
    BY Types
  <2>3. QED BY <1>1, <2>1, <2>2, CoinMove
<1>5. TokenOK' /\ balanceOf' = balanceOf /\ UNCHANGED <<prices, registryVars>>
  BY Types DEF Deposit, tokenVars, TokenOK, Token!TypeOK, Token!SupplyIsTotal
<1>6. coins[0] \in Nat /\ balanceOf[0] \in Nat /\ positions[u].collateralWei \in Nat
      /\ positions[u].debtFxrp \in Nat
  BY <1>1, Types
<1> HIDE DEF p
<1>7. PoolEffect(u, p)
  BY <1>1, <1>2, <1>3, <1>4, <1>5, <1>6  DEF PoolEffect
<1>8. QED BY <1>2, <1>7

LEMMA WithdrawEffect ==
  ASSUME IInv, NEW u \in Users, NEW w \in WeiAmounts, Withdraw(u, w)
  PROVE  \E p \in Positions : /\ PoolEffect(u, p)
                             /\ w <= positions[u].collateralWei
                             /\ p.collateralWei = positions[u].collateralWei - w
                             /\ p.debtFxrp = positions[u].debtFxrp
<1> DEFINE p == [positions[u] EXCEPT !.collateralWei = positions[u].collateralWei - w]
<1>1. w \in Nat /\ u \in Accounts /\ u # 0 /\ 0 \in Accounts
  BY PoolAssumption
<1>2. positions[u].collateralWei >= w /\ coins[0] >= w
  BY DEF Withdraw
<1>3. p \in Positions /\ p.collateralWei = positions[u].collateralWei - w
      /\ p.debtFxrp = positions[u].debtFxrp
  BY <1>1, <1>2, Types DEF Positions
<1>4. positions' = [positions EXCEPT ![u] = p]
  BY DEF Withdraw
<1>5. coins' \in [Accounts -> Nat] /\ coins'[0] = coins[0] - w
  <2>1. coins' = Move(coins, 0, u, w)
    BY DEF Withdraw
  <2>2. coins \in [Accounts -> Nat]
    BY Types
  <2>3. QED BY <1>1, <1>2, <2>1, <2>2, CoinMove
<1>6. TokenOK' /\ balanceOf' = balanceOf /\ UNCHANGED <<prices, registryVars>>
  BY Types DEF Withdraw, tokenVars, TokenOK, Token!TypeOK, Token!SupplyIsTotal
<1>7. coins[0] \in Nat /\ balanceOf[0] \in Nat /\ positions[u].collateralWei \in Nat
      /\ positions[u].debtFxrp \in Nat
  BY <1>1, Types
<1> HIDE DEF p
<1>8. PoolEffect(u, p)
  BY <1>1, <1>3, <1>4, <1>5, <1>6, <1>7  DEF PoolEffect
<1>9. QED BY <1>1, <1>2, <1>3, <1>7, <1>8

LEMMA BorrowEffect ==
  ASSUME IInv, NEW u \in Users, NEW amount \in Amounts, Borrow(u, amount)
  PROVE  \E p \in Positions : /\ PoolEffect(u, p)
                             /\ amount <= balanceOf[0]
                             /\ p.collateralWei = positions[u].collateralWei
                             /\ p.debtFxrp = positions[u].debtFxrp + amount
<1> DEFINE p == [positions[u] EXCEPT !.debtFxrp = positions[u].debtFxrp + amount]
<1>1. amount \in Nat /\ u \in Accounts /\ u # 0 /\ 0 \in Accounts
  BY PoolAssumption, MathAssumption
<1>2. positions[u].debtFxrp + amount <= MaxUint
  BY <1>1, Types DEF Borrow, Positions
<1>3. p \in Positions /\ p.collateralWei = positions[u].collateralWei
      /\ p.debtFxrp = positions[u].debtFxrp + amount
  BY <1>1, <1>2, Types DEF Positions
<1>4. positions' = [positions EXCEPT ![u] = p]
  BY DEF Borrow
<1>5. Token!Transfer(0, u, amount)
  BY DEF Borrow
<1>6. TokenOK' /\ balanceOf'[0] = balanceOf[0] - amount /\ balanceOf[0] >= amount
  BY <1>1, <1>5, Types, TokenTransfer
<1>7. coins' = coins /\ UNCHANGED <<prices, registryVars>>
  BY DEF Borrow
<1>8. coins \in [Accounts -> Nat] /\ coins[0] \in Nat /\ balanceOf[0] \in Nat
      /\ positions[u].collateralWei \in Nat /\ positions[u].debtFxrp \in Nat
  BY <1>1, Types
<1> HIDE DEF p
<1>9. PoolEffect(u, p)
  BY <1>1, <1>3, <1>4, <1>6, <1>7, <1>8  DEF PoolEffect
<1>10. QED BY <1>1, <1>3, <1>6, <1>8, <1>9

LEMMA RepayEffect ==
  ASSUME IInv, NEW u \in Users, NEW n \in Amounts, Repay(u, n)
  PROVE  \E p \in Positions : /\ PoolEffect(u, p)
                             /\ p.collateralWei = positions[u].collateralWei
                             /\ p.debtFxrp \in 0..positions[u].debtFxrp
<1> DEFINE debt == positions[u].debtFxrp
           amount == IF n > debt THEN debt ELSE n
           p == [positions[u] EXCEPT !.debtFxrp = debt - amount]
<1>1. n \in Nat /\ u \in Accounts /\ u # 0 /\ 0 \in Accounts
  BY PoolAssumption, MathAssumption
<1>2. debt \in 0..MaxUint /\ MaxUint \in Nat
  BY <1>1, Types
<1>3. amount \in Nat /\ debt - amount \in 0..MaxUint
  BY <1>1, <1>2
<1>4. Token!TransferFrom(0, u, 0, amount) /\ UNCHANGED <<coins, prices, registryVars>>
  BY DEF Repay
<1>5. positions' = [positions EXCEPT ![u] = p]
  BY <1>1, Types DEF Repay
<1> HIDE DEF amount
<1>6. p \in Positions /\ p.collateralWei = positions[u].collateralWei
      /\ p.debtFxrp = debt - amount
  BY <1>1, <1>3, Types DEF Positions
<1>7. TokenOK' /\ balanceOf'[0] = balanceOf[0] + amount
  BY <1>1, <1>3, <1>4, Types, TokenTransfer
<1>8. coins \in [Accounts -> Nat] /\ coins[0] \in Nat /\ balanceOf[0] \in Nat
      /\ positions[u].collateralWei \in Nat
  BY <1>1, Types
<1> HIDE DEF p, debt
<1>9. debt = positions[u].debtFxrp
  BY DEF debt
<1>10. coins'[0] - coins[0] = p.collateralWei - positions[u].collateralWei
  BY <1>4, <1>6, <1>8
<1>11. balanceOf'[0] - balanceOf[0] = positions[u].debtFxrp - p.debtFxrp
  BY <1>2, <1>3, <1>6, <1>7, <1>8, <1>9
<1>12. PoolEffect(u, p)
  BY <1>4, <1>5, <1>7, <1>8, <1>10, <1>11 DEF PoolEffect
<1>13. p.debtFxrp \in 0..positions[u].debtFxrp
  BY <1>2, <1>3, <1>6, <1>9
<1>14. QED BY <1>6, <1>12, <1>13

LEMMA LiquidateEffect ==
  ASSUME IInv, NEW u \in Users, NEW a \in Users, Liquidate(u, a)
  PROVE  \E p \in Positions : /\ PoolEffect(a, p)
                             /\ p.collateralWei \in 0..positions[a].collateralWei
                             /\ p.debtFxrp = 0
<1> DEFINE debt == positions[a].debtFxrp
           coll == positions[a].collateralWei
           seized == SeizedWei(debt, coll, prices)
           p == [collateralWei |-> coll - seized, debtFxrp |-> 0]
<1>1. u \in Accounts /\ a \in Accounts /\ u # 0 /\ 0 \in Accounts /\ MaxUint \in Nat
  BY PoolAssumption, MathAssumption
<1>2. debt \in Nat /\ coll \in Nat /\ prices \in PricePairs
  BY <1>1, Types
<1>3. /\ Token!TransferFrom(0, u, 0, debt)
      /\ coll >= seized
      /\ positions' = [positions EXCEPT ![a] = p]
      /\ coins[0] >= seized
      /\ coins' = Move(coins, 0, u, seized)
      /\ UNCHANGED <<prices, registryVars>>
  BY DEF Liquidate
<1>4. FxrpValue(prices) > 0
  <2>1. FxrpValue(prices) \in Nat /\ (debt # 0 => FxrpValue(prices) \in 1..MaxUint)
    BY <1>2, PriceType DEF Liquidate, Unhealthy, HealthKnown, HealthReturns, FxrpToWeiReturns
  <2>2. debt # 0
    BY DEF Liquidate, Unhealthy, Covered, Covers
  <2>3. QED BY <2>1, <2>2
<1>5. seized \in Nat
  <2> HIDE DEF debt, coll
  <2>1. SeizedWei(debt, coll, prices) \in 0..coll
    BY <1>2, <1>4, SeizureIsBounded
  <2>2. QED BY <1>2, <2>1
<1> HIDE DEF seized
<1>6. p \in Positions /\ p.collateralWei = coll - seized /\ p.debtFxrp = 0
  BY <1>1, <1>2, <1>3, <1>5 DEF Positions
<1>7. coins' \in [Accounts -> Nat] /\ coins'[0] = coins[0] - seized
  <2>1. coins \in [Accounts -> Nat] /\ coins[0] >= seized
    BY <1>3, Types
  <2>2. coins' = Move(coins, 0, u, seized)
    BY <1>3
  <2>3. /\ Move(coins, 0, u, seized) \in [Accounts -> Nat]
        /\ Move(coins, 0, u, seized)[0] = coins[0] - seized
    <3>1. u \in Accounts /\ 0 \in Accounts /\ 0 # u
      BY <1>1
    <3>2. QED BY <1>5, <2>1, <3>1, CoinMove, Zenon
  <2>4. QED BY <2>2, <2>3
<1>8. TokenOK' /\ balanceOf'[0] = balanceOf[0] + debt
  BY <1>1, <1>2, <1>3, Types, TokenTransfer
<1>9. coins[0] \in Nat /\ balanceOf[0] \in Nat
  BY <1>1, Types
<1> HIDE DEF p
<1>10. coins'[0] - coins[0] = p.collateralWei - positions[a].collateralWei
  BY <1>2, <1>5, <1>6, <1>7, <1>9
<1>11. balanceOf'[0] - balanceOf[0] = positions[a].debtFxrp - p.debtFxrp
  BY <1>2, <1>6, <1>8, <1>9
<1>12. PoolEffect(a, p)
  BY <1>3, <1>7, <1>8, <1>10, <1>11 DEF PoolEffect
<1>13. p.collateralWei \in 0..positions[a].collateralWei
  BY <1>2, <1>3, <1>5, <1>6
<1>14. QED BY <1>6, <1>12, <1>13

\* A transaction of the pool is an effect on one position.
LEMMA PoolStepEffect ==
  ASSUME IInv, NEW u \in Users, PoolStep(u)
  PROVE  \E a \in Users, p \in Positions : PoolEffect(a, p)
<1>1. CASE \E w \in WeiAmounts : Deposit(u, w) \/ Withdraw(u, w)
  BY <1>1, DepositEffect, WithdrawEffect
<1>2. CASE \E amount \in Amounts : Borrow(u, amount) \/ Repay(u, amount)
  BY <1>2, BorrowEffect, RepayEffect
<1>3. CASE \E who \in Users : Liquidate(u, who)
  BY <1>3, LiquidateEffect
<1>4. QED BY <1>1, <1>2, <1>3 DEF PoolStep

\* Such an effect keeps the invariant and the loan book.
LEMMA EffectKeeps ==
  ASSUME IInv, NEW a \in Users, NEW p \in Positions, PoolEffect(a, p)
  PROVE  IInv' /\ LoanBook' = LoanBook
<1>1. a \in Accounts /\ 0 \in Accounts /\ NumAccounts \in Nat
  BY PoolAssumption
<1>2. /\ positions' = [positions EXCEPT ![a] = p]
      /\ coins' \in [Accounts -> Nat]
      /\ coins'[0] - coins[0] = p.collateralWei - positions[a].collateralWei
      /\ TokenOK'
      /\ balanceOf'[0] - balanceOf[0] = positions[a].debtFxrp - p.debtFxrp
      /\ UNCHANGED <<prices, registryVars>>
  BY DEF PoolEffect
<1>3. positions \in [Accounts -> Positions]
  BY Types
<1>4. /\ positions' \in [Accounts -> Positions]
      /\ Total(Collateral, NumAccounts) \in Int
      /\ Total(Debts, NumAccounts) \in Int
      /\ Total(Collateral', NumAccounts) = Total(Collateral, NumAccounts)
           - positions[a].collateralWei + p.collateralWei
      /\ Total(Debts', NumAccounts) = Total(Debts, NumAccounts)
           - positions[a].debtFxrp + p.debtFxrp
  BY <1>1, <1>2, <1>3, PositionUpdate
<1>5. /\ coins[0] \in Nat /\ coins'[0] \in Nat /\ balanceOf[0] \in Nat
      /\ balanceOf'[0] \in 0..MaxUint
      /\ positions[a].collateralWei \in Nat /\ positions[a].debtFxrp \in Nat
  BY <1>1, <1>2, Types DEF TokenOK, Token!TypeOK
<1>6. p.collateralWei \in Nat /\ p.debtFxrp \in Nat /\ balanceOf'[0] \in Nat
  BY <1>5, MathAssumption DEF Positions
<1>7. coins[0] = Total(Collateral, NumAccounts)
  BY DEF IInv, CollateralBacked
<1> DEFINE c == positions[a].collateralWei
           d == positions[a].debtFxrp
           sum == Total(Collateral, NumAccounts)
           debts == Total(Debts, NumAccounts)
<1>8. coins'[0] = Total(Collateral', NumAccounts)
  <2>1. /\ Total(Collateral', NumAccounts) = sum - c + p.collateralWei
        /\ coins'[0] - coins[0] = p.collateralWei - c
        /\ sum \in Int /\ c \in Nat /\ coins[0] = sum
    BY <1>2, <1>4, <1>5, <1>7
  <2> HIDE DEF c, sum
  <2>2. QED BY <1>5, <1>6, <2>1
<1>9. LoanBook' = LoanBook
  <2>1. /\ Total(Debts', NumAccounts) = debts - d + p.debtFxrp
        /\ balanceOf'[0] - balanceOf[0] = d - p.debtFxrp
        /\ debts \in Int /\ d \in Nat
        /\ LoanBook = balanceOf[0] + debts
        /\ LoanBook' = balanceOf'[0] + Total(Debts', NumAccounts)
    BY <1>2, <1>4, <1>5 DEF LoanBook
  <2> HIDE DEF d, debts
  <2>2. QED BY <1>5, <1>6, <2>1
<1> HIDE DEF c, d, sum, debts
<1>10. Registry!TypeOK' /\ Registry!StoredScoresWereSigned' /\ prices' \in Prices
  BY <1>2 DEF IInv, TypeOK, registryVars, Registry!TypeOK, Registry!StoredScoresWereSigned
<1>11. QED
  BY <1>2, <1>4, <1>8, <1>9, <1>10
     DEF IInv, TypeOK, TokenOK, CollateralBacked
-----------------------------------------------------------------------------
\* Minting adds to the supply and to one balance, and never overflows.
LEMMA TokenMint ==
  ASSUME TokenOK, NEW to \in Accounts, NEW amount \in Nat, Token!Mint(to, amount)
  PROVE  TokenOK' /\ balanceOf'[0] >= balanceOf[0]
<1>1. NumAccounts \in Nat /\ MaxUint \in Nat /\ MaxSupply \in 0..MaxUint /\ 0 \in Accounts
  BY PoolAssumption, MathAssumption
<1>2. balanceOf \in [0..NumAccounts -> Int] /\ balanceOf \in [0..NumAccounts -> Nat]
      /\ totalSupply \in Nat
  <2>1. balanceOf \in [Accounts -> 0..MaxUint] /\ totalSupply \in 0..MaxUint
    BY DEF TokenOK, Token!TypeOK
  <2>2. \A n \in 0..MaxUint : n \in Nat /\ n \in Int
    BY <1>1
  <2>3. QED BY <2>1, <2>2
<1> DEFINE new == balanceOf[to] + amount
<1>3. new \in Nat /\ new >= balanceOf[to] /\ new \in Int
  BY <1>2
<1>4. balanceOf' = [balanceOf EXCEPT ![to] = new] /\ totalSupply' = totalSupply + amount
      /\ totalSupply' <= MaxSupply /\ allowance' = allowance
  BY DEF Token!Mint
<1>5. /\ Total([balanceOf EXCEPT ![to] = new], NumAccounts)
           = Total(balanceOf, NumAccounts) - balanceOf[to] + new
      /\ Total(balanceOf, NumAccounts) \in Int
  <2> HIDE DEF new
  <2>1. QED BY <1>1, <1>2, <1>3, TotalUpdate
<1>6. totalSupply = Total(balanceOf, NumAccounts)
  BY SameSums DEF TokenOK, Token!SupplyIsTotal
<1>7. totalSupply' = Total(balanceOf', NumAccounts)
  BY <1>2, <1>4, <1>5, <1>6
<1>8. balanceOf' \in [0..NumAccounts -> Nat] /\ balanceOf'[0] >= balanceOf[0]
  <2> HIDE DEF new
  <2>1. QED BY <1>1, <1>2, <1>3, <1>4
<1>9. totalSupply' \in 0..MaxUint
  BY <1>1, <1>2, <1>4
<1>10. \A b \in Accounts : balanceOf'[b] <= Total(balanceOf', NumAccounts)
  BY <1>1, <1>8, TotalBounds
<1>11. balanceOf' \in [Accounts -> 0..MaxUint]
  BY <1>1, <1>7, <1>8, <1>9, <1>10
<1>12. QED
  BY <1>4, <1>7, <1>8, <1>9, <1>11, SameSums
     DEF TokenOK, Token!TypeOK, Token!SupplyIsTotal

\* The token's holders leave the pool at least what it had.
LEMMA HolderKeeps ==
  ASSUME IInv, HolderStep
  PROVE  /\ TokenOK' /\ balanceOf'[0] >= balanceOf[0] /\ balanceOf'[0] \in Nat
         /\ UNCHANGED <<poolVars, prices, registryVars>>
<1>1. PICK a \in Users, b \in Accounts, amount \in Amounts :
        \/ Token!Mint(b, amount)
        \/ Token!Transfer(a, b, amount)
        \/ Token!Approve(a, Pool, amount)
  BY DEF HolderStep
<1>2. amount \in Nat /\ amount \in 0..MaxUint /\ a \in Accounts /\ 0 \in Accounts /\ a # 0
  BY PoolAssumption, MathAssumption
<1>3. UNCHANGED <<poolVars, prices, registryVars>>
  BY DEF HolderStep
<1>4. TokenOK /\ balanceOf \in [Accounts -> Nat]
  BY Types
<1>5. ASSUME Token!Mint(b, amount)
      PROVE  TokenOK' /\ balanceOf'[0] >= balanceOf[0]
  BY <1>2, <1>4, <1>5, TokenMint
<1>6. ASSUME Token!Transfer(a, b, amount)
      PROVE  TokenOK' /\ balanceOf'[0] >= balanceOf[0]
  <2>1. TokenOK'
    BY <1>2, <1>4, <1>6, TokenTransfer
  <2>2. balanceOf' = Token!Move(balanceOf, a, b, amount)
    BY <1>6 DEF Token!Transfer, Token!TransferTail
  <2>3. balanceOf[0] \in Nat
    BY <1>2, <1>4
  <2>4. balanceOf'[0] = IF b = 0 THEN balanceOf[0] + amount ELSE balanceOf[0]
    BY <1>2, <1>4, <2>2 DEF Token!Move
  <2>5. QED BY <1>2, <2>1, <2>3, <2>4
<1>7. ASSUME Token!Approve(a, Pool, amount)
      PROVE  TokenOK' /\ balanceOf'[0] >= balanceOf[0]
  <2>1. allowance' \in [Accounts -> [Accounts -> 0..MaxUint]]
    BY <1>2, <1>4, <1>7 DEF Token!Approve, TokenOK, Token!TypeOK
  <2>2. balanceOf' = balanceOf /\ totalSupply' = totalSupply
    BY <1>7 DEF Token!Approve
  <2>3. balanceOf[0] \in Nat
    BY <1>2, <1>4
  <2>4. QED BY <1>4, <2>1, <2>2, <2>3 DEF TokenOK, Token!TypeOK, Token!SupplyIsTotal
<1>8. TokenOK' /\ balanceOf'[0] >= balanceOf[0]
  BY <1>1, <1>5, <1>6, <1>7
<1>9. balanceOf'[0] \in Nat
  BY <1>2, <1>8, MathAssumption DEF TokenOK, Token!TypeOK
<1>10. QED BY <1>3, <1>8, <1>9

\* The registry keeps its own invariant (RelayerKey_proofs has the same
\* argument, for the registry alone).
LEMMA RegistryKeeps ==
  ASSUME Registry!TypeOK, Registry!StoredScoresWereSigned, Registry!Next
  PROVE  Registry!TypeOK' /\ Registry!StoredScoresWereSigned'
<1>1. CASE Registry!Registration
  <2>1. PICK h \in CodeHashes, k \in Keys \cup {NoKey} :
          teeSignerOf' = [teeSignerOf EXCEPT ![h] = k]
          /\ UNCHANGED <<scores, now, signed>>
    BY <1>1 DEF Registry!Registration, Registry!RegisterTeeSigner
  <2>2. QED BY <2>1 DEF Registry!TypeOK, Registry!StoredScoresWereSigned
<1>2. CASE Registry!EnclaveStep
  <2>1. PICK k \in Keys, a \in Subjects, v \in ScoreValues, h \in CodeHashes :
          Registry!EnclaveSigns(k, a, v, h)
    BY <1>2 DEF Registry!EnclaveStep
  <2>2. [key |-> k, digest |-> Registry!Digest(a, v, now + Validity, h)]
          \in [key : Keys, digest : Registry!Digests]
    BY PoolAssumption DEF Registry!Digest, Registry!Digests, Registry!TypeOK
  <2>3. Registry!TypeOK'
    BY <2>1, <2>2 DEF Registry!EnclaveSigns, Registry!TypeOK
  <2>4. signed \subseteq signed' /\ scores' = scores
    BY <2>1 DEF Registry!EnclaveSigns
  <2>5. QED BY <2>3, <2>4 DEF Registry!StoredScoresWereSigned
<1>3. CASE Registry!Submission
  <2>1. PICK d \in {s.digest : s \in signed}, a \in Subjects :
          \E sig \in signed \cup {[key |-> NoKey, digest |-> [d EXCEPT !.subject = a]]} :
            Registry!SubmitScore(a, d.score, d.expiry, d.codeHash, sig)
    BY <1>3 DEF Registry!Submission
  <2>2. PICK sig \in signed \cup {[key |-> NoKey, digest |-> [d EXCEPT !.subject = a]]} :
          Registry!SubmitScore(a, d.score, d.expiry, d.codeHash, sig)
    BY <2>1
  <2> DEFINE s == [score |-> d.score, expiry |-> d.expiry, codeHash |-> d.codeHash]
  <2>3. d \in Registry!Digests /\ a \in Accounts
    BY PoolAssumption DEF Registry!TypeOK
  <2>4. s \in [score : 0..1000, expiry : Nat, codeHash : CodeHashes]
    BY <2>2, <2>3 DEF Registry!SubmitScore, Registry!Acceptable, Registry!Digests
  <2>5. teeSignerOf[d.codeHash] \in Keys
    BY <2>2, <2>3 DEF Registry!SubmitScore, Registry!Acceptable, Registry!TypeOK, Registry!Digests
  <2>6. /\ sig.digest = Registry!Digest(a, d.score, d.expiry, d.codeHash)
        /\ sig.key = teeSignerOf[d.codeHash]
    BY <2>2, <2>5, PoolAssumption DEF Registry!SubmitScore, Registry!Acceptable, Registry!Recover
  <2>7. sig \in signed
    BY <2>5, <2>6, PoolAssumption
  <2>8. Registry!SpeaksOf(sig.digest, a, s)
    BY <2>6 DEF Registry!Digest, Registry!SpeaksOf
  <2>9. scores' = [scores EXCEPT ![a] = s] /\ UNCHANGED <<teeSignerOf, now, signed>>
    BY <2>2 DEF Registry!SubmitScore, Registry!Acceptable
  <2> HIDE DEF s
  <2>10. Registry!TypeOK'
    BY <2>3, <2>4, <2>9 DEF Registry!TypeOK
  <2>11. ASSUME NEW b \in Accounts, scores'[b] # Registry!NoScore
         PROVE  \E t \in signed' : Registry!SpeaksOf(t.digest, b, scores'[b])
    <3>1. CASE b = a
      BY <2>3, <2>7, <2>8, <2>9, <3>1 DEF Registry!TypeOK
    <3>2. CASE b # a
      BY <2>9, <2>11, <3>2 DEF Registry!TypeOK, Registry!StoredScoresWereSigned
    <3>3. QED BY <3>1, <3>2
  <2>12. QED BY <2>10, <2>11 DEF Registry!StoredScoresWereSigned
<1>4. CASE Registry!Tick
  BY <1>4 DEF Registry!Tick, Registry!TypeOK, Registry!StoredScoresWereSigned
<1>5. QED BY <1>1, <1>2, <1>3, <1>4 DEF Registry!Next
-----------------------------------------------------------------------------
\* The pool as tools/deploy.py leaves it.
LEMMA InitIInv == Init => IInv
<1> SUFFICES ASSUME Init PROVE IInv
  OBVIOUS
<1>1. NumAccounts \in Nat /\ MaxUint \in Nat /\ PoolFunding \in 0..MaxUint
      /\ 0 \in Accounts
  BY PoolAssumption, MathAssumption
<1>2. Collateral = [a \in 0..NumAccounts |-> 0]
  BY DEF Init, Collateral
<1>3. Collateral \in [0..NumAccounts -> Int]
  BY <1>2 DEF Collateral
<1>4. Total(Collateral, NumAccounts) = 0
  BY <1>1, <1>2, <1>3, TotalOfFirst
<1>5. balanceOf \in [0..NumAccounts -> Int] /\ balanceOf[0] = PoolFunding
      /\ \A a \in 1..NumAccounts : balanceOf[a] = 0
  BY <1>1 DEF Init
<1>6. Total(balanceOf, NumAccounts) = PoolFunding
  BY <1>1, <1>5, TotalOfFirst
<1>7. CollateralBacked
  <2>1. coins[0] = 0
    BY <1>1 DEF Init
  <2>2. QED BY <1>4, <2>1 DEF CollateralBacked
<1>8. Token!TypeOK /\ Token!SupplyIsTotal
  BY <1>1, <1>6, SameSums DEF Init, Token!TypeOK, Token!SupplyIsTotal
<1>9. Registry!TypeOK /\ Registry!StoredScoresWereSigned
  BY PoolAssumption
     DEF Init, Registry!Init, Registry!TypeOK, Registry!StoredScoresWereSigned, Registry!NoScore
<1>10. positions \in [Accounts -> Positions] /\ coins \in [Accounts -> Nat]
       /\ prices \in Prices
  <2>1. InitialCoins \in [Users -> Nat]
    BY PoolAssumption
  <2>2. QED BY <1>1, <2>1 DEF Init, Positions
<1>11. QED BY <1>7, <1>8, <1>9, <1>10 DEF IInv, TypeOK

\* Every step keeps the invariant and never shrinks the loan book.
LEMMA StepKeeps ==
  ASSUME IInv, Next
  PROVE  IInv' /\ LoanBookStep
<1>1. /\ balanceOf[0] \in Nat /\ Total(Debts, NumAccounts) \in Int
      /\ Debts \in [0..NumAccounts -> Int]
  <2>1. NumAccounts \in Nat /\ 0 \in Accounts
    BY PoolAssumption
  <2>2. Debts \in [0..NumAccounts -> Int]
    BY Types DEF Debts
  <2>3. QED BY <2>1, <2>2, Types, TotalUpdate
<1>2. ASSUME NEW u \in Users, PoolStep(u) PROVE IInv' /\ LoanBookStep
  <2>1. IInv' /\ LoanBook' = LoanBook
    BY <1>2, PoolStepEffect, EffectKeeps
  <2>2. LoanBook \in Int
    BY <1>1 DEF LoanBook
  <2>3. QED BY <2>1, <2>2 DEF LoanBookStep
<1>3. CASE HolderStep
  <2>1. /\ TokenOK' /\ balanceOf'[0] >= balanceOf[0] /\ balanceOf'[0] \in Nat
        /\ UNCHANGED <<positions, coins, prices, registryVars>>
    BY <1>3, HolderKeeps DEF poolVars
  <2>2. IInv'
    BY <2>1 DEF IInv, TypeOK, TokenOK, CollateralBacked, Collateral, registryVars,
                Registry!TypeOK, Registry!StoredScoresWereSigned
  <2>3. Total(Debts, NumAccounts)' = Total(Debts, NumAccounts)
    BY <2>1 DEF Debts
  <2>4. LoanBookStep
    BY <1>1, <2>1, <2>3 DEF LoanBookStep, LoanBook
  <2>5. QED BY <2>2, <2>4
<1>4. CASE RegistryStep \/ SetFeeds
  <2>1. UNCHANGED <<positions, coins, balanceOf, totalSupply, allowance>>
    BY <1>4 DEF RegistryStep, SetFeeds, poolVars, tokenVars
  <2>2. LoanBookStep
    BY <1>1, <2>1 DEF LoanBookStep, LoanBook, Debts
  <2>3. CollateralBacked' /\ Token!TypeOK' /\ Token!SupplyIsTotal'
    BY <2>1 DEF IInv, TypeOK, CollateralBacked, Collateral, Token!TypeOK, Token!SupplyIsTotal
  <2>4. Registry!TypeOK' /\ Registry!StoredScoresWereSigned' /\ prices' \in Prices
    <3>1. CASE RegistryStep
      BY <3>1, RegistryKeeps DEF RegistryStep, IInv, TypeOK
    <3>2. CASE SetFeeds
      BY <3>2 DEF SetFeeds, registryVars, IInv, TypeOK, Registry!TypeOK,
                  Registry!StoredScoresWereSigned
    <3>3. QED BY <1>4, <3>1, <3>2
  <2>5. QED BY <2>1, <2>2, <2>3, <2>4 DEF IInv, TypeOK
<1>5. QED BY <1>2, <1>3, <1>4 DEF Next

LEMMA NextIInv == IInv /\ [Next]_vars => IInv'
<1>1. ASSUME IInv, UNCHANGED vars PROVE IInv'
  BY <1>1 DEF vars, poolVars, tokenVars, registryVars, IInv, TypeOK, CollateralBacked,
              Collateral, Token!TypeOK, Token!SupplyIsTotal, Registry!TypeOK,
              Registry!StoredScoresWereSigned
<1>2. QED BY <1>1, StepKeeps

\* Every reachable state of the pool satisfies the inductive invariant.
LEMMA Invariance == Spec => []IInv
BY InitIInv, NextIInv, PTL DEF Spec

\* Type correctness of the pool on its chain: no collateral and no debt is
\* ever negative, and no debt, balance or supply exceeds uint256.
THEOREM TypeCorrect == Spec => []TypeOK
<1>1. IInv => TypeOK
  BY DEF IInv
<1>2. QED BY <1>1, Invariance, PTL

\* The pool always holds exactly the coins its positions say it holds, for any
\* number of accounts, any amounts and any behaviour of the price feeds.
THEOREM CollateralIsBacked == Spec => []CollateralBacked
<1>1. IInv => CollateralBacked
  BY DEF IInv
<1>2. QED BY <1>1, Invariance, PTL

\* FXRP held and FXRP owed, together, never shrink, and no transaction of the
\* pool forgives or invents debt.
THEOREM LoanBookIsConserved == Spec => LoanBookConserved
<1>1. ASSUME IInv, [Next]_vars PROVE [LoanBookStep]_vars
  BY <1>1, StepKeeps
<1>2. QED BY <1>1, Invariance, PTL DEF Spec, LoanBookConserved

\* The lower ratio is only ever granted on a trusted, running, signed score.
THEOREM TrustedRatioAttested == Spec => []TrustedRatioIsAttested
<1>1. ASSUME IInv PROVE TrustedRatioIsAttested
  <2>1. SUFFICES ASSUME NEW u \in Users, CollateralRatioBps(u) = TrustedRatioBps
                 PROVE  \E s \in signed : /\ s.digest.subject = u
                                          /\ s.digest.score >= TrustedScore
                                          /\ s.digest.expiry > now
    BY DEF TrustedRatioIsAttested
  <2>2. u \in Accounts
    BY PoolAssumption
  <2>3. /\ Registry!GetScore(u).score >= TrustedScore
        /\ Registry!GetScore(u).expiry > now
    BY <2>1 DEF CollateralRatioBps, TrustedRatioBps, DefaultRatioBps
  <2>4. TrustedScore > 0 /\ TrustedScore \in Int /\ Registry!NoScore.score = 0
    BY PoolAssumption DEF Registry!NoScore
  <2>5. Registry!GetScore(u) = scores[u] /\ scores[u] # Registry!NoScore
    <3>1. Registry!GetScore(u) # Registry!NoScore
      BY <2>3, <2>4
    <3>2. QED BY <3>1 DEF Registry!GetScore
  <2>6. \E s \in signed : Registry!SpeaksOf(s.digest, u, scores[u])
    BY <1>1, <2>2, <2>5 DEF IInv, Registry!StoredScoresWereSigned
  <2>7. QED BY <2>3, <2>5, <2>6 DEF Registry!SpeaksOf
<1>2. QED BY <1>1, Invariance, PTL
-----------------------------------------------------------------------------
\* The book after an effect that leaves account a with position p.
InBook(a, p) ==
  /\ a \in Accounts
  /\ Collateral' = [Collateral EXCEPT ![a] = p.collateralWei]
  /\ Debts' = [Debts EXCEPT ![a] = p.debtFxrp]
  /\ Collateral[a] = positions[a].collateralWei /\ Debts[a] = positions[a].debtFxrp
  /\ Collateral[a] \in Nat /\ Debts[a] \in Nat
  /\ p.collateralWei \in Nat /\ p.debtFxrp \in Nat
  /\ coins'[0] = coins[0] + p.collateralWei - Collateral[a]
  /\ balanceOf'[0] = balanceOf[0] + Debts[a] - p.debtFxrp
  /\ coins[0] \in Nat /\ balanceOf[0] \in Nat
  /\ p.collateralWei = positions[a].collateralWei => Collateral' = Collateral
  /\ p.debtFxrp = positions[a].debtFxrp => Debts' = Debts

\* An effect on a position, as the book shows it.
LEMMA EffectInBook ==
  ASSUME IInv, NEW a \in Users, NEW p \in Positions, PoolEffect(a, p)
  PROVE  InBook(a, p)
<1>1. a \in Accounts /\ 0 \in Accounts /\ MaxUint \in Nat
  BY PoolAssumption, MathAssumption
<1>2. /\ positions \in [Accounts -> Positions]
      /\ positions[a].collateralWei \in Nat /\ positions[a].debtFxrp \in Nat
      /\ coins[0] \in Nat /\ balanceOf[0] \in Nat
  BY <1>1, Types
<1>3. p.collateralWei \in Nat /\ p.debtFxrp \in Nat
  BY <1>1 DEF Positions
<1>4. positions' = [positions EXCEPT ![a] = p]
  BY DEF PoolEffect
<1>5. Collateral' = [Collateral EXCEPT ![a] = p.collateralWei]
  BY <1>2, <1>4 DEF Collateral
<1>6. Debts' = [Debts EXCEPT ![a] = p.debtFxrp]
  BY <1>2, <1>4 DEF Debts
<1>7. Collateral[a] = positions[a].collateralWei /\ Debts[a] = positions[a].debtFxrp
  BY <1>1 DEF Collateral, Debts
<1>8. coins'[0] \in Nat /\ balanceOf'[0] \in Nat
  BY <1>1, MathAssumption DEF PoolEffect, TokenOK, Token!TypeOK
<1>9. coins'[0] = coins[0] + p.collateralWei - Collateral[a]
  BY <1>2, <1>3, <1>7, <1>8 DEF PoolEffect
<1>10. balanceOf'[0] = balanceOf[0] + Debts[a] - p.debtFxrp
  BY <1>2, <1>3, <1>7, <1>8 DEF PoolEffect
<1>11. Collateral = [Collateral EXCEPT ![a] = Collateral[a]]
       /\ Debts = [Debts EXCEPT ![a] = Debts[a]]
  BY DEF Collateral, Debts
<1>12. QED BY <1>1, <1>2, <1>3, <1>5, <1>6, <1>7, <1>9, <1>10, <1>11 DEF InBook

\* A transaction of the pool is one operation on the book.
LEMMA PoolStepInBook ==
  ASSUME IInv, NEW u \in Users, PoolStep(u) PROVE Book!Next
<1>1. ASSUME NEW w \in WeiAmounts, Deposit(u, w) PROVE Book!Next
  <2>1. PICK p \in Positions : /\ PoolEffect(u, p)
                              /\ p.collateralWei = positions[u].collateralWei + w
                              /\ p.debtFxrp = positions[u].debtFxrp
    BY <1>1, DepositEffect
  <2>b. InBook(u, p)
    BY <2>1, EffectInBook
  <2>2. w \in Nat
    BY PoolAssumption
  <2>3. Book!Put(u, w)
    <3>1. Collateral' = [Collateral EXCEPT ![u] = Collateral[u] + w] /\ Debts' = Debts
      BY <2>1, <2>b DEF InBook
    <3>2. coins'[0] = coins[0] + w /\ balanceOf'[0] = balanceOf[0]
      BY <2>1, <2>2, <2>b DEF InBook
    <3>3. QED BY <3>1, <3>2 DEF Book!Put
  <2>4. u \in Accounts
    BY <2>1, <2>b DEF InBook
  <2>5. QED BY <2>3, <2>4, Zenon DEF Book!Next
<1>2. ASSUME NEW w \in WeiAmounts, Withdraw(u, w) PROVE Book!Next
  <2>1. PICK p \in Positions : /\ PoolEffect(u, p)
                              /\ w <= positions[u].collateralWei
                              /\ p.collateralWei = positions[u].collateralWei - w
                              /\ p.debtFxrp = positions[u].debtFxrp
    BY <1>2, WithdrawEffect
  <2>b. InBook(u, p)
    BY <2>1, EffectInBook
  <2>2. w \in Nat
    BY PoolAssumption
  <2>3. w \in 0..Collateral[u]
    BY <2>1, <2>2, <2>b DEF InBook
  <2>4. Book!Take(u, w)
    <3>1. Collateral' = [Collateral EXCEPT ![u] = Collateral[u] - w] /\ Debts' = Debts
      BY <2>1, <2>b DEF InBook
    <3>2. coins'[0] = coins[0] - w /\ balanceOf'[0] = balanceOf[0]
      BY <2>1, <2>2, <2>b DEF InBook
    <3>3. QED BY <3>1, <3>2 DEF Book!Take
  <2>5. u \in Accounts
    BY <2>1, <2>b DEF InBook
  <2>6. QED BY <2>3, <2>4, <2>5, Zenon DEF Book!Next
<1>3. ASSUME NEW n \in Amounts, Borrow(u, n) PROVE Book!Next
  <2>1. PICK p \in Positions : /\ PoolEffect(u, p)
                              /\ n <= balanceOf[0]
                              /\ p.collateralWei = positions[u].collateralWei
                              /\ p.debtFxrp = positions[u].debtFxrp + n
    BY <1>3, BorrowEffect
  <2>b. InBook(u, p)
    BY <2>1, EffectInBook
  <2>2. n \in Nat
    BY PoolAssumption, MathAssumption
  <2>3. n \in 0..balanceOf[0]
    BY <2>1, <2>2, <2>b DEF InBook
  <2>4. Book!Lend(u, n)
    <3>1. Debts' = [Debts EXCEPT ![u] = Debts[u] + n] /\ Collateral' = Collateral
      BY <2>1, <2>b DEF InBook
    <3>2. balanceOf'[0] = balanceOf[0] - n /\ coins'[0] = coins[0]
      BY <2>1, <2>2, <2>b DEF InBook
    <3>3. QED BY <3>1, <3>2 DEF Book!Lend
  <2>5. u \in Accounts
    BY <2>1, <2>b DEF InBook
  <2>6. QED BY <2>3, <2>4, <2>5, Zenon DEF Book!Next
<1>4. ASSUME NEW n \in Amounts, Repay(u, n) PROVE Book!Next
  <2>1. PICK p \in Positions : /\ PoolEffect(u, p)
                              /\ p.collateralWei = positions[u].collateralWei
                              /\ p.debtFxrp \in 0..positions[u].debtFxrp
    BY <1>4, RepayEffect
  <2>b. InBook(u, p)
    BY <2>1, EffectInBook
  <2> DEFINE back == Debts[u] - p.debtFxrp
  <2>2. back \in 0..Debts[u] /\ Debts[u] - back = p.debtFxrp
    BY <2>1, <2>b DEF InBook
  <2>3. Book!Return(u, back)
    <3>1. Debts' = [Debts EXCEPT ![u] = Debts[u] - back] /\ Collateral' = Collateral
      BY <2>1, <2>2, <2>b DEF InBook
    <3>2. balanceOf'[0] = balanceOf[0] + back /\ coins'[0] = coins[0]
      BY <2>1, <2>b DEF InBook
    <3>3. QED BY <3>1, <3>2 DEF Book!Return
  <2> HIDE DEF back
  <2>4. u \in Accounts
    BY <2>1, <2>b DEF InBook
  <2>5. QED BY <2>2, <2>3, <2>4, Zenon DEF Book!Next
<1>5. ASSUME NEW a \in Users, Liquidate(u, a) PROVE Book!Next
  <2>1. PICK p \in Positions : /\ PoolEffect(a, p)
                              /\ p.collateralWei \in 0..positions[a].collateralWei
                              /\ p.debtFxrp = 0
    BY <1>5, LiquidateEffect
  <2>b. InBook(a, p)
    BY <2>1, EffectInBook
  <2> DEFINE seized == Collateral[a] - p.collateralWei
  <2>2. seized \in 0..Collateral[a] /\ Collateral[a] - seized = p.collateralWei
    BY <2>1, <2>b DEF InBook
  <2>3. Book!Close(a, seized)
    <3>1. /\ Collateral' = [Collateral EXCEPT ![a] = Collateral[a] - seized]
          /\ Debts' = [Debts EXCEPT ![a] = 0]
      BY <2>1, <2>2, <2>b DEF InBook
    <3>2. balanceOf'[0] = balanceOf[0] + Debts[a] /\ coins'[0] = coins[0] - seized
      BY <2>1, <2>b DEF InBook
    <3>3. QED BY <3>1, <3>2 DEF Book!Close
  <2> HIDE DEF seized
  <2>4. a \in Accounts
    BY <2>1, <2>b DEF InBook
  <2>5. QED BY <2>2, <2>3, <2>4, Zenon DEF Book!Next
<1>6. QED BY <1>1, <1>2, <1>3, <1>4, <1>5 DEF PoolStep

\* Every step is an operation on the book or leaves it alone.
LEMMA StepInBook == IInv /\ [Next]_vars => [Book!Next]_Book!bookVars
<1> SUFFICES ASSUME IInv, [Next]_vars PROVE [Book!Next]_Book!bookVars
  OBVIOUS
<1>1. CASE \E u \in Users : PoolStep(u)
  BY <1>1, PoolStepInBook
<1>2. CASE HolderStep
  <2>1. balanceOf'[0] >= balanceOf[0] /\ balanceOf'[0] \in Nat /\ UNCHANGED <<positions, coins>>
    BY <1>2, HolderKeeps DEF poolVars
  <2>2. Book!Gift
    BY <2>1 DEF Book!Gift, Collateral, Debts
  <2>3. QED BY <2>2 DEF Book!Next
<1>3. CASE RegistryStep \/ SetFeeds \/ UNCHANGED vars
  <2>1. UNCHANGED <<positions, coins, balanceOf>>
    BY <1>3 DEF RegistryStep, SetFeeds, vars, poolVars, tokenVars
  <2>2. QED BY <2>1 DEF Book!bookVars, Collateral, Debts
<1>4. QED BY <1>1, <1>2, <1>3 DEF Next

\* The pool implements the book of collateral and debt, for any number of
\* accounts, any amounts, any prices and any scores.
THEOREM PoolImplementsBook == Spec => ImplementsLendingBook
<1>1. Init => Book!Init
  BY PoolAssumption, MathAssumption DEF Init, Book!Init, Collateral, Debts
<1>2. QED BY <1>1, StepInBook, Invariance, PTL DEF Spec, ImplementsLendingBook, Book!Spec

-----------------------------------------------------------------------------
\* The ratio asked of an account is one of the two.
LEMMA RatioType ==
  ASSUME NEW u PROVE CollateralRatioBps(u) \in Nat \ {0}
BY DEF CollateralRatioBps, TrustedRatioBps, DefaultRatioBps

\* borrow grants what maxBorrowable promises: the two roundings of
\* maxBorrowable and the two of _healthy never disagree.
THEOREM BorrowLimitHonoured == Spec => []BorrowLimitIsHonoured
<1>1. ASSUME IInv PROVE BorrowLimitIsHonoured
  <2>1. SUFFICES ASSUME NEW u \in Users,
                        MaxBorrowableReturns(positions[u].collateralWei, prices),
                        NEW n \in 1..BorrowLimit(u)
                 PROVE  Covered(u, [positions[u] EXCEPT !.debtFxrp = @ + n])
    BY DEF BorrowLimitIsHonoured
  <2> DEFINE coll == positions[u].collateralWei
             debt == positions[u].debtFxrp
             ratio == CollateralRatioBps(u)
             after == [positions[u] EXCEPT !.debtFxrp = debt + n]
  <2>2. /\ u \in Accounts /\ positions[u] \in Positions
        /\ coll \in Nat /\ debt \in Nat /\ prices \in PricePairs
    BY <1>1, Types, PoolAssumption
  <2>3. WeiValue(prices) > 0
    <3>1. WeiValue(prices) \in 1..MaxUint
      BY <2>1 DEF MaxBorrowableReturns, WeiToFxrpReturns
    <3>2. QED BY <3>1, MathAssumption
  <2>4. n \in Nat \ {0} /\ n <= MaxBorrowable(coll, debt, ratio, prices)
    BY <2>1 DEF BorrowLimit
  <2>5. Covers(coll, debt + n, ratio, prices)
    <3>1. ratio \in Nat \ {0}
      BY RatioType
    <3> HIDE DEF coll, debt, ratio
    <3>2. QED BY <2>2, <2>3, <2>4, <3>1, MaxBorrowableIsCovered
  <2>6. after.collateralWei = coll /\ after.debtFxrp = debt + n
    BY <2>2 DEF Positions
  <2>7. QED BY <2>5, <2>6 DEF Covered
<1>2. QED BY <1>1, Invariance, PTL

\* What an unhealthy position's liquidation takes.
LEMMA LiquidationTakes ==
  ASSUME IInv, NEW v \in Users, NEW u \in Users, Liquidate(v, u)
  PROVE  LET p == positions[u]
             loss == p.collateralWei - positions'[u].collateralWei
         IN  /\ Unhealthy(u, p)
             /\ positions'[u].debtFxrp = 0
             /\ loss * BPS <= FxrpToWei(p.debtFxrp, prices) * (BPS + LiquidationBonusBps)
<1> DEFINE debt == positions[u].debtFxrp
           coll == positions[u].collateralWei
           seized == SeizedWei(debt, coll, prices)
<1>1. u \in Accounts /\ positions \in [Accounts -> Positions]
      /\ debt \in Nat /\ coll \in Nat /\ prices \in PricePairs
  BY PoolAssumption, Types
<1>2. /\ Unhealthy(u, positions[u])
      /\ positions' = [positions EXCEPT
           ![u] = [collateralWei |-> coll - seized, debtFxrp |-> 0]]
  BY DEF Liquidate
<1>3. FxrpValue(prices) > 0
  <2>1. FxrpValue(prices) \in Nat /\ (debt # 0 => FxrpValue(prices) \in 1..MaxUint)
    BY <1>1, <1>2, PriceType DEF Unhealthy, HealthKnown, HealthReturns, FxrpToWeiReturns
  <2>2. debt # 0
    BY <1>2 DEF Unhealthy, Covered, Covers
  <2>3. QED BY <2>1, <2>2
<1>4. /\ seized \in 0..coll
      /\ seized * BPS <= FxrpToWei(debt, prices) * (BPS + LiquidationBonusBps)
  <2> HIDE DEF debt, coll
  <2>1. QED BY <1>1, <1>3, SeizureIsBounded
<1> HIDE DEF seized
<1>5. positions'[u].collateralWei = coll - seized /\ positions'[u].debtFxrp = 0
  BY <1>1, <1>2
<1>6. coll - positions'[u].collateralWei = seized
  BY <1>1, <1>4, <1>5
<1>7. QED BY <1>2, <1>4, <1>5, <1>6

\* Only transactions of the pool touch positions.
LEMMA OnlyThePoolMovesPositions ==
  ASSUME IInv, Next, positions' # positions
  PROVE  \E v \in Users : PoolStep(v)
BY DEF Next, SetFeeds, HolderStep, RegistryStep, poolVars

\* Collateral goes to its owner, who stays covered, or to a liquidator within
\* the bonus: nobody else's step takes any.
THEOREM CollateralIsFair == Spec => CollateralLeavesFairly
<1>1. ASSUME IInv, Next, NEW u \in Users,
             positions[u].collateralWei - positions'[u].collateralWei > 0
      PROVE  LET p == positions[u]
                 loss == p.collateralWei - positions'[u].collateralWei
             IN  \/ /\ coins'[u] = coins[u] + loss
                    /\ positions'[u].debtFxrp = p.debtFxrp
                    /\ Covered(u, positions[u])'
                 \/ /\ Unhealthy(u, p)
                    /\ positions'[u].debtFxrp = 0
                    /\ loss * BPS <=
                         FxrpToWei(p.debtFxrp, prices) * (BPS + LiquidationBonusBps)
  <2>1. /\ u \in Accounts /\ u # 0 /\ positions \in [Accounts -> Positions]
        /\ positions[u] \in Positions /\ 0 \in Accounts
        /\ positions[u].collateralWei \in Nat /\ coins \in [Accounts -> Nat]
    BY <1>1, Types, PoolAssumption
  <2>2. positions' # positions /\ positions'[u].collateralWei # positions[u].collateralWei
    <3>1. positions[u].collateralWei - positions'[u].collateralWei > 0
      BY <1>1
    <3>2. positions[u].collateralWei - positions[u].collateralWei = 0
      BY <2>1
    <3>3. QED BY <3>1, <3>2
  <2>3. PICK v \in Users : PoolStep(v)
    BY <1>1, <2>2, OnlyThePoolMovesPositions
  <2>4. v \in Accounts /\ positions[v].collateralWei \in Nat
    <3>1. v \in Accounts
      BY PoolAssumption
    <3>2. QED BY <1>1, <3>1, Types
  <2>5. ASSUME NEW w \in WeiAmounts, Deposit(v, w) PROVE FALSE
    <3>1. w \in Nat
      BY PoolAssumption
    <3>2. positions' = [positions EXCEPT ![v].collateralWei = positions[v].collateralWei + w]
      BY <2>5 DEF Deposit
    <3>3. CASE u = v
      <4>1. positions'[u].collateralWei = positions[u].collateralWei + w
        BY <2>1, <3>2, <3>3 DEF Positions
      <4>2. QED BY <1>1, <2>1, <3>1, <4>1
    <3>4. CASE u # v
      BY <2>1, <2>2, <3>2, <3>4
    <3>5. QED BY <3>3, <3>4
  <2>6. ASSUME NEW w \in WeiAmounts, Withdraw(v, w)
        PROVE  /\ coins'[u] = coins[u] + (positions[u].collateralWei
                                           - positions'[u].collateralWei)
               /\ positions'[u].debtFxrp = positions[u].debtFxrp
               /\ Covered(u, positions[u])'
    <3>1. w \in Nat
      BY PoolAssumption
    <3> DEFINE after == [positions[v] EXCEPT !.collateralWei = positions[v].collateralWei - w]
    <3>2. /\ positions' = [positions EXCEPT ![v] = after]
          /\ Healthy(v, after)
          /\ coins[0] >= w
          /\ coins' = Move(coins, 0, v, w)
          /\ prices' = prices /\ UNCHANGED registryVars
      BY <2>6 DEF Withdraw
    <3>3. u = v
      BY <2>1, <2>2, <3>2
    <3>4. positions'[u] = after
      BY <2>1, <3>2, <3>3
    <3>5. /\ positions'[u].collateralWei = positions[u].collateralWei - w
          /\ positions'[u].debtFxrp = positions[u].debtFxrp
      BY <2>1, <3>3, <3>4 DEF Positions
    <3>6. coins'[u] = coins[u] + w
      <4>1. coins' = Move(coins, 0, u, w) /\ coins[0] >= w
        BY <3>2, <3>3
      <4>2. coins \in [Accounts -> Nat] /\ u \in Accounts /\ u # 0 /\ 0 \in Accounts
        BY <2>1
      <4>3. QED BY <3>1, <4>1, <4>2, CoinMove
    <3>7. positions[u].collateralWei - positions'[u].collateralWei = w
      BY <2>1, <3>1, <3>5
    <3>8. Covered(u, positions[u])'
      <4>1. Covered(u, after)
        BY <3>2, <3>3 DEF Healthy
      <4>2. CollateralRatioBps(u)' = CollateralRatioBps(u)
        BY <3>2 DEF registryVars, CollateralRatioBps, Registry!GetScore
      <4> HIDE DEF after
      <4>3. QED BY <3>2, <3>4, <4>1, <4>2 DEF Covered
    <3>9. QED BY <3>5, <3>6, <3>7, <3>8
  <2>7. ASSUME NEW n \in Amounts, Borrow(v, n) \/ Repay(v, n) PROVE FALSE
    <3>1. PICK d : positions' = [positions EXCEPT
                                   ![v] = [positions[v] EXCEPT !.debtFxrp = d]]
      <4>1. CASE Borrow(v, n)
        BY <4>1 DEF Borrow
      <4>2. CASE Repay(v, n)
        BY <4>2 DEF Repay
      <4>3. QED BY <2>7, <4>1, <4>2
    <3>2. positions'[u].collateralWei = positions[u].collateralWei
      BY <2>1, <2>4, <3>1 DEF Positions
    <3>3. QED BY <2>2, <3>2
  <2>8. ASSUME NEW who \in Users, Liquidate(v, who) PROVE who = u
    <3>1. \E p : positions' = [positions EXCEPT ![who] = p]
      BY <2>8 DEF Liquidate
    <3>2. QED BY <2>1, <2>2, <3>1
  <2>9. QED BY <1>1, <2>3, <2>5, <2>6, <2>7, <2>8, LiquidationTakes DEF PoolStep
<1>2. ASSUME IInv, [Next]_vars PROVE [CollateralStep]_vars
  BY <1>1, <1>2 DEF CollateralStep
<1>3. QED BY <1>2, Invariance, PTL DEF Spec, CollateralLeavesFairly

\* A covered position stays covered when it owes no more and holds no less.
LEMMA CoverKept ==
  ASSUME IInv, NEW u \in Users, NEW p \in Positions, NEW q \in Positions,
         Healthy(u, p), q.collateralWei >= p.collateralWei, q.debtFxrp <= p.debtFxrp
  PROVE  Covered(u, q)
<1> DEFINE ratio == CollateralRatioBps(u)
<1>1. /\ p.collateralWei \in Nat /\ p.debtFxrp \in Nat /\ q.collateralWei \in Nat
      /\ q.debtFxrp \in Nat /\ prices \in PricePairs /\ ratio \in Nat
  BY Types, RatioType, MathAssumption DEF Positions
<1>2. Covers(p.collateralWei, p.debtFxrp, ratio, prices)
  BY DEF Healthy, Covered
<1>3. CASE q.debtFxrp = 0
  BY <1>3 DEF Covered, Covers
<1>4. CASE q.debtFxrp # 0
  <2>1. FxrpValue(prices) > 0
    <3>1. p.debtFxrp # 0
      BY <1>1, <1>4
    <3>2. FxrpValue(prices) \in 1..MaxUint /\ FxrpValue(prices) \in Nat
      BY <1>1, <3>1, PriceType DEF Healthy, HealthKnown, HealthReturns, FxrpToWeiReturns
    <3>3. QED BY <3>2
  <2> HIDE DEF ratio
  <2>2. Covers(p.collateralWei, q.debtFxrp, ratio, prices)
    BY <1>1, <1>2, <2>1, RepayKeepsCover
  <2>3. p.collateralWei >= RequiredWei(q.debtFxrp, ratio, prices)
        /\ RequiredWei(q.debtFxrp, ratio, prices) \in Int
    <3>1. RequiredWei(q.debtFxrp, ratio, prices) \in Nat
      BY <1>1, <2>1, RequiredType
    <3>2. p.collateralWei >= RequiredWei(q.debtFxrp, ratio, prices)
      BY <1>4, <2>2 DEF Covers
    <3>3. QED BY <3>1, <3>2
  <2>4. q.collateralWei >= RequiredWei(q.debtFxrp, ratio, prices)
    BY <1>1, <2>3
  <2>5. QED BY <2>4 DEF Covered, Covers, ratio
<1>5. QED BY <1>3, <1>4

\* No transaction of the pool leaves a healthy position short.
LEMMA PoolKeepsCover ==
  ASSUME IInv, NEW v \in Users, PoolStep(v), NEW u \in Users, Healthy(u, positions[u])
  PROVE  Covered(u, positions'[u])
<1>1. /\ u \in Accounts /\ v \in Accounts /\ positions \in [Accounts -> Positions]
      /\ positions[u] \in Positions
      /\ positions[u].collateralWei \in Nat /\ positions[u].debtFxrp \in Nat
  <2>1. u \in Accounts /\ v \in Accounts
    BY PoolAssumption
  <2>2. QED BY <2>1, Types
<1>2. Covered(u, positions[u])
  BY DEF Healthy
<1>3. ASSUME NEW w \in WeiAmounts, Deposit(v, w) PROVE Covered(u, positions'[u])
  <2> DEFINE p == [positions[v] EXCEPT !.collateralWei = positions[v].collateralWei + w]
  <2>1. positions' = [positions EXCEPT ![v] = p] /\ w \in Nat
    BY <1>1, <1>3, PoolAssumption DEF Deposit
  <2>2. CASE u = v
    <3>1. /\ p \in Positions /\ p.collateralWei = positions[u].collateralWei + w
          /\ p.debtFxrp = positions[u].debtFxrp /\ positions'[u] = p
      BY <1>1, <2>1, <2>2 DEF Positions
    <3> HIDE DEF p
    <3>2. p.collateralWei >= positions[u].collateralWei /\ p.debtFxrp <= positions[u].debtFxrp
      BY <1>1, <2>1, <3>1
    <3>3. Covered(u, p)
      BY <1>1, <3>1, <3>2, CoverKept
    <3>4. QED BY <3>1, <3>3
  <2>3. QED BY <1>1, <1>2, <2>1, <2>2
<1>4. ASSUME NEW w \in WeiAmounts, Withdraw(v, w) PROVE Covered(u, positions'[u])
  <2>1. PICK p : positions' = [positions EXCEPT ![v] = p] /\ Covered(v, p)
    BY <1>4 DEF Withdraw, Healthy
  <2>2. QED BY <1>1, <1>2, <2>1
<1>5. ASSUME NEW n \in Amounts, Borrow(v, n) PROVE Covered(u, positions'[u])
  <2>1. PICK p : positions' = [positions EXCEPT ![v] = p] /\ Covered(v, p)
    BY <1>5 DEF Borrow, Healthy
  <2>2. QED BY <1>1, <1>2, <2>1
<1>6. ASSUME NEW n \in Amounts, Repay(v, n) PROVE Covered(u, positions'[u])
  <2> DEFINE debt == positions[v].debtFxrp
             amount == IF n > debt THEN debt ELSE n
             p == [positions[v] EXCEPT !.debtFxrp = debt - amount]
  <2>1. positions' = [positions EXCEPT ![v] = p]
    BY <1>1, <1>6 DEF Repay
  <2>2. n \in Nat /\ MaxUint \in Nat
    BY PoolAssumption, MathAssumption
  <2>3. CASE u = v
    <3>1. debt \in 0..MaxUint
      BY <1>1, Types
    <3>2. amount \in Nat /\ debt - amount \in 0..MaxUint /\ debt - amount <= debt
      BY <2>2, <3>1
    <3> HIDE DEF amount
    <3>3. /\ p \in Positions /\ p.collateralWei = positions[u].collateralWei
          /\ p.debtFxrp = debt - amount /\ positions'[u] = p
      BY <1>1, <2>1, <2>3, <3>2 DEF Positions
    <3> HIDE DEF p
    <3>4. p.collateralWei >= positions[u].collateralWei /\ p.debtFxrp <= positions[u].debtFxrp
      BY <1>1, <2>3, <3>2, <3>3
    <3>5. Covered(u, p)
      BY <1>1, <3>3, <3>4, CoverKept
    <3>6. QED BY <3>3, <3>5
  <2>4. QED BY <1>1, <1>2, <2>1, <2>3
<1>7. ASSUME NEW a \in Users, Liquidate(v, a) PROVE Covered(u, positions'[u])
  <2>1. \E p : positions' = [positions EXCEPT ![a] = p]
    BY <1>7 DEF Liquidate
  <2>2. a # u
    BY <1>2, <1>7 DEF Liquidate, Unhealthy
  <2>3. QED BY <1>1, <1>2, <2>1, <2>2
<1>8. QED BY <1>3, <1>4, <1>5, <1>6, <1>7 DEF PoolStep

\* A healthy position becomes liquidatable only through the prices, the time
\* or its owner's score.
THEOREM OnlyTheWorld == Spec => OnlyTheWorldBreaksHealth
<1>1. ASSUME IInv, Next, NEW u \in Users, Healthy(u, positions[u]),
             prices' = prices, now' = now, scores'[u] = scores[u]
      PROVE  ~Unhealthy(u, positions[u])'
  <2>1. Covered(u, positions'[u])
    <3>1. CASE \E v \in Users : PoolStep(v)
      BY <1>1, <3>1, PoolKeepsCover
    <3>2. CASE ~ \E v \in Users : PoolStep(v)
      <4>1. positions' = positions
        BY <1>1, <3>2, OnlyThePoolMovesPositions
      <4>2. QED BY <1>1, <4>1 DEF Healthy
    <3>3. QED BY <3>1, <3>2
  <2>2. CollateralRatioBps(u)' = CollateralRatioBps(u)
    BY <1>1 DEF CollateralRatioBps, Registry!GetScore
  <2>3. Covered(u, positions[u])'
    BY <1>1, <2>1, <2>2 DEF Covered
  <2>4. QED BY <2>3 DEF Unhealthy
<1>2. ASSUME IInv, [Next]_vars PROVE [HealthStep]_vars
  BY <1>1, <1>2 DEF HealthStep
<1>3. QED BY <1>2, Invariance, PTL DEF Spec, OnlyTheWorldBreaksHealth
-----------------------------------------------------------------------------
\* What LiquidationIsOpen and WayOutIsOpen say with ENABLED, without it. Each
\* transaction is taken apart into its guard, which speaks of the state before
\* alone, and its update, which gives every variable a new value: a transaction
\* whose guard holds does not revert.

\* The token moves from one account to another at the wish of a spender.
PullGuard(from, amount) == allowance[from][Pool] >= amount /\ balanceOf[from] >= amount

PullUpdate(from, amount) ==
  /\ allowance' = Token!Spend(from, Pool, amount)
  /\ balanceOf' = Move(balanceOf, from, Pool, amount)
  /\ totalSupply' = totalSupply

LEMMA PullSplit ==
  ASSUME NEW from, NEW amount
  PROVE  Token!TransferFrom(Pool, from, Pool, amount)
           <=> PullGuard(from, amount) /\ PullUpdate(from, amount)
<1>1. Token!Move(balanceOf, from, Pool, amount) = Move(balanceOf, from, Pool, amount)
  BY DEF Token!Move, Move
<1>2. QED BY <1>1 DEF Token!TransferFrom, Token!TransferTail, PullGuard, PullUpdate

WithdrawGuard(u, w) ==
  LET after == [positions[u] EXCEPT !.collateralWei = @ - w] IN
  positions[u].collateralWei >= w /\ Healthy(u, after) /\ coins[Pool] >= w

WithdrawUpdate(u, w) ==
  /\ positions' = [positions EXCEPT ![u] = [positions[u] EXCEPT !.collateralWei = @ - w]]
  /\ coins' = Move(coins, Pool, u, w)
  /\ UNCHANGED <<prices, tokenVars, registryVars>>

LEMMA WithdrawSplit ==
  ASSUME NEW u, NEW w
  PROVE  Withdraw(u, w) <=> WithdrawGuard(u, w) /\ WithdrawUpdate(u, w)
BY DEF Withdraw, WithdrawGuard, WithdrawUpdate

RepayUpdate(u, n) ==
  /\ PullUpdate(u, n)
  /\ positions' = [positions EXCEPT ![u].debtFxrp = @ - n]
  /\ UNCHANGED <<coins, prices, registryVars>>

\* A repayment of the debt as it is.
LEMMA RepaySplit ==
  ASSUME NEW u
  PROVE  LET debt == positions[u].debtFxrp IN
         Repay(u, debt) <=> PullGuard(u, debt) /\ RepayUpdate(u, debt)
BY PullSplit, Zenon DEF Repay, RepayUpdate

LiquidateGuard(v, u) ==
  LET p == positions[u]
      seized == SeizedWei(p.debtFxrp, p.collateralWei, prices)
  IN
  /\ Unhealthy(u, p)
  /\ PullGuard(v, p.debtFxrp)
  /\ FxrpToWei(p.debtFxrp, prices) * (BPS + LiquidationBonusBps) <= MaxUint
  /\ p.collateralWei >= seized
  /\ coins[Pool] >= seized

LiquidateUpdate(v, u) ==
  LET p == positions[u]
      seized == SeizedWei(p.debtFxrp, p.collateralWei, prices)
  IN
  /\ PullUpdate(v, p.debtFxrp)
  /\ positions' = [positions EXCEPT
       ![u] = [collateralWei |-> p.collateralWei - seized, debtFxrp |-> 0]]
  /\ coins' = Move(coins, Pool, v, seized)
  /\ UNCHANGED <<prices, registryVars>>

LEMMA LiquidateSplit ==
  ASSUME NEW u, NEW v
  PROVE  Liquidate(v, u) <=> LiquidateGuard(v, u) /\ LiquidateUpdate(v, u)
<1>1. Token!TransferFrom(Pool, v, Pool, positions[u].debtFxrp)
        <=> /\ PullGuard(v, positions[u].debtFxrp)
            /\ PullUpdate(v, positions[u].debtFxrp)
  BY PullSplit
<1>2. QED BY <1>1, Zenon DEF Liquidate, LiquidateGuard, LiquidateUpdate

\* The coins of the pool pay for the collateral of each position.
LEMMA BackedEach ==
  ASSUME IInv, NEW u \in Users
  PROVE  positions[u].collateralWei <= coins[Pool]
<1>1. NumAccounts \in Nat /\ u \in 0..NumAccounts
  BY Types, PoolAssumption DEF Accounts
<1>2. Collateral \in [0..NumAccounts -> Nat]
  BY Types DEF Collateral, Accounts
<1>3. Collateral[u] = positions[u].collateralWei
  BY <1>1 DEF Collateral, Accounts
<1>4. Collateral[u] <= Total(Collateral, NumAccounts)
  BY <1>1, <1>2, TotalBounds
<1>5. QED BY <1>3, <1>4 DEF IInv, CollateralBacked

\* Who owes nothing can take out the collateral, and who owes can repay with
\* FXRP held and approved, whatever the feeds return.
THEOREM WayOutNotRefused ==
  Spec => [](\A u \in Users :
               IF positions[u].debtFxrp = 0
               THEN WithdrawGuard(u, positions[u].collateralWei)
               ELSE CanPay(u, positions[u].debtFxrp)
                      => PullGuard(u, positions[u].debtFxrp))
<1>1. ASSUME IInv, NEW u \in Users
      PROVE  IF positions[u].debtFxrp = 0
             THEN WithdrawGuard(u, positions[u].collateralWei)
             ELSE CanPay(u, positions[u].debtFxrp) => PullGuard(u, positions[u].debtFxrp)
  <2>1. CASE positions[u].debtFxrp = 0
    <3> DEFINE w == positions[u].collateralWei
               after == [positions[u] EXCEPT !.collateralWei = @ - w]
    <3>1. u \in Accounts /\ w \in Nat /\ positions[u] \in Positions
      BY <1>1, Types, PoolAssumption
    <3>2. after.debtFxrp = 0
      BY <2>1, <3>1 DEF Positions
    <3>3. Healthy(u, after)
      BY <3>2 DEF Healthy, HealthKnown, HealthReturns, Covered, Covers
    <3>4. w <= coins[Pool] /\ coins[Pool] \in Nat
      BY <1>1, BackedEach, Types, PoolAssumption DEF Pool
    <3>5. w >= w /\ coins[Pool] >= w
      BY <3>1, <3>4
    <3>6. WithdrawGuard(u, w)
      BY <3>3, <3>5 DEF WithdrawGuard
    <3>7. QED BY <2>1, <3>6
  <2>2. CASE positions[u].debtFxrp # 0
    BY <2>2 DEF CanPay, PullGuard
  <2>3. QED BY <2>1, <2>2
<1>2. IInv => \A u \in Users :
                IF positions[u].debtFxrp = 0
                THEN WithdrawGuard(u, positions[u].collateralWei)
                ELSE CanPay(u, positions[u].debtFxrp)
                       => PullGuard(u, positions[u].debtFxrp)
  BY <1>1, Zenon
<1>3. QED BY <1>2, Invariance, PTL

\* An unhealthy loan can be liquidated by whoever holds and has approved what
\* it owes: the bonus never overflows where the health check did not, and what
\* is seized is there.
THEOREM LiquidationNotRefused ==
  Spec => [](\A u, v \in Users :
               Unhealthy(u, positions[u]) /\ CanPay(v, positions[u].debtFxrp)
                 => LiquidateGuard(v, u))
<1>1. ASSUME IInv, NEW u \in Users, NEW v \in Users,
             Unhealthy(u, positions[u]), CanPay(v, positions[u].debtFxrp)
      PROVE  LiquidateGuard(v, u)
  <2> DEFINE debt == positions[u].debtFxrp
             coll == positions[u].collateralWei
             wei == FxrpToWei(debt, prices)
             seized == SeizedWei(debt, coll, prices)
  <2>1. /\ debt \in Nat /\ coll \in Nat /\ prices \in PricePairs /\ MaxUint \in Nat
        /\ coins[Pool] \in Nat
    BY <1>1, Types, PoolAssumption DEF Pool, Users, Accounts
  <2>2. debt # 0
    BY <1>1 DEF Unhealthy, Covered, Covers
  <2>3. /\ FxrpValue(prices) \in 1..MaxUint
        /\ wei * CollateralRatioBps(u) <= MaxUint
    BY <1>1, <2>2 DEF Unhealthy, HealthKnown, HealthReturns, FxrpToWeiReturns
  <2>4. FxrpValue(prices) > 0
    BY <2>1, <2>3
  <2>5. seized \in 0..coll
    <3> HIDE DEF debt, coll
    <3>1. QED BY <2>1, <2>4, SeizureIsBounded
  <2>6. wei \in Nat
    <3> HIDE DEF debt
    <3>1. debt * WeiValue(prices) \in Nat /\ FxrpValue(prices) \in Nat \ {0}
      BY <2>1, <2>4, PriceType
    <3>2. QED BY <3>1, DivBounds DEF FxrpToWei
  <2>7. wei * (BPS + LiquidationBonusBps) <= MaxUint
    <3>1. CollateralRatioBps(u) \in {12000, 15000}
      BY DEF CollateralRatioBps, TrustedRatioBps, DefaultRatioBps
    <3>2. BPS + LiquidationBonusBps = 10500
      BY DEF BPS, LiquidationBonusBps
    <3> HIDE DEF wei
    <3>3. QED BY <2>1, <2>3, <2>6, <3>1, <3>2
  <2>8. PullGuard(v, debt)
    BY <1>1 DEF CanPay, PullGuard
  <2>9. coll <= coins[Pool]
    BY <1>1, BackedEach
  <2> HIDE DEF seized
  <2>10. coll >= seized /\ coins[Pool] >= seized
    BY <2>1, <2>5, <2>9
  <2>11. QED BY <1>1, <2>7, <2>8, <2>10 DEF LiquidateGuard, seized
<1>2. IInv => \A u, v \in Users :
                Unhealthy(u, positions[u]) /\ CanPay(v, positions[u].debtFxrp)
                  => LiquidateGuard(v, u)
  BY <1>1, Zenon
<1>3. QED BY <1>2, Invariance, PTL
=============================================================================
