--------------------------- MODULE MockFXRP_proofs ---------------------------
(***************************************************************************)
(* Facts about Total and Move, the sums over accounts that the ledger      *)
(* invariants are stated with, by least counterexample. Then the token: it *)
(* keeps its supply equal to its balances, which is also why no credit can *)
(* overflow, and spenders stay within their allowance.                     *)
(***************************************************************************)
EXTENDS MockFXRP, WellFoundedInduction, NaturalsInduction, TLAPS

\* A non-empty set of naturals has a least element.
LEMMA LeastElement ==
  ASSUME NEW T \in SUBSET Nat, T # {}
  PROVE  \E x \in T : \A y \in T : x <= y
<1> DEFINE R == OpToRel(<, Nat)
<1>1. IsWellFoundedOn(R, Nat)
  BY NatLessThanWellFounded
<1> HIDE DEF R
<1>2. PICK x \in T : \A y \in T : ~ (<<y, x>> \in R)
  BY <1>1, WFMin
<1>3. \A y \in T : ~ (y < x)
  BY <1>2 DEF R, OpToRel
<1>4. QED BY <1>3

\* The same for a set of indices given by a property.
LEMMA LeastIndex ==
  ASSUME NEW n \in Nat, NEW T \in SUBSET (0..n), T # {}
  PROVE  \E k \in T : /\ k \in 0..n
                      /\ k # 0 => k - 1 \in 0..n /\ k - 1 \notin T
<1>1. T \in SUBSET Nat
  OBVIOUS
<1>2. PICK k \in T : \A j \in T : k <= j
  BY <1>1, LeastElement
<1>3. k \in 0..n /\ k - 1 \notin T
  BY <1>2
<1>4. QED BY <1>3

\* g holds the running totals of f up to n.
IsRunning(g, f, n) ==
  /\ g \in [0..n -> Int]
  /\ \A i \in 0..n : g[i] = IF i = 0 THEN f[0] ELSE g[i - 1] + f[i]

\* Running totals exist.
LEMMA RunningExists ==
  ASSUME NEW n \in Nat, NEW f \in [0..n -> Int]
  PROVE  \E g : IsRunning(g, f, n)
<1> DEFINE T == {k \in 0..n : ~ \E g : IsRunning(g, f, k)}
<1>1. SUFFICES ASSUME T # {} PROVE FALSE
  <2>1. n \in 0..n
    OBVIOUS
  <2>2. n \notin T => \E g : IsRunning(g, f, n)
    BY <2>1, Zenon
  <2>3. QED BY <2>2
<1>2. PICK k \in T : k \in 0..n /\ (k # 0 => k - 1 \in 0..n /\ k - 1 \notin T)
  <2>1. T \in SUBSET (0..n)
    OBVIOUS
  <2> HIDE DEF T
  <2>2. QED BY <1>1, <2>1, LeastIndex
<1>3. CASE k = 0
  <2>1. IsRunning([i \in 0..0 |-> f[0]], f, 0)
    BY DEF IsRunning
  <2>2. QED BY <1>3, <2>1
<1>4. CASE k # 0
  <2>1. k - 1 \in 0..n /\ k - 1 \notin T
    BY <1>2, <1>4
  <2>2. PICK g : IsRunning(g, f, k - 1)
    BY <2>1
  <2> DEFINE h == [i \in 0..k |-> IF i = k THEN g[k - 1] + f[k] ELSE g[i]]
  <2>3. h \in [0..k -> Int]
    BY <1>4, <2>2 DEF IsRunning
  <2>4. ASSUME NEW i \in 0..k
        PROVE  h[i] = IF i = 0 THEN f[0] ELSE h[i - 1] + f[i]
    <3>1. CASE i = k
      <4>1. h[k] = g[k - 1] + f[k] /\ h[k - 1] = g[k - 1]
        BY <1>2, <1>4
      <4>2. QED BY <1>4, <3>1, <4>1
    <3>2. CASE i # k
      <4>1. i \in 0..(k - 1) /\ h[i] = g[i]
        BY <1>2, <3>2
      <4>2. i # 0 => h[i - 1] = g[i - 1]
        BY <1>2, <3>2
      <4>3. g[i] = IF i = 0 THEN f[0] ELSE g[i - 1] + f[i]
        BY <2>2, <4>1 DEF IsRunning
      <4>4. QED BY <4>1, <4>2, <4>3
    <3>3. QED BY <3>1, <3>2
  <2>5. IsRunning(h, f, k)
    BY <2>3, <2>4 DEF IsRunning
  <2>6. QED BY <2>5
<1>5. QED BY <1>3, <1>4

\* Running totals are unique.
LEMMA RunningUnique ==
  ASSUME NEW n \in Nat, NEW f \in [0..n -> Int],
         NEW g, IsRunning(g, f, n), NEW h, IsRunning(h, f, n)
  PROVE  g = h
<1> DEFINE T == {k \in 0..n : g[k] # h[k]}
<1>1. SUFFICES ASSUME T # {} PROVE FALSE
  <2>1. g = [i \in 0..n |-> g[i]] /\ h = [i \in 0..n |-> h[i]]
    BY DEF IsRunning
  <2>2. QED BY <2>1
<1>2. PICK k \in T : k \in 0..n /\ (k # 0 => k - 1 \in 0..n /\ k - 1 \notin T)
  <2>1. T \in SUBSET (0..n)
    OBVIOUS
  <2> HIDE DEF T
  <2>2. QED BY <1>1, <2>1, LeastIndex
<1>3. k # 0
  BY DEF IsRunning
<1>4. k - 1 \in 0..n /\ k - 1 \notin T
  BY <1>2, <1>3
<1>5. g[k - 1] = h[k - 1]
  BY <1>4
<1>6. QED BY <1>3, <1>5 DEF IsRunning

\* Total is the last running total.
LEMMA TotalIsRunning ==
  ASSUME NEW n \in Nat, NEW f \in [0..n -> Int]
  PROVE  \E g : IsRunning(g, f, n) /\ Total(f, n) = g[n]
<1> DEFINE body(g) == [i \in 0..n |-> IF i = 0 THEN f[0] ELSE g[i - 1] + f[i]]
<1>1. PICK g : IsRunning(g, f, n)
  BY RunningExists
<1>2. g = body(g)
  BY <1>1 DEF IsRunning
<1> DEFINE r == CHOOSE r : r = body(r)
<1>3. r = body(r)
  BY <1>2
<1>4. Total(f, n) = r[n]
  BY DEF Total
<1> HIDE DEF r
<1>5. r = g
  <2> DEFINE T == {k \in 0..n : r[k] # g[k]}
  <2>1. SUFFICES ASSUME T # {} PROVE FALSE
    <3>1. r = [i \in 0..n |-> r[i]] /\ g = [i \in 0..n |-> g[i]]
      BY <1>1, <1>3 DEF IsRunning
    <3>2. QED BY <3>1
  <2>2. PICK k \in T : k \in 0..n /\ (k # 0 => k - 1 \in 0..n /\ k - 1 \notin T)
    <3>1. T \in SUBSET (0..n)
      OBVIOUS
    <3> HIDE DEF T
    <3>2. QED BY <2>1, <3>1, LeastIndex
  <2>3. k # 0
    BY <1>2, <1>3
  <2>4. k - 1 \in 0..n /\ k - 1 \notin T
    BY <2>2, <2>3
  <2>5. r[k] = r[k - 1] + f[k] /\ g[k] = g[k - 1] + f[k]
    BY <1>2, <1>3, <2>3
  <2>6. QED BY <2>4, <2>5
<1>6. QED BY <1>1, <1>4, <1>5

\* The total of integers is an integer.
LEMMA TotalType ==
  ASSUME NEW n \in Nat, NEW f \in [0..n -> Int]
  PROVE  Total(f, n) \in Int
BY TotalIsRunning DEF IsRunning

\* Changing one entry changes the total by as much.
LEMMA TotalUpdate ==
  ASSUME NEW n \in Nat, NEW f \in [0..n -> Int], NEW a \in 0..n, NEW v \in Int
  PROVE  Total([f EXCEPT ![a] = v], n) = Total(f, n) - f[a] + v
<1> DEFINE e == [f EXCEPT ![a] = v]
<1>1. e \in [0..n -> Int]
  OBVIOUS
<1>2. PICK g : IsRunning(g, f, n) /\ Total(f, n) = g[n]
  BY TotalIsRunning
<1>3. PICK h : IsRunning(h, e, n) /\ Total(e, n) = h[n]
  BY <1>1, TotalIsRunning
<1> DEFINE s == [i \in 0..n |-> IF i < a THEN g[i] ELSE g[i] - f[a] + v]
<1>4. s \in [0..n -> Int]
  BY <1>2 DEF IsRunning
<1>5. ASSUME NEW i \in 0..n
      PROVE  s[i] = IF i = 0 THEN e[0] ELSE s[i - 1] + e[i]
  <2>1. g[i] = IF i = 0 THEN f[0] ELSE g[i - 1] + f[i]
    BY <1>2 DEF IsRunning
  <2>2. g[i] \in Int /\ (i # 0 => i - 1 \in 0..n /\ g[i - 1] \in Int)
    BY <1>2 DEF IsRunning
  <2>3. f[a] \in Int /\ f[i] \in Int /\ f[0] \in Int
    OBVIOUS
  <2>4. s[i] = IF i < a THEN g[i] ELSE g[i] - f[a] + v
    OBVIOUS
  <2>5. i # 0 => s[i - 1] = IF i - 1 < a THEN g[i - 1] ELSE g[i - 1] - f[a] + v
    BY <2>2
  <2>6. e[i] = (IF i = a THEN v ELSE f[i]) /\ e[0] = (IF a = 0 THEN v ELSE f[0])
    OBVIOUS
  <2> HIDE DEF s, e
  <2>7. QED BY <2>1, <2>2, <2>3, <2>4, <2>5, <2>6
<1>6. IsRunning(s, e, n)
  BY <1>4, <1>5 DEF IsRunning
<1>7. s = h
  BY <1>1, <1>3, <1>6, RunningUnique
<1>8. s[n] = g[n] - f[a] + v
  OBVIOUS
<1>9. QED BY <1>2, <1>3, <1>7, <1>8

\* What is debited and what is credited cancel out.
LEMMA MoveCancels ==
  \A total, x, y, amount \in Int :
    (total - x + (x - amount)) - y + (y + amount) = total
OBVIOUS

\* A move between accounts leaves the total as it was, and changes only the
\* two accounts, by the amount moved.
LEMMA TotalMove ==
  ASSUME NEW n \in Nat, NEW f \in [0..n -> Int],
         NEW from \in 0..n, NEW to \in 0..n, NEW amount \in Int
  PROVE  /\ Move(f, from, to, amount) \in [0..n -> Int]
         /\ Total(Move(f, from, to, amount), n) = Total(f, n)
<1> DEFINE v == f[from] - amount
           d == [f EXCEPT ![from] = v]
           w == d[to] + amount
<1>1. v \in Int /\ d \in [0..n -> Int]
  OBVIOUS
<1>2. Move(f, from, to, amount) = [d EXCEPT ![to] = w]
  BY DEF Move
<1> HIDE DEF v
<1>3. Total(d, n) = Total(f, n) - f[from] + v
  <2>1. v \in Int
    BY <1>1
  <2>2. Total([f EXCEPT ![from] = v], n) = Total(f, n) - f[from] + v
    BY <2>1, TotalUpdate, Zenon
  <2>3. QED BY <2>2, Zenon
<1> HIDE DEF d
<1>4. d[to] \in Int /\ w \in Int
  BY <1>1
<1> HIDE DEF w
<1>5. Total([d EXCEPT ![to] = w], n) = Total(d, n) - d[to] + w
  BY <1>1, <1>4, TotalUpdate
<1>6. Total(f, n) \in Int /\ Total(d, n) \in Int /\ f[from] \in Int
  BY <1>1, TotalType
<1>7. [d EXCEPT ![to] = w] \in [0..n -> Int]
  BY <1>1, <1>4
<1>8. v = f[from] - amount /\ w = d[to] + amount
  BY DEF v, w
<1> DEFINE e == [d EXCEPT ![to] = w]
<1>9. e \in [0..n -> Int] /\ Move(f, from, to, amount) = e
  BY <1>2, <1>7
<1>10. Total(e, n) = Total(d, n) - d[to] + w
  BY <1>5
<1> HIDE DEF e
<1>11. Total(e, n) = Total(f, n)
  <2>1. Total(e, n) = (Total(f, n) - f[from] + (f[from] - amount)) - d[to] + (d[to] + amount)
    BY <1>3, <1>8, <1>10, Zenon
  <2>2. (Total(f, n) - f[from] + (f[from] - amount)) - d[to] + (d[to] + amount) = Total(f, n)
    BY <1>4, <1>6, MoveCancels
  <2>3. QED BY <2>1, <2>2, Zenon
<1>12. QED BY <1>9, <1>11

\* An entry of a mapping to naturals is at most its total.
LEMMA TotalBounds ==
  ASSUME NEW n \in Nat, NEW f \in [0..n -> Nat], NEW a \in 0..n
  PROVE  f[a] <= Total(f, n) /\ Total(f, n) \in Nat
<1>1. f \in [0..n -> Int]
  OBVIOUS
<1>2. PICK g : IsRunning(g, f, n) /\ Total(f, n) = g[n]
  BY <1>1, TotalIsRunning
<1> DEFINE T == {i \in 0..n : ~ (g[i] >= 0 /\ (i >= a => g[i] >= f[a]))}
<1>3. SUFFICES T = {}
  <2>1. n \notin T => g[n] >= 0 /\ g[n] >= f[a]
    <3>1. n \in 0..n /\ n >= a
      OBVIOUS
    <3>2. QED BY <3>1
  <2>2. g[n] \in Int
    BY <1>2 DEF IsRunning
  <2>3. QED BY <1>2, <2>1, <2>2
<1>4. SUFFICES ASSUME T # {} PROVE FALSE
  OBVIOUS
<1>5. PICK k \in T : k \in 0..n /\ (k # 0 => k - 1 \in 0..n /\ k - 1 \notin T)
  <2>1. T \in SUBSET (0..n)
    OBVIOUS
  <2> HIDE DEF T
  <2>2. QED BY <1>4, <2>1, LeastIndex
<1>6. g[k] = IF k = 0 THEN f[0] ELSE g[k - 1] + f[k]
  BY <1>2 DEF IsRunning
<1>7. f[k] \in Nat /\ f[0] \in Nat /\ f[a] \in Nat
  OBVIOUS
<1>8. k # 0 => g[k - 1] \in Int /\ g[k - 1] >= 0 /\ (k - 1 >= a => g[k - 1] >= f[a])
  BY <1>2, <1>5 DEF IsRunning
<1>9. g[k] >= 0
  BY <1>6, <1>7, <1>8
<1>10. k >= a => g[k] >= f[a]
  <2>1. CASE k = 0
    BY <1>6, <1>7, <2>1
  <2>2. CASE k # 0 /\ k = a
    BY <1>6, <1>7, <1>8, <2>2
  <2>3. CASE k # 0 /\ k # a
    BY <1>6, <1>7, <1>8, <2>3
  <2>4. QED BY <2>1, <2>2, <2>3
<1>11. QED BY <1>9, <1>10

\* A balance that pays for a move leaves no balance negative.
LEMMA MoveStaysNat ==
  ASSUME NEW S, NEW f \in [S -> Nat], NEW from \in S, NEW to \in S,
         NEW amount \in Nat, f[from] >= amount
  PROVE  Move(f, from, to, amount) \in [S -> Nat]
<1> DEFINE v == f[from] - amount
           d == [f EXCEPT ![from] = v]
           w == d[to] + amount
<1>1. v \in Nat
  OBVIOUS
<1> HIDE DEF v
<1>2. d \in [S -> Nat]
  BY <1>1
<1> HIDE DEF d
<1>3. w \in Nat
  BY <1>2
<1> HIDE DEF w
<1>4. [d EXCEPT ![to] = w] \in [S -> Nat]
  BY <1>2, <1>3
<1>5. QED BY <1>4 DEF Move, d, v, w

\* A mapping that is zero but for its first entry adds up to that entry.
LEMMA TotalOfFirst ==
  ASSUME NEW n \in Nat, NEW f \in [0..n -> Int], \A i \in 1..n : f[i] = 0
  PROVE  Total(f, n) = f[0]
<1> DEFINE s == [i \in 0..n |-> f[0]]
<1>1. IsRunning(s, f, n)
  BY DEF IsRunning
<1>2. PICK g : IsRunning(g, f, n) /\ Total(f, n) = g[n]
  BY TotalIsRunning
<1>3. s = g
  BY <1>1, <1>2, RunningUnique
<1>4. QED BY <1>2, <1>3
-----------------------------------------------------------------------------
USE DEF Accounts

\* The inductive invariant: the types alone are not inductive, since a balance
\* stays below MaxUint only because it is part of the supply.
IInv == TypeOK /\ SupplyIsTotal

\* The token starts empty.
LEMMA InitIInv == Init => IInv
<1> SUFFICES ASSUME Init PROVE IInv
  OBVIOUS
<1>1. balanceOf \in [0..NumAccounts -> Int] /\ NumAccounts \in Nat
      /\ balanceOf[0] = 0 /\ \A i \in 1..NumAccounts : balanceOf[i] = 0
  BY TokenAssumption DEF Init
<1>2. Total(balanceOf, NumAccounts) = 0
  BY <1>1, TotalOfFirst
<1>3. TypeOK
  BY TokenAssumption DEF Init, TypeOK
<1>4. QED BY <1>2, <1>3 DEF Init, IInv, SupplyIsTotal

\* What _transfer does to the balances, from a state of the invariant.
LEMMA TransferTailKeeps ==
  ASSUME IInv, NEW from \in Accounts, NEW to \in Accounts, NEW amount \in Nat,
         TransferTail(from, to, amount)
  PROVE  /\ totalSupply' \in 0..MaxUint
         /\ balanceOf' \in [Accounts -> 0..MaxUint]
         /\ SupplyIsTotal'
<1>1. balanceOf \in [0..NumAccounts -> Int] /\ NumAccounts \in Nat
  BY TokenAssumption DEF IInv, TypeOK
<1>2. balanceOf' = Move(balanceOf, from, to, amount) /\ totalSupply' = totalSupply
      /\ balanceOf[from] >= amount
  BY DEF TransferTail
<1>3. /\ balanceOf' \in [0..NumAccounts -> Int]
      /\ Total(balanceOf', NumAccounts) = Total(balanceOf, NumAccounts)
  BY <1>1, <1>2, TotalMove
<1>4. balanceOf \in [Accounts -> Nat]
  <2>1. balanceOf \in [Accounts -> 0..MaxUint]
    BY DEF IInv, TypeOK
  <2>2. \A n \in 0..MaxUint : n \in Nat
    BY TokenAssumption
  <2>3. QED BY <2>1, <2>2
<1>5. balanceOf' \in [0..NumAccounts -> Nat]
  BY <1>2, <1>4, MoveStaysNat
<1>6. \A a \in Accounts : balanceOf'[a] <= Total(balanceOf', NumAccounts)
  BY <1>1, <1>5, TotalBounds
<1>7. totalSupply \in 0..MaxUint /\ MaxUint \in Nat
  BY TokenAssumption DEF IInv, TypeOK
<1>8. SupplyIsTotal'
  BY <1>2, <1>3 DEF IInv, SupplyIsTotal
<1>9. \A a \in Accounts : balanceOf'[a] \in 0..MaxUint
  BY <1>2, <1>3, <1>5, <1>6, <1>7 DEF IInv, SupplyIsTotal
<1>10. QED BY <1>2, <1>5, <1>7, <1>8, <1>9

\* A mint within the bound keeps the invariant.
LEMMA MintKeeps ==
  ASSUME IInv, NEW to \in Accounts, NEW amount \in Nat, Mint(to, amount)
  PROVE  IInv'
<1>1. balanceOf \in [0..NumAccounts -> Int] /\ NumAccounts \in Nat
  BY TokenAssumption DEF IInv, TypeOK
<1> DEFINE v == balanceOf[to] + amount
<1>2. v \in Nat /\ balanceOf[to] \in Nat
  BY DEF IInv, TypeOK
<1>3. balanceOf' = [balanceOf EXCEPT ![to] = v]
  BY DEF Mint
<1>4. v = balanceOf[to] + amount
  OBVIOUS
<1> HIDE DEF v
<1>5. Total(balanceOf', NumAccounts) = Total(balanceOf, NumAccounts) - balanceOf[to] + v
  <2>1. Total([balanceOf EXCEPT ![to] = v], NumAccounts)
          = Total(balanceOf, NumAccounts) - balanceOf[to] + v
    <3>1. v \in Int /\ to \in 0..NumAccounts
      BY <1>2
    <3>2. QED BY <1>1, <3>1, TotalUpdate
  <2>2. QED BY <1>3, <2>1
<1>6. Total(balanceOf, NumAccounts) = totalSupply /\ totalSupply \in Nat
  BY DEF IInv, TypeOK, SupplyIsTotal
<1>7. SupplyIsTotal'
  BY <1>2, <1>4, <1>5, <1>6 DEF Mint, SupplyIsTotal
<1>8. balanceOf' \in [0..NumAccounts -> Nat]
  BY <1>2, <1>3 DEF IInv, TypeOK
<1>9. \A a \in Accounts : balanceOf'[a] <= totalSupply'
  BY <1>1, <1>7, <1>8, TotalBounds DEF SupplyIsTotal
<1>10. totalSupply' \in 0..MaxUint
  BY <1>6, TokenAssumption DEF Mint
<1>11. balanceOf' \in [Accounts -> 0..MaxUint]
  <2>1. \A a \in Accounts : balanceOf'[a] \in 0..MaxUint
    BY <1>8, <1>9, <1>10, TokenAssumption
  <2>2. QED BY <1>8, <2>1
<1>12. allowance' \in [Accounts -> [Accounts -> 0..MaxUint]]
  BY DEF Mint, IInv, TypeOK
<1>13. QED BY <1>7, <1>10, <1>11, <1>12 DEF IInv, TypeOK

\* Every step keeps the invariant.
LEMMA NextIInv == IInv /\ [Next]_tokenVars => IInv'
<1> SUFFICES ASSUME IInv, [Next]_tokenVars PROVE IInv'
  OBVIOUS
<1>1. ASSUME NEW a \in Accounts, NEW amount \in Amounts, Mint(a, amount)
      PROVE  IInv'
  BY <1>1, MintKeeps, TokenAssumption
<1>2. ASSUME NEW a \in Accounts, NEW b \in Accounts, NEW amount \in Amounts,
             Transfer(a, b, amount)
      PROVE  IInv'
  <2>1. amount \in Nat
    BY TokenAssumption
  <2>2. allowance' \in [Accounts -> [Accounts -> 0..MaxUint]]
    BY <1>2 DEF Transfer, IInv, TypeOK
  <2>3. QED BY <1>2, <2>1, <2>2, TransferTailKeeps DEF Transfer, IInv, TypeOK
<1>3. ASSUME NEW a \in Accounts, NEW b \in Accounts, NEW amount \in Amounts,
             Approve(a, b, amount)
      PROVE  IInv'
  <2>1. amount \in 0..MaxUint
    BY TokenAssumption
  <2>2. QED BY <1>3, <2>1 DEF Approve, IInv, TypeOK, SupplyIsTotal
<1>4. ASSUME NEW a \in Accounts, NEW b \in Accounts, NEW amount \in Amounts,
             NEW c \in Accounts, TransferFrom(c, a, b, amount)
      PROVE  IInv'
  <2>1. amount \in 0..MaxUint /\ MaxUint \in Nat
    BY TokenAssumption
  <2>2. allowance' \in [Accounts -> [Accounts -> 0..MaxUint]]
    <3>1. allowance \in [Accounts -> [Accounts -> 0..MaxUint]]
      BY DEF IInv, TypeOK
    <3>2. allowance[a][c] >= amount /\ allowance' = Spend(a, c, amount)
      BY <1>4 DEF TransferFrom
    <3>3. allowance[a][c] - amount \in 0..MaxUint
      <4>1. allowance[a][c] \in 0..MaxUint
        BY <3>1
      <4>2. QED BY <2>1, <3>2, <4>1
    <3>4. CASE allowance[a][c] = MaxUint
      BY <3>1, <3>2, <3>4 DEF Spend
    <3>5. CASE allowance[a][c] # MaxUint
      <4>1. allowance' = [allowance EXCEPT ![a][c] = allowance[a][c] - amount]
        BY <3>2, <3>5 DEF Spend
      <4>2. QED BY <3>1, <3>3, <4>1
    <3>6. QED BY <3>4, <3>5
  <2>3. QED BY <1>4, <2>1, <2>2, TransferTailKeeps DEF TransferFrom, IInv, TypeOK
<1>5. CASE UNCHANGED tokenVars
  BY <1>5 DEF tokenVars, IInv, TypeOK, SupplyIsTotal
<1>6. QED BY <1>1, <1>2, <1>3, <1>4, <1>5 DEF Next, Call

\* Every reachable state of the token satisfies the inductive invariant.
LEMMA Invariance == Spec => []IInv
<1>1. [Next]_vars => [Next]_tokenVars
  BY DEF vars, tokenVars
<1>2. QED BY <1>1, InitIInv, NextIInv, PTL DEF Spec

\* Type correctness: balances, supply and allowances stay within uint256, so
\* the additions of mint and _transfer never overflow once the supply's fits.
THEOREM TypeCorrect == Spec => []TypeOK
<1>1. IInv => TypeOK
  BY DEF IInv
<1>2. QED BY <1>1, Invariance, PTL

\* The balances of balanceOf always add up to totalSupply.
THEOREM SupplyConserved == Spec => []SupplyIsTotal
<1>1. IInv => SupplyIsTotal
  BY DEF IInv
<1>2. QED BY <1>1, Invariance, PTL

\* A transaction of the token takes from another account than its sender's only
\* within the allowance the sender has of it, which pays for all that is taken.
LEMMA StepIsAuthorised ==
  ASSUME IInv, Next, NEW a \in Accounts, balanceOf[a] - balanceOf'[a] > 0, caller' # a
  PROVE  LET loss == balanceOf[a] - balanceOf'[a] IN
         /\ allowance[a][caller'] >= loss
         /\ allowance[a][caller'] # MaxUint
              => allowance'[a][caller'] = allowance[a][caller'] - loss
<1> DEFINE loss == balanceOf[a] - balanceOf'[a]
<1>1. balanceOf \in [0..NumAccounts -> Int] /\ NumAccounts \in Nat
      /\ allowance \in [Accounts -> [Accounts -> 0..MaxUint]]
  <2>1. balanceOf \in [0..NumAccounts -> Int] /\ NumAccounts \in Nat
    BY TokenAssumption DEF IInv, TypeOK
  <2>2. QED BY <2>1 DEF IInv, TypeOK
<1>2. ASSUME NEW from \in Accounts, NEW to \in Accounts, NEW amount \in Nat,
             TransferTail(from, to, amount)
      PROVE  a = from /\ loss = amount
  <2>1. balanceOf' = Move(balanceOf, from, to, amount)
    BY <1>2 DEF TransferTail
  <2>2. balanceOf[a] \in Int
    BY <1>1
  <2>3. CASE from = to
    <3>1. balanceOf[to] \in Int
      BY <1>1
    <3>2. balanceOf' = [balanceOf EXCEPT ![to] = balanceOf[to] - amount + amount]
      BY <1>1, <2>1, <2>3 DEF Move
    <3>3. balanceOf[to] - amount + amount = balanceOf[to]
      BY <3>1
    <3>4. balanceOf'[a] = balanceOf[a]
      BY <1>1, <3>2, <3>3
    <3>5. QED BY <2>2, <3>4
  <2>4. CASE from # to
    <3>1. balanceOf'[a] = IF a = from THEN balanceOf[a] - amount
                          ELSE IF a = to THEN balanceOf[a] + amount
                          ELSE balanceOf[a]
      BY <1>1, <2>1, <2>4 DEF Move
    <3>2. QED BY <2>2, <3>1
  <2>5. QED BY <2>3, <2>4
<1>3. PICK c \in Accounts, x \in Accounts, y \in Accounts, amount \in Amounts :
        /\ caller' = c
        /\ \/ Mint(x, amount)
           \/ Transfer(c, x, amount)
           \/ Approve(c, x, amount)
           \/ TransferFrom(c, x, y, amount)
  BY DEF Next, Call
<1>4. amount \in Nat
  BY TokenAssumption
<1>5. CASE Mint(x, amount)
  <2>1. balanceOf' = [balanceOf EXCEPT ![x] = balanceOf[x] + amount]
    BY <1>5 DEF Mint
  <2>2. balanceOf'[a] = IF a = x THEN balanceOf[x] + amount ELSE balanceOf[a]
    BY <1>1, <2>1
  <2>3. balanceOf[a] \in Int /\ balanceOf[x] \in Int
    BY <1>1
  <2>4. QED BY <1>4, <2>2, <2>3
<1>6. CASE Transfer(c, x, amount)
  <2>1. a = c
    BY <1>2, <1>4, <1>6 DEF Transfer
  <2>2. QED BY <1>3, <2>1
<1>7. CASE Approve(c, x, amount)
  <2>1. balanceOf[a] - balanceOf'[a] = 0
    BY <1>1, <1>7 DEF Approve
  <2>2. QED BY <2>1
<1>8. CASE TransferFrom(c, x, y, amount)
  <2>1. a = x /\ loss = amount
    BY <1>2, <1>4, <1>8 DEF TransferFrom
  <2>2. allowance[x][c] >= amount /\ allowance' = Spend(x, c, amount)
    BY <1>8 DEF TransferFrom
  <2>3. allowance[x][c] # MaxUint => allowance'[x][c] = allowance[x][c] - amount
    BY <1>1, <2>2 DEF Spend
  <2>4. caller' = c
    BY <1>3
  <2>5. /\ allowance[a][c] >= loss
        /\ allowance[a][c] # MaxUint => allowance'[a][c] = allowance[a][c] - loss
    <3> HIDE DEF loss
    <3>1. QED BY <2>1, <2>2, <2>3
  <2>6. QED BY <2>4, <2>5
<1>9. QED BY <1>3, <1>5, <1>6, <1>7, <1>8

\* No one moves another account's tokens beyond the allowance he has of it.
THEOREM SpendingAuthorised == Spec => SpendingIsAuthorised
<1>1. ASSUME IInv, [Next]_tokenVars
      PROVE  [\A a \in Accounts :
                LET loss == balanceOf[a] - balanceOf'[a] IN
                loss > 0 /\ caller' # a =>
                  /\ allowance[a][caller'] >= loss
                  /\ allowance[a][caller'] # MaxUint
                       => allowance'[a][caller'] = allowance[a][caller'] - loss]_tokenVars
  BY <1>1, StepIsAuthorised
<1>2. [Next]_vars => [Next]_tokenVars
  BY DEF vars, tokenVars
<1>3. QED BY <1>1, <1>2, Invariance, PTL DEF Spec, SpendingIsAuthorised
=============================================================================
