-------------------------- MODULE ScoreModel_proofs --------------------------
(***************************************************************************)
(* The score, for any wallets, any proofs and lists of any length: it is   *)
(* that of the set of payments proved, the mock agrees with the enclave,   *)
(* and only a call that fails lowers it. First what the folds the model is  *)
(* written with compute, one turn of a loop at a time.                     *)
(***************************************************************************)
EXTENDS ScoreModel, FiniteSetTheorems, SequenceTheorems, NaturalsInduction, TLAPS

\* Induction over the naturals, for a property given as the set it holds for.
LEMMA ForAllNat ==
  ASSUME NEW T, 0 \in T, \A k \in Nat : k \in T => k + 1 \in T
  PROVE  \A k \in Nat : k \in T
<1> DEFINE Missing == {k \in Nat : k \notin T}
           R == OpToRel(<, Nat)
<1>1. SUFFICES ASSUME Missing # {} PROVE FALSE
  OBVIOUS
<1>2. IsWellFoundedOn(R, Nat)
  BY NatLessThanWellFounded
<1>3. Missing \in SUBSET Nat
  OBVIOUS
<1> HIDE DEF R, Missing
<1>4. PICK k \in Missing : \A j \in Missing : ~ (<<j, k>> \in R)
  BY <1>1, <1>2, <1>3, WFMin
<1>5. k \in Nat /\ k \notin T /\ \A j \in Missing : ~ (j < k)
  BY <1>3, <1>4 DEF R, OpToRel, Missing
<1>6. k - 1 \in Nat /\ k - 1 + 1 = k
  BY <1>5
<1>7. k - 1 \notin T
  BY <1>5, <1>6
<1>8. k - 1 \in Missing
  BY <1>6, <1>7 DEF Missing
<1> QED
  BY <1>5, <1>6, <1>8

\* The parts of a finite set with at most k elements.
Small(S, k) == {s \in SUBSET S : Cardinality(s) <= k}

LEMMA SmallFacts ==
  ASSUME NEW S, IsFiniteSet(S), NEW k \in Nat
  PROVE  /\ Small(S, 0) = {{}}
         /\ \A s \in Small(S, k + 1) : \A x \in s : s \ {x} \in Small(S, k)
         /\ Small(S, k) \subseteq Small(S, k + 1)
         /\ Small(S, Cardinality(S)) = SUBSET S
<1>1. \A s \in SUBSET S :
        IsFiniteSet(s) /\ Cardinality(s) \in Nat /\ Cardinality(s) <= Cardinality(S)
  BY FS_Subset, FS_CardinalityType
<1>2. Small(S, 0) = {{}}
  BY <1>1, FS_EmptySet DEF Small
<1>3. ASSUME NEW s \in Small(S, k + 1), NEW x \in s PROVE s \ {x} \in Small(S, k)
  <2>1. IsFiniteSet(s) /\ Cardinality(s) \in Nat /\ Cardinality(s) <= k + 1 /\ s \in SUBSET S
    BY <1>1 DEF Small
  <2>2. Cardinality(s \ {x}) = Cardinality(s) - 1
    BY <2>1, FS_RemoveElement
  <2>3. s \ {x} \in SUBSET S /\ Cardinality(s \ {x}) <= k
    BY <2>1, <2>2
  <2>4. QED BY <2>3 DEF Small
<1>4. Small(S, k) \subseteq Small(S, k + 1)
  BY <1>1 DEF Small
<1>5. Small(S, Cardinality(S)) = SUBSET S
  BY <1>1 DEF Small
<1> QED
  BY <1>2, <1>3, <1>4, <1>5

\* f folds `step` over the sets of D, in the order in which `pick` takes them apart.
FoldsUp(f, D, A, base, step, pick) ==
  /\ f \in [D -> A]
  /\ \A s \in D : f[s] = IF s = {} THEN base ELSE step[<<pick[s], f[s \ {pick[s]}]>>]

\* Over the parts of a finite set there is such a function.
LEMMA FoldExists ==
  ASSUME NEW S, IsFiniteSet(S),
         NEW pick, \A s \in SUBSET S : s # {} => pick[s] \in s,
         NEW A, NEW base \in A, NEW step \in [S \X A -> A]
  PROVE  \E f : FoldsUp(f, SUBSET S, A, base, step, pick)
<1> DEFINE T == {k \in Nat : \E f : FoldsUp(f, Small(S, k), A, base, step, pick)}
<1>1. 0 \in T
  <2>1. Small(S, 0) = {{}}
    BY SmallFacts
  <2>2. FoldsUp([s \in {{}} |-> base], {{}}, A, base, step, pick)
    BY DEF FoldsUp
  <2>3. QED BY <2>1, <2>2
<1>2. ASSUME NEW k \in Nat, k \in T PROVE k + 1 \in T
  <2>1. PICK f : FoldsUp(f, Small(S, k), A, base, step, pick)
    BY <1>2
  <2> DEFINE D == Small(S, k + 1)
             g == [s \in D |->
                     IF s = {} THEN base ELSE step[<<pick[s], f[s \ {pick[s]}]>>]]
  <2>2. ASSUME NEW s \in D, s # {}
        PROVE  s \ {pick[s]} \in Small(S, k) /\ pick[s] \in S
    <3>1. s \in SUBSET S /\ pick[s] \in s
      BY <2>2 DEF Small
    <3>2. QED BY <3>1, SmallFacts
  <2>3. Small(S, k) \subseteq D
    BY SmallFacts
  <2>4. \A s \in Small(S, k) : f[s] \in A /\ f[s] = g[s]
    BY <2>1, <2>3 DEF FoldsUp
  <2>5. ASSUME NEW s \in D
        PROVE  g[s] \in A /\ g[s] = IF s = {} THEN base ELSE step[<<pick[s], g[s \ {pick[s]}]>>]
    <3>1. CASE s = {}
      BY <3>1
    <3>2. CASE s # {}
      <4>1. s \ {pick[s]} \in Small(S, k) /\ pick[s] \in S
        BY <2>2, <3>2
      <4>2. f[s \ {pick[s]}] \in A /\ f[s \ {pick[s]}] = g[s \ {pick[s]}]
        BY <2>4, <4>1
      <4>3. g[s] = step[<<pick[s], f[s \ {pick[s]}]>>]
        BY <3>2
      <4>4. QED BY <3>2, <4>1, <4>2, <4>3
    <3>3. QED BY <3>1, <3>2
  <2>6. g \in [D -> A]
    BY <2>5
  <2>7. FoldsUp(g, D, A, base, step, pick)
    <3> HIDE DEF g
    <3>1. QED BY <2>5, <2>6 DEF FoldsUp
  <2>8. QED BY <2>7
<1>3. Cardinality(S) \in Nat
  BY FS_CardinalityType
<1>4. Cardinality(S) \in T
  <2> HIDE DEF T
  <2>1. QED BY <1>1, <1>2, <1>3, ForAllNat
<1>5. \E f : FoldsUp(f, Small(S, Cardinality(S)), A, base, step, pick)
  BY <1>4
<1>6. Small(S, Cardinality(S)) = SUBSET S
  BY <1>3, SmallFacts
<1>7. QED BY <1>5, <1>6
-----------------------------------------------------------------------------
\* Sums over finite sets.

One(s) == CHOOSE x \in s : TRUE

\* g holds the sums of f over the parts of S.
IsSum(g, f, S) ==
  /\ g \in [SUBSET S -> Int]
  /\ \A s \in SUBSET S : g[s] = IF s = {} THEN 0 ELSE f[One(s)] + g[s \ {One(s)}]

\* SumFunctionOnSet is what its recursive definition says.
LEMMA SumIsSum ==
  ASSUME NEW S, IsFiniteSet(S), NEW f, \A x \in S : f[x] \in Int
  PROVE  \E g : IsSum(g, f, S) /\ SumFunctionOnSet(f, S) = g[S]
<1> DEFINE body(g) == [s \in SUBSET S |->
                         IF s = {} THEN 0
                         ELSE f[CHOOSE x \in s : TRUE] + g[s \ {CHOOSE x \in s : TRUE}]]
           pick == [s \in SUBSET S |-> One(s)]
           step == [t \in S \X Int |-> f[t[1]] + t[2]]
           r == CHOOSE r : r = body(r)
<1>1. \A s \in SUBSET S : s # {} => One(s) \in s /\ pick[s] = One(s)
  BY DEF One
<1>2. step \in [S \X Int -> Int]
  OBVIOUS
<1>3. PICK g : FoldsUp(g, SUBSET S, Int, 0, step, pick)
  <2> HIDE DEF step, pick, r
  <2>1. \A s \in SUBSET S : s # {} => pick[s] \in s
    BY <1>1
  <2>2. 0 \in Int
    OBVIOUS
  <2>3. QED BY <1>2, <2>1, <2>2, FoldExists, Zenon
<1>4. ASSUME NEW s \in SUBSET S
      PROVE  g[s] = IF s = {} THEN 0 ELSE f[One(s)] + g[s \ {One(s)}]
  <2>1. CASE s = {}
    BY <1>3, <2>1 DEF FoldsUp
  <2>2. CASE s # {}
    <3>1. One(s) \in S /\ pick[s] = One(s)
      BY <1>1, <2>2
    <3>2. g[s \ {One(s)}] \in Int
      BY <1>3 DEF FoldsUp
    <3>3. g[s] = step[<<One(s), g[s \ {One(s)}]>>]
      BY <1>3, <2>2, <3>1 DEF FoldsUp
    <3>4. QED BY <2>2, <3>1, <3>2, <3>3
  <2>3. QED BY <2>1, <2>2
<1>5. g = body(g)
  <2>1. g \in [SUBSET S -> Int]
    BY <1>3 DEF FoldsUp
  <2>2. QED BY <1>4, <2>1 DEF One
<1>6. r = body(r)
  BY <1>5
<1>7. SumFunctionOnSet(f, S) = r[S]
  BY DEF SumFunctionOnSet, FoldFunctionOnSet, MapThenFoldSet
<1>8. IsSum(g, f, S)
  BY <1>3, <1>4 DEF FoldsUp, IsSum
<1> DEFINE T == {k \in Nat : \A s \in Small(S, k) : r[s] = g[s]}
<1>9. S \in SUBSET S /\ Cardinality(S) \in Nat /\ {} \in SUBSET S
  BY FS_CardinalityType
<1>10. 0 \in T
  <2>1. r[{}] = 0 /\ g[{}] = 0
    BY <1>5, <1>6, <1>9
  <2>2. QED BY <2>1, SmallFacts
<1>11. ASSUME NEW k \in Nat, k \in T PROVE k + 1 \in T
  <2>1. SUFFICES ASSUME NEW s \in Small(S, k + 1), s # {} PROVE r[s] = g[s]
    <3>1. r[{}] = 0 /\ g[{}] = 0
      BY <1>5, <1>6, <1>9
    <3> HIDE DEF r
    <3>2. QED BY <3>1
  <2> DEFINE x == CHOOSE x \in s : TRUE
  <2>2. x \in s /\ s \in SUBSET S
    BY <2>1 DEF Small
  <2>3. s \ {x} \in Small(S, k)
    BY <2>2, SmallFacts
  <2>4. r[s \ {x}] = g[s \ {x}]
    BY <1>11, <2>3
  <2>5. r[s] = f[x] + r[s \ {x}]
    BY <1>6, <2>1, <2>2
  <2>6. g[s] = f[x] + g[s \ {x}]
    BY <1>5, <2>1, <2>2
  <2>7. QED BY <2>4, <2>5, <2>6
<1>12. Cardinality(S) \in T
  <2> HIDE DEF T
  <2>1. QED BY <1>9, <1>10, <1>11, ForAllNat
<1>13. r[S] = g[S]
  BY <1>9, <1>12, SmallFacts
<1> QED
  BY <1>7, <1>8, <1>13

\* Any element may be taken out first.
LEMMA IsSumRemove ==
  ASSUME NEW S, IsFiniteSet(S), NEW f, \A x \in S : f[x] \in Int,
         NEW g, IsSum(g, f, S)
  PROVE  \A s \in SUBSET S : \A x \in s : g[s] = f[x] + g[s \ {x}]
<1> DEFINE T == {k \in Nat : \A s \in Small(S, k) : \A x \in s : g[s] = f[x] + g[s \ {x}]}
<1>1. 0 \in T
  BY SmallFacts
<1>2. ASSUME NEW k \in Nat, k \in T PROVE k + 1 \in T
  <2>1. SUFFICES ASSUME NEW s \in Small(S, k + 1), NEW x \in s
                 PROVE  g[s] = f[x] + g[s \ {x}]
    OBVIOUS
  <2> DEFINE y == One(s)
  <2>2. s \in SUBSET S /\ s # {} /\ y \in s
    BY <2>1 DEF Small, One
  <2>3. g[s] = f[y] + g[s \ {y}]
    BY <2>2 DEF IsSum
  <2> HIDE DEF y
  <2>4. CASE x = y
    BY <2>3, <2>4
  <2>5. CASE x # y
    <3> DEFINE rest == (s \ {x}) \ {y}
    <3>1. s \ {x} \in Small(S, k) /\ s \ {y} \in Small(S, k)
      BY <2>2, SmallFacts
    <3>2. g[s \ {x}] = f[y] + g[rest]
      BY <1>2, <2>2, <2>5, <3>1
    <3>3. g[s \ {y}] = f[x] + g[rest]
      <4>1. g[s \ {y}] = f[x] + g[(s \ {y}) \ {x}]
        BY <1>2, <2>5, <3>1
      <4>2. (s \ {y}) \ {x} = rest
        OBVIOUS
      <4>3. QED BY <4>1, <4>2
    <3>4. f[x] \in Int /\ f[y] \in Int /\ g[rest] \in Int
      BY <2>2 DEF IsSum
    <3> HIDE DEF rest, T
    <3>5. QED BY <2>3, <3>2, <3>3, <3>4
  <2>6. QED BY <2>4, <2>5
<1>3. Cardinality(S) \in Nat
  BY FS_CardinalityType
<1>4. Cardinality(S) \in T
  <2> HIDE DEF T
  <2>1. QED BY <1>1, <1>2, <1>3, ForAllNat
<1>5. Small(S, Cardinality(S)) = SUBSET S
  BY <1>3, SmallFacts
<1>6. QED BY <1>4, <1>5

\* A sum depends on nothing but the values on its set.
LEMMA IsSumSame ==
  ASSUME NEW S, NEW f, NEW g, IsSum(g, f, S),
         NEW S2, NEW f2, NEW g2, IsSum(g2, f2, S2),
         NEW D, IsFiniteSet(D), D \subseteq S, D \subseteq S2,
         \A x \in D : f[x] = f2[x]
  PROVE  g[D] = g2[D]
<1> DEFINE T == {k \in Nat : \A s \in Small(D, k) : g[s] = g2[s]}
<1>1. g[{}] = 0 /\ g2[{}] = 0
  BY DEF IsSum
<1>2. 0 \in T
  BY <1>1, SmallFacts
<1>3. ASSUME NEW k \in Nat, k \in T PROVE k + 1 \in T
  <2>1. SUFFICES ASSUME NEW s \in Small(D, k + 1), s # {} PROVE g[s] = g2[s]
    BY <1>1
  <2> DEFINE y == One(s)
  <2>2. s \in SUBSET D /\ y \in s
    BY <2>1 DEF Small, One
  <2>3. g[s] = f[y] + g[s \ {y}] /\ g2[s] = f2[y] + g2[s \ {y}]
    BY <2>1, <2>2 DEF IsSum
  <2>4. s \ {y} \in Small(D, k)
    BY <2>2, SmallFacts
  <2>5. f[y] = f2[y] /\ g[s \ {y}] = g2[s \ {y}]
    BY <1>3, <2>2, <2>4
  <2>6. QED BY <2>3, <2>5
<1>4. Cardinality(D) \in Nat
  BY FS_CardinalityType
<1>5. Cardinality(D) \in T
  <2> HIDE DEF T
  <2>1. QED BY <1>2, <1>3, <1>4, ForAllNat
<1>6. Small(D, Cardinality(D)) = SUBSET D
  BY <1>4, SmallFacts
<1>7. QED BY <1>5, <1>6

\* The sum over a set, and over the set without one of its elements.
LEMMA SumRemove ==
  ASSUME NEW S, IsFiniteSet(S), NEW f, \A x \in S : f[x] \in Int
  PROVE  /\ SumFunctionOnSet(f, S) \in Int
         /\ S = {} => SumFunctionOnSet(f, S) = 0
         /\ \A x \in S : SumFunctionOnSet(f, S) = f[x] + SumFunctionOnSet(f, S \ {x})
<1>1. PICK g : IsSum(g, f, S) /\ SumFunctionOnSet(f, S) = g[S]
  BY SumIsSum
<1>2. g[S] \in Int /\ (S = {} => g[S] = 0)
  BY <1>1 DEF IsSum
<1>3. ASSUME NEW x \in S
      PROVE  g[S] = f[x] + SumFunctionOnSet(f, S \ {x})
  <2> DEFINE D == S \ {x}
  <2>1. IsFiniteSet(D) /\ D \subseteq S /\ \A y \in D : f[y] \in Int
    BY FS_RemoveElement
  <2> HIDE DEF D
  <2>2. PICK h : IsSum(h, f, D) /\ SumFunctionOnSet(f, D) = h[D]
    BY <2>1, SumIsSum
  <2>3. g[D] = h[D]
    BY <1>1, <2>1, <2>2, IsSumSame
  <2>4. g[S] = f[x] + g[D]
    BY <1>1, IsSumRemove DEF D
  <2>5. QED BY <2>2, <2>3, <2>4 DEF D
<1>4. QED BY <1>1, <1>2, <1>3

LEMMA SumSame ==
  ASSUME NEW S, IsFiniteSet(S), NEW f, NEW f2,
         \A x \in S : f[x] \in Int /\ f[x] = f2[x]
  PROVE  SumFunctionOnSet(f, S) = SumFunctionOnSet(f2, S)
<1>1. PICK g : IsSum(g, f, S) /\ SumFunctionOnSet(f, S) = g[S]
  BY SumIsSum
<1>2. \A x \in S : f2[x] \in Int
  OBVIOUS
<1>3. PICK g2 : IsSum(g2, f2, S) /\ SumFunctionOnSet(f2, S) = g2[S]
  BY <1>2, SumIsSum
<1>4. g[S] = g2[S]
  BY <1>1, <1>3, IsSumSame
<1>5. QED BY <1>1, <1>3, <1>4

\* More elements and larger values, none of them negative, never sum to less.
LEMMA SumMonotone ==
  ASSUME NEW S2, IsFiniteSet(S2), NEW S \in SUBSET S2, NEW f, NEW f2,
         \A x \in S : f[x] \in Int /\ f[x] <= f2[x],
         \A x \in S2 : f2[x] \in Nat
  PROVE  SumFunctionOnSet(f, S) <= SumFunctionOnSet(f2, S2)
<1>1. IsFiniteSet(S) /\ (\A x \in S : f[x] \in Int) /\ (\A x \in S2 : f2[x] \in Int)
  BY FS_Subset
<1>2. PICK g : IsSum(g, f, S) /\ SumFunctionOnSet(f, S) = g[S]
  BY <1>1, SumIsSum
<1>3. PICK g2 : IsSum(g2, f2, S2) /\ SumFunctionOnSet(f2, S2) = g2[S2]
  BY <1>1, SumIsSum
<1> DEFINE T == {k \in Nat : \A s \in Small(S2, k) : g[s \cap S] <= g2[s]}
<1>4. g[{}] = 0 /\ g2[{}] = 0
  BY <1>2, <1>3 DEF IsSum
<1>11. g[{} \cap S] <= g2[{}]
  <2>1. {} \cap S = {}
    OBVIOUS
  <2>2. QED BY <1>4, <2>1
<1>5. 0 \in T
  BY <1>11, SmallFacts
<1>6. ASSUME NEW k \in Nat, k \in T PROVE k + 1 \in T
  <2>10. k + 1 \in Nat
    OBVIOUS
  <2>11. SUFFICES ASSUME NEW s \in Small(S2, k + 1) PROVE g[s \cap S] <= g2[s]
    BY <2>10
  <2>1. SUFFICES ASSUME s # {} PROVE g[s \cap S] <= g2[s]
    BY <1>11
  <2> DEFINE y == One(s)
             rest == s \ {y}
  <2>2. s \in SUBSET S2 /\ y \in s
    BY <2>1 DEF Small, One
  <2>3. g2[s] = f2[y] + g2[rest]
    BY <1>3, <2>1, <2>2 DEF IsSum
  <2> HIDE DEF y
  <2>4. rest \in Small(S2, k)
    BY <2>2, SmallFacts
  <2>5. g[rest \cap S] <= g2[rest]
    BY <1>6, <2>4
  <2>6. g[rest \cap S] \in Int /\ g2[rest] \in Int /\ f2[y] \in Nat
    BY <1>2, <1>3, <2>2 DEF IsSum
  <2>7. CASE y \in S
    <3>1. (s \cap S) \ {y} = rest \cap S /\ y \in s \cap S /\ s \cap S \in SUBSET S
      BY <2>2, <2>7
    <3>2. g[s \cap S] = f[y] + g[(s \cap S) \ {y}]
      BY <1>1, <1>2, <3>1, IsSumRemove
    <3>3. g[s \cap S] = f[y] + g[rest \cap S]
      BY <3>1, <3>2
    <3>4. f[y] \in Int /\ f[y] <= f2[y]
      BY <2>7
    <3> HIDE DEF rest
    <3>5. QED BY <2>3, <2>5, <2>6, <3>3, <3>4
  <2>8. CASE y \notin S
    <3>1. s \cap S = rest \cap S
      BY <2>8
    <3>2. QED BY <2>3, <2>5, <2>6, <3>1
  <2>9. QED BY <2>7, <2>8
<1>7. Cardinality(S2) \in Nat
  BY FS_CardinalityType
<1>8. Cardinality(S2) \in T
  <2> HIDE DEF T
  <2>1. QED BY <1>5, <1>6, <1>7, ForAllNat
<1>9. S2 \in Small(S2, Cardinality(S2)) /\ S2 \cap S = S
  BY <1>7, SmallFacts
<1>10. QED BY <1>2, <1>3, <1>8, <1>9
-----------------------------------------------------------------------------
\* Loops over a sequence: FoldLeft takes the indices apart by their maximum.

LEMMA MaxFacts ==
  ASSUME NEW n \in Nat
  PROVE  /\ \A s \in SUBSET (1..n) : s # {} => Max(s) \in s
         /\ n # 0 => Max(1..n) = n
<1> DEFINE HasMax(s) == \E x \in s : \A y \in s : x >= y
           T == {k \in Nat : \A s \in SUBSET (1..k) : s # {} => HasMax(s)}
<1>1. 0 \in T
  <2>1. 1..0 = {}
    OBVIOUS
  <2>2. QED BY <2>1
<1>2. ASSUME NEW k \in Nat, k \in T PROVE k + 1 \in T
  <2>1. SUFFICES ASSUME NEW s \in SUBSET (1..(k + 1)), s # {} PROVE HasMax(s)
    OBVIOUS
  <2>2. CASE k + 1 \in s
    <3>1. \A y \in s : k + 1 >= y
      OBVIOUS
    <3>2. QED BY <2>2, <3>1
  <2>3. CASE k + 1 \notin s
    <3>1. s \in SUBSET (1..k)
      BY <2>3
    <3>2. QED BY <1>2, <2>1, <3>1
  <2>4. QED BY <2>2, <2>3
<1>3. n \in T
  <2> HIDE DEF T
  <2>1. QED BY <1>1, <1>2, ForAllNat
<1>4. \A s \in SUBSET (1..n) : s # {} => HasMax(s)
  BY <1>3
<1> HIDE DEF T
<1>5. \A s \in SUBSET (1..n) : s # {} => Max(s) \in s /\ \A y \in s : Max(s) >= y
  BY <1>4 DEF Max
<1>6. ASSUME n # 0 PROVE Max(1..n) = n
  <2>1. n \in 1..n /\ 1..n \in SUBSET (1..n)
    BY <1>6
  <2>2. Max(1..n) \in 1..n /\ Max(1..n) >= n
    BY <1>5, <2>1
  <2>3. QED BY <2>2
<1>7. QED BY <1>5, <1>6

\* f holds what a loop of n turns has accumulated after a set of turns.
LoopsUp(f, n, A, base, step) ==
  /\ f \in [SUBSET (1..n) -> A]
  /\ \A s \in SUBSET (1..n) :
       f[s] = IF s = {} THEN base ELSE step[<<Max(s), f[s \ {Max(s)}]>>]

LEMMA LoopExists ==
  ASSUME NEW n \in Nat, NEW A, NEW base \in A, NEW step \in [(1..n) \X A -> A]
  PROVE  \E f : LoopsUp(f, n, A, base, step)
<1> DEFINE D == 1..n
           pick == [s \in SUBSET D |-> Max(s)]
<1>1. IsFiniteSet(D)
  BY FS_Interval
<1>2. \A s \in SUBSET D : pick[s] = Max(s) /\ (s # {} => pick[s] \in s)
  BY MaxFacts
<1> HIDE DEF D, pick
<1>3. step \in [D \X A -> A]
  BY DEF D
<1>4. PICK f : FoldsUp(f, SUBSET D, A, base, step, pick)
  BY <1>1, <1>2, <1>3, FoldExists, Zenon
<1>5. f \in [SUBSET D -> A]
  BY <1>4 DEF FoldsUp
<1>6. \A s \in SUBSET D :
        f[s] = IF s = {} THEN base ELSE step[<<Max(s), f[s \ {Max(s)}]>>]
  BY <1>2, <1>4 DEF FoldsUp
<1>7. QED BY <1>5, <1>6 DEF D, LoopsUp

\* The sets of turns a loop goes through.
LEMMA Turns ==
  /\ 1..0 = {}
  /\ \A n \in Nat : \A k \in 1..n :
       /\ 1..k \in SUBSET (1..n) /\ 1..k # {} /\ Max(1..k) = k
       /\ (1..k) \ {Max(1..k)} = 1..(k - 1)
<1>1. 1..0 = {}
  OBVIOUS
<1>2. ASSUME NEW n \in Nat, NEW k \in 1..n
      PROVE  /\ 1..k \in SUBSET (1..n) /\ 1..k # {} /\ Max(1..k) = k
             /\ (1..k) \ {Max(1..k)} = 1..(k - 1)
  <2>1. Max(1..k) = k
    BY MaxFacts
  <2>2. 1..k \in SUBSET (1..n) /\ 1..k # {} /\ (1..k) \ {k} = 1..(k - 1)
    OBVIOUS
  <2>3. QED BY <2>1, <2>2
<1>3. QED BY <1>1, <1>2

Bodies == {p.body : p \in Proofs}

\* A proof, with or without an answer about it.
Heardable == Proofs \cup {Unanswered(p) : p \in Proofs}

LEMMA HeardableFacts ==
  /\ \A p \in Heardable : p.body \in Bodies
  /\ \A p, q \in Heardable :
       p.kind = "verified" /\ q.kind = "verified" /\ p.body.tx = q.body.tx => p = q
  /\ \A p \in Proofs : Unanswered(p).kind = "unanswered" /\ Unanswered(p).body = p.body
<1>1. \A p \in Proofs : Unanswered(p).kind = "unanswered" /\ Unanswered(p).body = p.body
  BY DEF Unanswered
<1>2. \A p \in Heardable : p.body \in Bodies
  BY <1>1 DEF Heardable, Bodies
<1>3. \A p \in Heardable : p.kind = "verified" => p \in Proofs
  BY <1>1 DEF Heardable
<1>4. QED BY <1>1, <1>2, <1>3, ProofsAssumption

\* The enclave's list after each turn of its loop.
LEMMA AdmitLoop ==
  ASSUME NEW s \in Seq(Heardable)
  PROVE  \E run : /\ run[0] = <<>>
                  /\ \A k \in 1..Len(s) : run[k] = Admit(run[k - 1], s[k])
                  /\ FoldLeft(Admit, <<>>, s) = run[Len(s)]
<1> DEFINE n == Len(s)
           A == Seq(Bodies)
           body(r) == [t \in SUBSET (1..n) |->
                         IF t = {} THEN <<>>
                         ELSE Admit(r[t \ {Max(t)}], s[Max(t)])]
           step == [u \in (1..n) \X A |-> Admit(u[2], s[u[1]])]
           r == CHOOSE r : r = body(r)
<1>1. n \in Nat /\ DOMAIN s = 1..n /\ \A i \in 1..n : s[i] \in Heardable
  BY LenProperties
<1>2. step \in [(1..n) \X A -> A]
  <2>1. SUFFICES ASSUME NEW i \in 1..n, NEW a \in A PROVE Admit(a, s[i]) \in A
    OBVIOUS
  <2>2. s[i].body \in Bodies
    BY <1>1, HeardableFacts
  <2>3. QED BY <2>2, AppendProperties DEF Admit
<1>3. PICK f : LoopsUp(f, n, A, <<>>, step)
  <2> HIDE DEF step, r, n
  <2>1. <<>> \in A
    OBVIOUS
  <2>2. n \in Nat
    BY <1>1
  <2> HIDE DEF A
  <2>3. QED BY <1>2, <2>1, <2>2, LoopExists, Zenon
<1>4. f = body(f)
  <2>1. ASSUME NEW t \in SUBSET (1..n), t # {}
        PROVE  f[t] = Admit(f[t \ {Max(t)}], s[Max(t)])
    <3>1. Max(t) \in 1..n
      BY <1>1, <2>1, MaxFacts
    <3>2. f[t \ {Max(t)}] \in A /\ f[t] = step[<<Max(t), f[t \ {Max(t)}]>>]
      BY <1>3, <2>1 DEF LoopsUp
    <3> HIDE DEF A
    <3>3. QED BY <3>1, <3>2
  <2>2. QED BY <1>3, <2>1 DEF LoopsUp
<1>5. r = body(r)
  BY <1>4
<1>6. FoldLeft(Admit, <<>>, s) = r[1..n]
  BY <1>1 DEF FoldLeft, MapThenFoldSet
<1> HIDE DEF r, n
<1> DEFINE run == [k \in 0..n |-> r[1..k]]
<1>7. run[0] = <<>>
  BY <1>1, <1>5, Turns
<1>8. ASSUME NEW k \in 1..n PROVE run[k] = Admit(run[k - 1], s[k])
  <2>1. r[1..k] = Admit(r[(1..k) \ {Max(1..k)}], s[Max(1..k)])
    BY <1>1, <1>5, Turns
  <2>2. r[1..k] = Admit(r[1..(k - 1)], s[k])
    BY <1>1, <2>1, Turns
  <2>3. k \in 0..n /\ k - 1 \in 0..n
    BY <1>1
  <2>4. QED BY <2>2, <2>3
<1>9. run[n] = r[1..n]
  BY <1>1
<1> HIDE DEF run
<1>10. QED BY <1>6, <1>7, <1>8, <1>9 DEF n
\* The mock's list after each turn.
LEMMA MockAdmitLoop ==
  ASSUME NEW s \in Seq(Proofs)
  PROVE  \E run : /\ run[0] = <<>>
                  /\ \A k \in 1..Len(s) : run[k] = MockAdmit(run[k - 1], s[k])
                  /\ FoldLeft(MockAdmit, <<>>, s) = run[Len(s)]
<1> DEFINE n == Len(s)
           A == Seq(Bodies)
           body(r) == [t \in SUBSET (1..n) |->
                         IF t = {} THEN <<>>
                         ELSE MockAdmit(r[t \ {Max(t)}], s[Max(t)])]
           step == [u \in (1..n) \X A |-> MockAdmit(u[2], s[u[1]])]
           r == CHOOSE r : r = body(r)
<1>1. n \in Nat /\ DOMAIN s = 1..n /\ \A i \in 1..n : s[i] \in Proofs
  BY LenProperties
<1>2. step \in [(1..n) \X A -> A]
  <2>1. SUFFICES ASSUME NEW i \in 1..n, NEW a \in A PROVE MockAdmit(a, s[i]) \in A
    OBVIOUS
  <2>2. s[i].body \in Bodies
    BY <1>1 DEF Bodies
  <2>3. QED BY <2>2, AppendProperties DEF MockAdmit
<1>3. PICK f : LoopsUp(f, n, A, <<>>, step)
  <2> HIDE DEF step, r, n
  <2>1. <<>> \in A
    OBVIOUS
  <2>2. n \in Nat
    BY <1>1
  <2> HIDE DEF A
  <2>3. QED BY <1>2, <2>1, <2>2, LoopExists, Zenon
<1>4. f = body(f)
  <2>1. ASSUME NEW t \in SUBSET (1..n), t # {}
        PROVE  f[t] = MockAdmit(f[t \ {Max(t)}], s[Max(t)])
    <3>1. Max(t) \in 1..n
      BY <1>1, <2>1, MaxFacts
    <3>2. f[t \ {Max(t)}] \in A /\ f[t] = step[<<Max(t), f[t \ {Max(t)}]>>]
      BY <1>3, <2>1 DEF LoopsUp
    <3> HIDE DEF A
    <3>3. QED BY <3>1, <3>2
  <2>2. QED BY <1>3, <2>1 DEF LoopsUp
<1>5. r = body(r)
  BY <1>4
<1>6. FoldLeft(MockAdmit, <<>>, s) = r[1..n]
  BY <1>1 DEF FoldLeft, MapThenFoldSet
<1> HIDE DEF r, n
<1> DEFINE run == [k \in 0..n |-> r[1..k]]
<1>7. run[0] = <<>>
  BY <1>1, <1>5, Turns
<1>8. ASSUME NEW k \in 1..n PROVE run[k] = MockAdmit(run[k - 1], s[k])
  <2>1. r[1..k] = MockAdmit(r[(1..k) \ {Max(1..k)}], s[Max(1..k)])
    BY <1>1, <1>5, Turns
  <2>2. r[1..k] = MockAdmit(r[1..(k - 1)], s[k])
    BY <1>1, <2>1, Turns
  <2>3. k \in 0..n /\ k - 1 \in 0..n
    BY <1>1
  <2>4. QED BY <2>2, <2>3
<1>9. run[n] = r[1..n]
  BY <1>1
<1> HIDE DEF run
<1>10. QED BY <1>6, <1>7, <1>8, <1>9 DEF n
-----------------------------------------------------------------------------
\* The types of what a proof carries.
LEMMA BodyTypes ==
  \A b \in Bodies : /\ b.source \in Addresses /\ b.dest \in Addresses
                    /\ b.amount \in Int /\ b.at \in Nat /\ b.at > 0
  BY ProofsAssumption, BoundsAssumption DEF Bodies, Payment

NoVolumes == [a \in Addresses |-> 0]

\* The enclave's volumes after each turn.
LEMMA AddVolumeLoop ==
  ASSUME NEW s \in Seq(Bodies)
  PROVE  \E run : /\ run[0] = NoVolumes
                  /\ \A k \in 1..Len(s) : run[k] = AddVolume(run[k - 1], s[k])
                  /\ FoldLeft(AddVolume, NoVolumes, s) = run[Len(s)]
<1> DEFINE n == Len(s)
           A == [Addresses -> Int]
           body(r) == [t \in SUBSET (1..n) |->
                         IF t = {} THEN NoVolumes
                         ELSE AddVolume(r[t \ {Max(t)}], s[Max(t)])]
           step == [u \in (1..n) \X A |-> AddVolume(u[2], s[u[1]])]
           r == CHOOSE r : r = body(r)
<1>1. n \in Nat /\ DOMAIN s = 1..n /\ \A i \in 1..n : s[i] \in Bodies
  BY LenProperties
<1>2. step \in [(1..n) \X A -> A]
  <2>1. SUFFICES ASSUME NEW i \in 1..n, NEW a \in A PROVE AddVolume(a, s[i]) \in A
    OBVIOUS
  <2>2. s[i].dest \in Addresses /\ s[i].amount \in Int
    BY <1>1, BodyTypes
  <2>3. QED BY <2>2 DEF AddVolume, AtMost, VolumeCap
<1>3. PICK f : LoopsUp(f, n, A, NoVolumes, step)
  <2> HIDE DEF step, r, n
  <2>1. NoVolumes \in A
    BY DEF NoVolumes
  <2>2. n \in Nat
    BY <1>1
  <2> HIDE DEF A
  <2>3. QED BY <1>2, <2>1, <2>2, LoopExists, Zenon
<1>4. f = body(f)
  <2>1. ASSUME NEW t \in SUBSET (1..n), t # {}
        PROVE  f[t] = AddVolume(f[t \ {Max(t)}], s[Max(t)])
    <3>1. Max(t) \in 1..n
      BY <1>1, <2>1, MaxFacts
    <3>2. f[t \ {Max(t)}] \in A /\ f[t] = step[<<Max(t), f[t \ {Max(t)}]>>]
      BY <1>3, <2>1 DEF LoopsUp
    <3> HIDE DEF A
    <3>3. QED BY <3>1, <3>2
  <2>2. QED BY <1>3, <2>1 DEF LoopsUp
<1>5. r = body(r)
  BY <1>4
<1>6. FoldLeft(AddVolume, NoVolumes, s) = r[1..n]
  BY <1>1 DEF FoldLeft, MapThenFoldSet
<1> HIDE DEF r, n
<1> DEFINE run == [k \in 0..n |-> r[1..k]]
<1>7. run[0] = NoVolumes
  BY <1>1, <1>5, Turns
<1>8. ASSUME NEW k \in 1..n PROVE run[k] = AddVolume(run[k - 1], s[k])
  <2>1. r[1..k] = AddVolume(r[(1..k) \ {Max(1..k)}], s[Max(1..k)])
    BY <1>1, <1>5, Turns
  <2>2. r[1..k] = AddVolume(r[1..(k - 1)], s[k])
    BY <1>1, <2>1, Turns
  <2>3. k \in 0..n /\ k - 1 \in 0..n
    BY <1>1
  <2>4. QED BY <2>2, <2>3
<1>9. run[n] = r[1..n]
  BY <1>1
<1> HIDE DEF run
<1>10. QED BY <1>6, <1>7, <1>8, <1>9 DEF n
\* The mock's volumes after each turn.
LEMMA AddAmountLoop ==
  ASSUME NEW s \in Seq(Bodies)
  PROVE  \E run : /\ run[0] = NoVolumes
                  /\ \A k \in 1..Len(s) : run[k] = AddAmount(run[k - 1], s[k])
                  /\ FoldLeft(AddAmount, NoVolumes, s) = run[Len(s)]
<1> DEFINE n == Len(s)
           A == [Addresses -> Int]
           body(r) == [t \in SUBSET (1..n) |->
                         IF t = {} THEN NoVolumes
                         ELSE AddAmount(r[t \ {Max(t)}], s[Max(t)])]
           step == [u \in (1..n) \X A |-> AddAmount(u[2], s[u[1]])]
           r == CHOOSE r : r = body(r)
<1>1. n \in Nat /\ DOMAIN s = 1..n /\ \A i \in 1..n : s[i] \in Bodies
  BY LenProperties
<1>2. step \in [(1..n) \X A -> A]
  <2>1. SUFFICES ASSUME NEW i \in 1..n, NEW a \in A PROVE AddAmount(a, s[i]) \in A
    OBVIOUS
  <2>2. s[i].dest \in Addresses /\ s[i].amount \in Int
    BY <1>1, BodyTypes
  <2>3. QED BY <2>2 DEF AddAmount, AtMost, VolumeCap
<1>3. PICK f : LoopsUp(f, n, A, NoVolumes, step)
  <2> HIDE DEF step, r, n
  <2>1. NoVolumes \in A
    BY DEF NoVolumes
  <2>2. n \in Nat
    BY <1>1
  <2> HIDE DEF A
  <2>3. QED BY <1>2, <2>1, <2>2, LoopExists, Zenon
<1>4. f = body(f)
  <2>1. ASSUME NEW t \in SUBSET (1..n), t # {}
        PROVE  f[t] = AddAmount(f[t \ {Max(t)}], s[Max(t)])
    <3>1. Max(t) \in 1..n
      BY <1>1, <2>1, MaxFacts
    <3>2. f[t \ {Max(t)}] \in A /\ f[t] = step[<<Max(t), f[t \ {Max(t)}]>>]
      BY <1>3, <2>1 DEF LoopsUp
    <3> HIDE DEF A
    <3>3. QED BY <3>1, <3>2
  <2>2. QED BY <1>3, <2>1 DEF LoopsUp
<1>5. r = body(r)
  BY <1>4
<1>6. FoldLeft(AddAmount, NoVolumes, s) = r[1..n]
  BY <1>1 DEF FoldLeft, MapThenFoldSet
<1> HIDE DEF r, n
<1> DEFINE run == [k \in 0..n |-> r[1..k]]
<1>7. run[0] = NoVolumes
  BY <1>1, <1>5, Turns
<1>8. ASSUME NEW k \in 1..n PROVE run[k] = AddAmount(run[k - 1], s[k])
  <2>1. r[1..k] = AddAmount(r[(1..k) \ {Max(1..k)}], s[Max(1..k)])
    BY <1>1, <1>5, Turns
  <2>2. r[1..k] = AddAmount(r[1..(k - 1)], s[k])
    BY <1>1, <2>1, Turns
  <2>3. k \in 0..n /\ k - 1 \in 0..n
    BY <1>1
  <2>4. QED BY <2>2, <2>3
<1>9. run[n] = r[1..n]
  BY <1>1
<1> HIDE DEF run
<1>10. QED BY <1>6, <1>7, <1>8, <1>9 DEF n
\* The oldest timestamp after each turn.
LEMMA OldestLoop ==
  ASSUME NEW s \in Seq(Bodies)
  PROVE  \E run : /\ run[0] = 0
                  /\ \A k \in 1..Len(s) : run[k] = OldestOf(run[k - 1], s[k])
                  /\ FoldLeft(OldestOf, 0, s) = run[Len(s)]
<1> DEFINE n == Len(s)
           A == Int
           body(r) == [t \in SUBSET (1..n) |->
                         IF t = {} THEN 0
                         ELSE OldestOf(r[t \ {Max(t)}], s[Max(t)])]
           step == [u \in (1..n) \X A |-> OldestOf(u[2], s[u[1]])]
           r == CHOOSE r : r = body(r)
<1>1. n \in Nat /\ DOMAIN s = 1..n /\ \A i \in 1..n : s[i] \in Bodies
  BY LenProperties
<1>2. step \in [(1..n) \X A -> A]
  <2>1. SUFFICES ASSUME NEW i \in 1..n, NEW a \in A PROVE OldestOf(a, s[i]) \in A
    OBVIOUS
  <2>2. s[i].at \in Int
    BY <1>1, BodyTypes
  <2>3. QED BY <2>2 DEF OldestOf
<1>3. PICK f : LoopsUp(f, n, A, 0, step)
  <2> HIDE DEF step, r, n
  <2>1. 0 \in A
    OBVIOUS
  <2>2. n \in Nat
    BY <1>1
  <2> HIDE DEF A
  <2>3. QED BY <1>2, <2>1, <2>2, LoopExists, Zenon
<1>4. f = body(f)
  <2>1. ASSUME NEW t \in SUBSET (1..n), t # {}
        PROVE  f[t] = OldestOf(f[t \ {Max(t)}], s[Max(t)])
    <3>1. Max(t) \in 1..n
      BY <1>1, <2>1, MaxFacts
    <3>2. f[t \ {Max(t)}] \in A /\ f[t] = step[<<Max(t), f[t \ {Max(t)}]>>]
      BY <1>3, <2>1 DEF LoopsUp
    <3> HIDE DEF A
    <3>3. QED BY <3>1, <3>2
  <2>2. QED BY <1>3, <2>1 DEF LoopsUp
<1>5. r = body(r)
  BY <1>4
<1>6. FoldLeft(OldestOf, 0, s) = r[1..n]
  BY <1>1 DEF FoldLeft, MapThenFoldSet
<1> HIDE DEF r, n
<1> DEFINE run == [k \in 0..n |-> r[1..k]]
<1>7. run[0] = 0
  BY <1>1, <1>5, Turns
<1>8. ASSUME NEW k \in 1..n PROVE run[k] = OldestOf(run[k - 1], s[k])
  <2>1. r[1..k] = OldestOf(r[(1..k) \ {Max(1..k)}], s[Max(1..k)])
    BY <1>1, <1>5, Turns
  <2>2. r[1..k] = OldestOf(r[1..(k - 1)], s[k])
    BY <1>1, <2>1, Turns
  <2>3. k \in 0..n /\ k - 1 \in 0..n
    BY <1>1
  <2>4. QED BY <2>2, <2>3
<1>9. run[n] = r[1..n]
  BY <1>1
<1> HIDE DEF run
<1>10. QED BY <1>6, <1>7, <1>8, <1>9 DEF n
-----------------------------------------------------------------------------
\* The payments of the enclave's list.

\* What the i-th proof has to be for its payment to count.
Counts(p) ==
  /\ p.kind = "verified" /\ p.body.status = 0
  /\ p.body.source = bound /\ p.body.dest # bound

\* No transaction twice.
OncePerTx(s) == \A i, j \in 1..Len(s) : s[i].tx = s[j].tx => i = j

\* acc is the list after k proofs: the payments among them that count, once each.
ListAfter(list, acc, k) ==
  /\ acc \in Seq(Bodies) /\ OncePerTx(acc)
  /\ \A j \in 1..Len(acc) : \E i \in 1..k : Counts(list[i]) /\ acc[j] = list[i].body
  /\ \A i \in 1..k : Counts(list[i]) => \E j \in 1..Len(acc) : acc[j] = list[i].body

\* One turn of the loop.
LEMMA AdmitTurn ==
  ASSUME NEW list \in Seq(Heardable), NEW k \in 1..Len(list), NEW acc, ListAfter(list, acc, k - 1)
  PROVE  ListAfter(list, Admit(acc, list[k]), k)
<1> DEFINE p == list[k]
<1>1. /\ Len(list) \in Nat /\ acc \in Seq(Bodies) /\ Len(acc) \in Nat
      /\ \A i \in 1..Len(list) : list[i] \in Heardable
  BY LenProperties DEF ListAfter
<1>2. p \in Heardable /\ p.body \in Bodies
  BY <1>1, HeardableFacts
<1>3. \A i \in 1..k : i = k \/ i \in 1..(k - 1)
  BY <1>1
<1>4. 1..(k - 1) \subseteq 1..k /\ k \in 1..k
  BY <1>1
<1>5. TxsOf(acc) = {acc[j].tx : j \in 1..Len(acc)}
  <2>1. DOMAIN acc = 1..Len(acc)
    BY <1>1, LenProperties
  <2>2. QED BY <2>1 DEF TxsOf, Range
<1>6. CASE Counts(p) /\ p.body.tx \notin TxsOf(acc)
  <2> DEFINE new == Append(acc, p.body)
  <2>1. Admit(acc, p) = new
    BY <1>6 DEF Admit, Fresh, Counts
  <2>2. /\ new \in Seq(Bodies) /\ Len(new) = Len(acc) + 1
        /\ \A j \in 1..Len(acc) : new[j] = acc[j]
        /\ new[Len(acc) + 1] = p.body
    BY <1>1, <1>2, AppendProperties
  <2>3. \A j \in 1..Len(new) : j \in 1..Len(acc) \/ j = Len(acc) + 1
    BY <1>1, <2>2
  <2>4. Len(acc) + 1 \in 1..Len(new) /\ 1..Len(acc) \subseteq 1..Len(new)
    BY <1>1, <2>2
  <2> HIDE DEF new, p
  <2>5. OncePerTx(new)
    <3>1. \A j \in 1..Len(acc) : new[j].tx # p.body.tx
      BY <1>5, <1>6, <2>2
    <3>2. SUFFICES ASSUME NEW i \in 1..Len(new), NEW j \in 1..Len(new), new[i].tx = new[j].tx
                   PROVE  i = j
      BY DEF OncePerTx
    <3>3. CASE i \in 1..Len(acc) /\ j \in 1..Len(acc)
      BY <2>2, <3>2, <3>3 DEF ListAfter, OncePerTx
    <3>4. CASE i = Len(acc) + 1 \/ j = Len(acc) + 1
      BY <2>2, <2>3, <3>1, <3>2, <3>4
    <3>5. QED BY <2>3, <3>3, <3>4
  <2>6. ASSUME NEW j \in 1..Len(new)
        PROVE  \E i \in 1..k : Counts(list[i]) /\ new[j] = list[i].body
    <3>1. CASE j \in 1..Len(acc)
      <4>1. PICK i \in 1..(k - 1) : Counts(list[i]) /\ acc[j] = list[i].body
        BY <3>1 DEF ListAfter
      <4>2. i \in 1..k /\ new[j] = acc[j]
        BY <1>4, <2>2, <3>1
      <4>3. QED BY <4>1, <4>2
    <3>2. CASE j = Len(acc) + 1
      BY <1>4, <1>6, <2>2, <3>2 DEF p
    <3>3. QED BY <2>3, <3>1, <3>2
  <2>7. ASSUME NEW i \in 1..k, Counts(list[i])
        PROVE  \E j \in 1..Len(new) : new[j] = list[i].body
    <3>1. CASE i = k
      BY <2>2, <2>4, <3>1 DEF p
    <3>2. CASE i \in 1..(k - 1)
      BY <2>2, <2>4, <2>7, <3>2 DEF ListAfter
    <3>3. QED BY <1>3, <3>1, <3>2
  <2>8. ListAfter(list, new, k)
    BY <2>2, <2>5, <2>6, <2>7 DEF ListAfter
  <2>9. QED BY <2>1, <2>8 DEF p
<1>7. CASE ~ (Counts(p) /\ p.body.tx \notin TxsOf(acc))
  <2>1. Admit(acc, p) = acc
    BY <1>7 DEF Admit, Fresh, Counts
  <2>2. ASSUME Counts(p) PROVE \E j \in 1..Len(acc) : acc[j] = p.body
    <3>1. PICK j \in 1..Len(acc) : acc[j].tx = p.body.tx
      BY <1>5, <1>7, <2>2
    <3>2. PICK i \in 1..(k - 1) : Counts(list[i]) /\ acc[j] = list[i].body
      BY DEF ListAfter
    <3>3. list[i] \in Heardable
      BY <1>1
    <3>4. list[i] = p
      BY <1>2, <2>2, <3>1, <3>2, <3>3, HeardableFacts DEF Counts
    <3>5. QED BY <3>2, <3>4
  <2> HIDE DEF p
  <2>3. ASSUME NEW i \in 1..k, Counts(list[i])
        PROVE  \E j \in 1..Len(acc) : acc[j] = list[i].body
    <3>1. CASE i = k
      BY <2>2, <2>3, <3>1 DEF p
    <3>2. CASE i \in 1..(k - 1)
      BY <2>3, <3>2 DEF ListAfter
    <3>3. QED BY <1>3, <3>1, <3>2
  <2>4. ListAfter(list, acc, k)
    BY <1>4, <2>3 DEF ListAfter
  <2>5. QED BY <2>1, <2>4 DEF p
<1>8. QED BY <1>6, <1>7

\* The list holds the payments deserved, and no transaction twice.
LEMMA CountedFacts ==
  ASSUME NEW list \in Seq(Heardable)
  PROVE  Counted(list) \in Seq(Bodies) /\ OncePerTx(Counted(list)) /\ Range(Counted(list)) = Deserved(list)
<1>1. PICK run : /\ run[0] = <<>>
                 /\ \A k \in 1..Len(list) : run[k] = Admit(run[k - 1], list[k])
                 /\ Counted(list) = run[Len(list)]
  BY AdmitLoop DEF Counted
<1> DEFINE n == Len(list)
           T == {k \in Nat : k <= n => ListAfter(list, run[k], k)}
<1>2. n \in Nat /\ DOMAIN list = 1..n
  BY LenProperties
<1>3. 0 \in T
  <2>1. ListAfter(list, <<>>, 0)
    BY EmptySeq DEF ListAfter, OncePerTx
  <2>2. QED BY <1>1, <2>1
<1>4. ASSUME NEW k \in Nat, k \in T PROVE k + 1 \in T
  <2>1. SUFFICES ASSUME k + 1 <= n PROVE ListAfter(list, run[k + 1], k + 1)
    OBVIOUS
  <2>2. k + 1 \in 1..n /\ k + 1 - 1 = k /\ k <= n
    BY <1>2, <2>1
  <2>3. ListAfter(list, run[k], k)
    BY <1>4, <2>2
  <2>4. run[k + 1] = Admit(run[k], list[k + 1])
    BY <1>1, <2>2
  <2>5. QED BY <2>2, <2>3, <2>4, AdmitTurn
<1>5. n \in T
  <2> HIDE DEF T
  <2>1. QED BY <1>2, <1>3, <1>4, ForAllNat
<1>6. ListAfter(list, Counted(list), n)
  BY <1>1, <1>2, <1>5
<1>7. Range(Counted(list)) = Deserved(list)
  <2>1. Range(Counted(list)) = {Counted(list)[j] : j \in 1..Len(Counted(list))}
    BY <1>6, LenProperties DEF ListAfter, Range
  <2>2. Range(list) = {list[i] : i \in 1..n}
    BY <1>2 DEF Range
  <2>3. Deserved(list) = {p.body : p \in {q \in Range(list) : Counts(q)}}
    BY DEF Deserved, Counts
  <2> HIDE DEF n
  <2>4. ASSUME NEW b \in Range(Counted(list)) PROVE b \in Deserved(list)
    <3>1. PICK j \in 1..Len(Counted(list)) : b = Counted(list)[j]
      BY <2>1
    <3>2. PICK i \in 1..n : Counts(list[i]) /\ Counted(list)[j] = list[i].body
      BY <1>6 DEF ListAfter
    <3>3. QED BY <2>2, <2>3, <3>1, <3>2
  <2>5. ASSUME NEW b \in Deserved(list) PROVE b \in Range(Counted(list))
    <3>1. PICK i \in 1..n : Counts(list[i]) /\ b = list[i].body
      BY <2>2, <2>3
    <3>2. PICK j \in 1..Len(Counted(list)) : Counted(list)[j] = list[i].body
      BY <1>6, <3>1 DEF ListAfter
    <3>3. QED BY <2>1, <3>1, <3>2
  <2>6. QED BY <2>4, <2>5
<1>8. QED BY <1>6, <1>7 DEF ListAfter
-----------------------------------------------------------------------------
\* What the score model makes of a list.

\* The first k elements of a sequence.
First(s, k) == {s[i] : i \in 1..k}

LEMMA FirstFacts ==
  ASSUME NEW s \in Seq(Bodies), NEW k \in 1..Len(s)
  PROVE  /\ First(s, 0) = {} /\ First(s, Len(s)) = Range(s)
         /\ First(s, k) = First(s, k - 1) \cup {s[k]}
         /\ IsFiniteSet(First(s, k)) /\ First(s, k) \subseteq Bodies /\ s[k] \in Bodies
         /\ OncePerTx(s) => s[k] \notin First(s, k - 1)
<1>1. Len(s) \in Nat /\ DOMAIN s = 1..Len(s) /\ \A i \in 1..Len(s) : s[i] \in Bodies
  BY LenProperties
<1>2. First(s, 0) = {} /\ First(s, Len(s)) = Range(s)
  BY <1>1 DEF First, Range
<1>3. 1..k = 1..(k - 1) \cup {k} /\ 1..k \subseteq 1..Len(s) /\ k - 1 \in Nat /\ k \in Nat
  BY <1>1
<1>4. First(s, k) = First(s, k - 1) \cup {s[k]}
  BY <1>3 DEF First
<1>5. First(s, k) \subseteq Bodies /\ s[k] \in Bodies
  BY <1>1, <1>3 DEF First
<1>6. IsFiniteSet(First(s, k))
  <2> DEFINE f == [i \in 1..k |-> s[i]]
  <2>1. f \in Surjection(1..k, First(s, k))
    BY DEF Surjection, First
  <2>2. IsFiniteSet(1..k)
    BY <1>3, FS_Interval
  <2>3. QED BY <2>1, <2>2, FS_Surjection
<1>7. ASSUME OncePerTx(s), s[k] \in First(s, k - 1) PROVE FALSE
  <2>1. PICK i \in 1..(k - 1) : s[k] = s[i]
    BY <1>7 DEF First
  <2>2. i \in 1..Len(s) /\ k # i
    BY <1>3, <2>1
  <2>3. QED BY <1>7, <2>1, <2>2 DEF OncePerTx
<1>8. QED BY <1>2, <1>4, <1>5, <1>6, <1>7

\* A list without a transaction twice is as long as its set of payments is large.
LEMMA LengthIsCardinality ==
  ASSUME NEW s \in Seq(Bodies), OncePerTx(s)
  PROVE  IsFiniteSet(Range(s)) /\ Cardinality(Range(s)) = Len(s)
<1>1. Len(s) \in Nat /\ DOMAIN s = 1..Len(s)
  BY LenProperties
<1> DEFINE f == [i \in 1..Len(s) |-> s[i]]
<1>2. f \in Surjection(1..Len(s), Range(s))
  BY <1>1 DEF Surjection, Range
<1>3. f \in Injection(1..Len(s), Range(s))
  BY <1>1 DEF Injection, IsInjective, Range, OncePerTx
<1>4. f \in Bijection(1..Len(s), Range(s))
  BY <1>2, <1>3 DEF Bijection
<1>5. ExistsBijection(1..Len(s), Range(s))
  BY <1>4 DEF ExistsBijection
<1>6. IsFiniteSet(1..Len(s)) /\ Cardinality(1..Len(s)) = Len(s)
  BY <1>1, FS_Interval
<1>7. QED BY <1>5, <1>6, FS_Bijection

\* The payments of D that add to the volume with a, and that volume.
PaidTo(D, a) == {b \in D : b.dest = a /\ b.amount > 0}
PaidSum(D, a) == SumFunction([b \in PaidTo(D, a) |-> b.amount])
VolumeOf(D, a) == AtMost(PaidSum(D, a), VolumeCap)

LEMMA PaidSumFacts ==
  ASSUME NEW D \in SUBSET Bodies, IsFiniteSet(D), NEW a
  PROVE  /\ IsFiniteSet(PaidTo(D, a)) /\ PaidSum(D, a) \in Nat
         /\ PaidTo(D, a) = {} => PaidSum(D, a) = 0
         /\ \A E \in SUBSET D : PaidSum(E, a) <= PaidSum(D, a)
         /\ \A b \in PaidTo(D, a) : PaidSum(D, a) = b.amount + PaidSum(D \ {b}, a)
<1> DEFINE P == PaidTo(D, a)
           f == [b \in P |-> b.amount]
<1>1. IsFiniteSet(P) /\ \A b \in P : b.amount \in Nat
  BY BodyTypes, FS_Subset DEF PaidTo
<1>2. PaidSum(D, a) = SumFunctionOnSet(f, P)
  BY DEF PaidSum, SumFunction
<1>3. \A b \in P : f[b] = b.amount /\ f[b] \in Nat
  BY <1>1
<1>4. ASSUME NEW E \in SUBSET D
      PROVE  /\ PaidTo(E, a) \subseteq P /\ IsFiniteSet(PaidTo(E, a))
             /\ PaidSum(E, a) = SumFunctionOnSet(f, PaidTo(E, a))
  <2> DEFINE Q == PaidTo(E, a)
             h == [b \in Q |-> b.amount]
  <2>1. Q \subseteq P
    BY DEF PaidTo
  <2>2. IsFiniteSet(Q)
    BY <1>1, <2>1, FS_Subset
  <2>3. \A b \in Q : h[b] \in Int /\ h[b] = f[b]
    BY <1>3, <2>1
  <2>4. PaidSum(E, a) = SumFunctionOnSet(h, Q)
    BY DEF PaidSum, SumFunction
  <2> HIDE DEF f, h, Q
  <2>5. SumFunctionOnSet(h, Q) = SumFunctionOnSet(f, Q)
    BY <2>2, <2>3, SumSame
  <2>6. QED BY <2>1, <2>2, <2>4, <2>5 DEF Q
<1>5. ASSUME NEW E \in SUBSET D PROVE PaidSum(E, a) <= PaidSum(D, a)
  <2> DEFINE Q == PaidTo(E, a)
  <2>1. Q \in SUBSET P
    BY <1>4
  <2> HIDE DEF f, P, Q
  <2>2. \A b \in Q : f[b] \in Int /\ f[b] <= f[b]
    BY <1>3, <2>1
  <2>3. SumFunctionOnSet(f, Q) <= SumFunctionOnSet(f, P)
    BY <1>1, <1>3, <2>1, <2>2, SumMonotone
  <2>4. QED BY <1>2, <1>4, <2>3 DEF Q
<1>6. PaidSum(D, a) \in Int /\ (P = {} => PaidSum(D, a) = 0)
  <2> HIDE DEF f, P
  <2>1. QED BY <1>1, <1>2, <1>3, SumRemove
<1>7. PaidSum(D, a) \in Nat
  <2>1. {} \in SUBSET D /\ PaidTo({}, a) = {} /\ IsFiniteSet({})
    BY FS_EmptySet DEF PaidTo
  <2>2. SumFunctionOnSet(f, {}) = 0
    <3> HIDE DEF f
    <3>1. QED BY <2>1, SumRemove
  <2>3. PaidSum({}, a) = 0
    BY <1>4, <2>1, <2>2
  <2>4. QED BY <1>5, <1>6, <2>1, <2>3
<1>8. ASSUME NEW b \in P PROVE PaidSum(D, a) = b.amount + PaidSum(D \ {b}, a)
  <2>1. D \ {b} \in SUBSET D /\ PaidTo(D \ {b}, a) = P \ {b}
    BY DEF PaidTo
  <2>2. PaidSum(D \ {b}, a) = SumFunctionOnSet(f, P \ {b})
    BY <1>4, <2>1
  <2>3. SumFunctionOnSet(f, P) = f[b] + SumFunctionOnSet(f, P \ {b})
    <3> HIDE DEF f, P
    <3>1. QED BY <1>1, <1>3, SumRemove
  <2>4. QED BY <1>2, <1>3, <2>2, <2>3
<1>9. QED BY <1>1, <1>5, <1>6, <1>7, <1>8

LEMMA Capping ==
  /\ \A m, l \in Nat : AtMost(m, l) \in 0..l
  /\ \A m, n, l \in Int : m <= n => AtMost(m, l) <= AtMost(n, l)
  BY DEF AtMost

\* One turn of the loop over the volumes.
LEMMA VolumeTurn ==
  ASSUME NEW s \in Seq(Bodies), OncePerTx(s), NEW k \in 1..Len(s)
  PROVE  AddVolume([a \in Addresses |-> VolumeOf(First(s, k - 1), a)], s[k])
           = [a \in Addresses |-> VolumeOf(First(s, k), a)]
<1> DEFINE b == s[k]
           D == First(s, k)
           before == [a \in Addresses |-> VolumeOf(First(s, k - 1), a)]
<1>1. /\ D \in SUBSET Bodies /\ IsFiniteSet(D) /\ b \in Bodies /\ b \in D
      /\ First(s, k - 1) = D \ {b}
  BY FirstFacts
<1>2. b.dest \in Addresses /\ b.amount \in Int
  BY <1>1, BodyTypes
<1> HIDE DEF b, D
<1>3. IsFiniteSet(D \ {b}) /\ D \ {b} \in SUBSET Bodies
  BY <1>1, FS_RemoveElement
<1>4. ASSUME NEW a \in Addresses, ~ (b.dest = a /\ b.amount > 0)
      PROVE  VolumeOf(D, a) = VolumeOf(D \ {b}, a)
  <2>1. PaidTo(D \ {b}, a) = PaidTo(D, a)
    BY <1>4 DEF PaidTo
  <2>2. QED BY <2>1 DEF VolumeOf, PaidSum
<1>5. ASSUME b.amount > 0
      PROVE  VolumeOf(D, b.dest) = AtMost(VolumeOf(D \ {b}, b.dest) + b.amount, 100)
  <2>1. b \in PaidTo(D, b.dest)
    BY <1>1, <1>5 DEF PaidTo
  <2>2. PaidSum(D, b.dest) = b.amount + PaidSum(D \ {b}, b.dest)
    BY <1>1, <2>1, PaidSumFacts
  <2>3. PaidSum(D \ {b}, b.dest) \in Int
    BY <1>3, PaidSumFacts
  <2>4. QED BY <1>2, <1>5, <2>2, <2>3 DEF VolumeOf, VolumeCap, AtMost
<1>6. before = [a \in Addresses |-> VolumeOf(D \ {b}, a)]
  BY <1>1
<1> HIDE DEF before
<1>7. CASE b.amount > 0
  <2>1. AddVolume(before, b) =
          [before EXCEPT ![b.dest] = AtMost(before[b.dest] + b.amount, 100)]
    BY <1>7 DEF AddVolume, VolumeCap
  <2>2. ASSUME NEW a \in Addresses
        PROVE  [before EXCEPT ![b.dest] = AtMost(before[b.dest] + b.amount, 100)][a]
                 = VolumeOf(D, a)
    BY <1>2, <1>4, <1>5, <1>6, <1>7
  <2>3. [before EXCEPT ![b.dest] = AtMost(before[b.dest] + b.amount, 100)]
          = [a \in Addresses |-> VolumeOf(D, a)]
    BY <1>6, <2>2
  <2>4. QED BY <2>1, <2>3 DEF b, D, before
<1>8. CASE ~ (b.amount > 0)
  <2>1. AddVolume(before, b) = before
    BY <1>8 DEF AddVolume
  <2>2. before = [a \in Addresses |-> VolumeOf(D, a)]
    BY <1>4, <1>6, <1>8
  <2>3. QED BY <2>1, <2>2 DEF b, D, before
<1>9. QED BY <1>7, <1>8

\* scoreModel's volumes are the capped sums over the set of payments.
LEMMA VolumesAreSums ==
  ASSUME NEW s \in Seq(Bodies), OncePerTx(s)
  PROVE  FoldLeft(AddVolume, NoVolumes, s) = [a \in Addresses |-> VolumeOf(Range(s), a)]
<1>1. PICK run : /\ run[0] = NoVolumes
                 /\ \A k \in 1..Len(s) : run[k] = AddVolume(run[k - 1], s[k])
                 /\ FoldLeft(AddVolume, NoVolumes, s) = run[Len(s)]
  BY AddVolumeLoop
<1> DEFINE n == Len(s)
           After(k) == [a \in Addresses |-> VolumeOf(First(s, k), a)]
           T == {k \in Nat : k <= n => run[k] = After(k)}
<1>2. n \in Nat
  BY LenProperties
<1>3. 0 \in T
  <2>1. First(s, 0) = {}
    BY DEF First
  <2>2. ASSUME NEW a \in Addresses PROVE VolumeOf({}, a) = 0
    <3>1. PaidTo({}, a) = {} /\ {} \in SUBSET Bodies /\ IsFiniteSet({})
      BY FS_EmptySet DEF PaidTo
    <3>2. PaidSum({}, a) = 0
      BY <3>1, PaidSumFacts
    <3>3. QED BY <3>2 DEF VolumeOf, AtMost, VolumeCap
  <2>3. After(0) = NoVolumes
    BY <2>1, <2>2 DEF NoVolumes
  <2>4. QED BY <1>1, <2>3
<1>4. ASSUME NEW k \in Nat, k \in T PROVE k + 1 \in T
  <2>1. SUFFICES ASSUME k + 1 <= n PROVE run[k + 1] = After(k + 1)
    OBVIOUS
  <2>2. k + 1 \in 1..n /\ k + 1 - 1 = k /\ k <= n
    BY <1>2, <2>1
  <2>3. run[k] = After(k)
    BY <1>4, <2>2
  <2>4. run[k + 1] = AddVolume(run[k], s[k + 1])
    BY <1>1, <2>2
  <2>5. AddVolume(After(k + 1 - 1), s[k + 1]) = After(k + 1)
    BY <2>2, VolumeTurn
  <2>6. QED BY <2>2, <2>3, <2>4, <2>5
<1>5. n \in T
  <2> HIDE DEF T
  <2>1. QED BY <1>2, <1>3, <1>4, ForAllNat
<1>6. run[n] = After(n)
  BY <1>2, <1>5
<1>7. First(s, n) = Range(s)
  <2>1. DOMAIN s = 1..n
    BY LenProperties
  <2>2. QED BY <2>1 DEF First, Range
<1>8. QED BY <1>1, <1>6, <1>7

\* The oldest timestamp is the least one, or 0 if there is none.
LEMMA OldestIsLeast ==
  ASSUME NEW s \in Seq(Bodies)
  PROVE  LET o == FoldLeft(OldestOf, 0, s)
         IN  /\ o \in Nat
             /\ Range(s) = {} => o = 0
             /\ Range(s) # {} => o # 0 /\ \E b \in Range(s) : b.at = o
             /\ \A b \in Range(s) : o <= b.at
<1>1. PICK run : /\ run[0] = 0
                 /\ \A k \in 1..Len(s) : run[k] = OldestOf(run[k - 1], s[k])
                 /\ FoldLeft(OldestOf, 0, s) = run[Len(s)]
  BY OldestLoop
<1> DEFINE n == Len(s)
           Least(o, D) == /\ o \in Nat /\ (D = {} => o = 0)
                          /\ D # {} => o # 0 /\ \E b \in D : b.at = o
                          /\ \A b \in D : o <= b.at
           T == {k \in Nat : k <= n => Least(run[k], First(s, k))}
<1>2. n \in Nat
  BY LenProperties
<1>3. 0 \in T
  <2>1. First(s, 0) = {}
    BY DEF First
  <2>2. QED BY <1>1, <2>1
<1>4. ASSUME NEW k \in Nat, k \in T PROVE k + 1 \in T
  <2>1. SUFFICES ASSUME k + 1 <= n PROVE Least(run[k + 1], First(s, k + 1))
    OBVIOUS
  <2>2. k + 1 \in 1..n /\ k + 1 - 1 = k /\ k <= n
    BY <1>2, <2>1
  <2> DEFINE o == run[k]
             b == s[k + 1]
             D == First(s, k)
  <2>3. Least(o, D)
    BY <1>4, <2>2
  <2>4. run[k + 1] = OldestOf(o, b)
    BY <1>1, <2>2
  <2>5. First(s, k + 1) = D \cup {b} /\ b \in Bodies /\ D \subseteq Bodies
    <3>1. First(s, k + 1) = First(s, k + 1 - 1) \cup {b} /\ b \in Bodies
          /\ First(s, k + 1) \subseteq Bodies
      BY <2>2, FirstFacts
    <3>2. QED BY <2>2, <3>1
  <2>6. b.at \in Nat /\ b.at > 0 /\ \A c \in D : c.at \in Nat /\ c.at > 0
    BY <2>5, BodyTypes
  <2> HIDE DEF o, b, D
  <2>7. CASE o = 0 \/ b.at < o
    <3>1. OldestOf(o, b) = b.at
      BY <2>7 DEF OldestOf
    <3>2. \A c \in D \cup {b} : b.at <= c.at
      BY <2>3, <2>6, <2>7
    <3>3. QED BY <2>4, <2>5, <2>6, <3>1, <3>2
  <2>8. CASE o # 0 /\ ~ (b.at < o)
    <3>1. OldestOf(o, b) = o
      BY <2>8 DEF OldestOf
    <3>2. \A c \in D \cup {b} : o <= c.at
      BY <2>3, <2>6, <2>8
    <3>3. D # {} /\ \E c \in D : c.at = o
      BY <2>3, <2>8
    <3>4. QED BY <2>3, <2>4, <2>5, <2>8, <3>1, <3>2, <3>3
  <2>9. QED BY <2>7, <2>8
<1>5. n \in T
  <2> HIDE DEF T
  <2>1. QED BY <1>2, <1>3, <1>4, ForAllNat
<1>6. Least(run[n], First(s, n))
  BY <1>2, <1>5
<1>7. First(s, n) = Range(s)
  <2>1. DOMAIN s = 1..n
    BY LenProperties
  <2>2. QED BY <2>1 DEF First, Range
<1>8. QED BY <1>1, <1>6, <1>7

AtLeastOneOld(D, t) == \E b \in D : t - b.at > AgeDays

\* The age points tell whether some payment is old.
LEMMA AgeIsOfOldest ==
  ASSUME NEW s \in Seq(Bodies), today \in Int
  PROVE  AgePoints(s) = IF AtLeastOneOld(Range(s), today) THEN 100 ELSE 0
<1> DEFINE o == FoldLeft(OldestOf, 0, s)
<1>1. /\ o \in Nat
      /\ Range(s) = {} => o = 0
      /\ Range(s) # {} => o # 0 /\ \E b \in Range(s) : b.at = o
      /\ \A b \in Range(s) : o <= b.at
  BY OldestIsLeast
<1>2. \A b \in Range(s) : b.at \in Nat
  <2>1. Range(s) \subseteq Bodies
    BY LenProperties DEF Range
  <2>2. QED BY <2>1, BodyTypes
<1>3. AgePoints(s) = IF o # 0 /\ today - o > AgeDays THEN 100 ELSE 0
  BY DEF AgePoints
<1> HIDE DEF o
<1>4. (o # 0 /\ today - o > AgeDays) <=> AtLeastOneOld(Range(s), today)
  BY <1>1, <1>2 DEF AtLeastOneOld, AgeDays
<1>5. QED BY <1>3, <1>4

\* The points of a set of payments on a day.
VolumePointsOf(D) ==
  AtMost(35 * (SumFunction([a \in Addresses |-> VolumeOf(D, a)]) \div VolumeStep), 200)

PointsOf(D, t) ==
  500 + AtMost(40 * Cardinality(D), 200) + VolumePointsOf(D)
      + (IF AtLeastOneOld(D, t) THEN 100 ELSE 0)

\* The volumes of a larger set are no smaller, nor is what they add up to.
LEMMA VolumesMonotone ==
  ASSUME NEW D \in SUBSET Bodies, IsFiniteSet(D), NEW E \in SUBSET D
  PROVE  LET total(C) == SumFunction([a \in Addresses |-> VolumeOf(C, a)])
         IN  total(E) \in Nat /\ total(D) \in Nat /\ total(E) <= total(D)
<1> DEFINE f(C) == [a \in Addresses |-> VolumeOf(C, a)]
           total(C) == SumFunction(f(C))
<1>1. IsFiniteSet(E) /\ E \in SUBSET Bodies
  BY FS_Subset
<1>2. ASSUME NEW a \in Addresses
      PROVE  /\ VolumeOf(E, a) \in Nat /\ VolumeOf(D, a) \in Nat
             /\ VolumeOf(E, a) <= VolumeOf(D, a)
  <2>1. PaidSum(E, a) \in Nat /\ PaidSum(D, a) \in Nat /\ PaidSum(E, a) <= PaidSum(D, a)
    BY <1>1, PaidSumFacts
  <2>2. QED BY <2>1 DEF VolumeOf, VolumeCap, AtMost
<1>3. total(E) = SumFunctionOnSet(f(E), Addresses) /\ total(D) = SumFunctionOnSet(f(D), Addresses)
  BY DEF SumFunction
<1>4. IsFiniteSet(Addresses)
  BY ProofsAssumption
<1> DEFINE fE == f(E)
           fD == f(D)
<1>5. \A a \in Addresses : fE[a] \in Nat /\ fD[a] \in Nat /\ fE[a] <= fD[a]
  BY <1>2
<1>6. /\ SumFunctionOnSet(fE, Addresses) \in Int /\ SumFunctionOnSet(fD, Addresses) \in Int
      /\ SumFunctionOnSet(fE, Addresses) <= SumFunctionOnSet(fD, Addresses)
      /\ SumFunctionOnSet(fE, {}) = 0
      /\ SumFunctionOnSet(fE, {}) <= SumFunctionOnSet(fE, Addresses)
  <2> HIDE DEF fE, fD
  <2>1. \A a \in Addresses : fE[a] \in Int /\ fD[a] \in Int
    BY <1>5
  <2>2. SumFunctionOnSet(fE, Addresses) \in Int /\ SumFunctionOnSet(fD, Addresses) \in Int
    BY <1>4, <2>1, SumRemove
  <2>3. SumFunctionOnSet(fE, Addresses) <= SumFunctionOnSet(fD, Addresses)
    BY <1>4, <1>5, <2>1, SumMonotone
  <2>4. IsFiniteSet({}) /\ {} \in SUBSET Addresses
    BY FS_EmptySet
  <2>5. SumFunctionOnSet(fE, {}) = 0
    BY <2>4, SumRemove
  <2>6. SumFunctionOnSet(fE, {}) <= SumFunctionOnSet(fE, Addresses)
    BY <1>4, <1>5, <2>1, <2>4, SumMonotone
  <2>7. QED BY <2>2, <2>3, <2>5, <2>6
<1>7. total(E) \in Nat /\ total(D) \in Nat /\ total(E) <= total(D)
  <2> HIDE DEF total
  <2>1. QED BY <1>3, <1>6
<1>8. QED BY <1>7

LEMMA Steps25 ==
  \A m, n \in Nat : /\ m \div 25 \in Nat
                    /\ m <= n => m \div 25 <= n \div 25
  OBVIOUS

\* A number of points, at most n.
Within(x, n) == x \in Int /\ 0 <= x /\ x <= n

LEMMA WithinFacts ==
  ASSUME NEW x, NEW n \in Nat, Within(x, n)
  PROVE  x \in 0..n /\ AtMost(x, n) = x
  BY DEF Within, AtMost

TxPointsOf(D) == AtMost(40 * Cardinality(D), 200)
AgePointsOf(D, t) == IF AtLeastOneOld(D, t) THEN 100 ELSE 0

\* More payments, later: no part of the points is less.
LEMMA PartsMonotone ==
  ASSUME NEW D \in SUBSET Bodies, IsFiniteSet(D), NEW E \in SUBSET D,
         NEW t \in Int, NEW u \in Int, u <= t
  PROVE  /\ Within(TxPointsOf(E), 200) /\ Within(TxPointsOf(D), 200)
         /\ TxPointsOf(E) <= TxPointsOf(D)
         /\ Within(VolumePointsOf(E), 200) /\ Within(VolumePointsOf(D), 200)
         /\ VolumePointsOf(E) <= VolumePointsOf(D)
         /\ AgePointsOf(E, u) <= AgePointsOf(D, t)
<1> DEFINE total(C) == SumFunction([a \in Addresses |-> VolumeOf(C, a)])
           x == total(E)
           y == total(D)
<1>1. x \in Nat /\ y \in Nat /\ x <= y
  BY VolumesMonotone
<1>2. /\ VolumePointsOf(E) = AtMost(35 * (x \div 25), 200)
      /\ VolumePointsOf(D) = AtMost(35 * (y \div 25), 200)
  BY DEF VolumePointsOf, VolumeStep
<1>3. /\ Within(VolumePointsOf(E), 200) /\ Within(VolumePointsOf(D), 200)
      /\ VolumePointsOf(E) <= VolumePointsOf(D)
  <2> DEFINE p == x \div 25
             q == y \div 25
  <2> HIDE DEF x, y
  <2>1. p \in Nat /\ q \in Nat /\ p <= q
    BY <1>1, Steps25
  <2> HIDE DEF p, q
  <2>2. /\ Within(AtMost(35 * p, 200), 200) /\ Within(AtMost(35 * q, 200), 200)
        /\ AtMost(35 * p, 200) <= AtMost(35 * q, 200)
    BY <2>1 DEF AtMost, Within
  <2>3. QED BY <1>2, <2>2 DEF p, q
<1>4. Cardinality(E) \in Nat /\ Cardinality(D) \in Nat /\ Cardinality(E) <= Cardinality(D)
  BY FS_Subset, FS_CardinalityType
<1>5. /\ Within(TxPointsOf(E), 200) /\ Within(TxPointsOf(D), 200)
      /\ TxPointsOf(E) <= TxPointsOf(D)
  BY <1>4 DEF TxPointsOf, AtMost, Within
<1>6. AtLeastOneOld(E, u) => AtLeastOneOld(D, t)
  <2>1. \A b \in D : b.at \in Nat
    BY BodyTypes
  <2>2. QED BY <2>1 DEF AtLeastOneOld, AgeDays
<1>7. AgePointsOf(E, u) <= AgePointsOf(D, t)
  BY <1>6 DEF AgePointsOf
<1>8. QED BY <1>3, <1>5, <1>7

LEMMA PointsParts ==
  ASSUME NEW D \in SUBSET Bodies, IsFiniteSet(D), NEW t \in Int
  PROVE  /\ Within(TxPointsOf(D), 200) /\ Within(VolumePointsOf(D), 200)
         /\ Within(AgePointsOf(D, t), 100)
         /\ PointsOf(D, t) = 500 + TxPointsOf(D) + VolumePointsOf(D) + AgePointsOf(D, t)
         /\ 500 <= PointsOf(D, t) /\ Within(PointsOf(D, t), 1000)
<1>1. D \in SUBSET D /\ t <= t
  OBVIOUS
<1>2. Within(TxPointsOf(D), 200) /\ Within(VolumePointsOf(D), 200)
  BY <1>1, PartsMonotone
<1>3. Within(AgePointsOf(D, t), 100)
  BY DEF AgePointsOf, Within
<1>4. PointsOf(D, t) = 500 + TxPointsOf(D) + VolumePointsOf(D) + AgePointsOf(D, t)
  BY DEF PointsOf, TxPointsOf, AgePointsOf
<1>5. 500 <= PointsOf(D, t) /\ Within(PointsOf(D, t), 1000)
  BY <1>2, <1>3, <1>4 DEF Within
<1>6. QED BY <1>2, <1>3, <1>4, <1>5

\* So more payments, later, never make fewer points.
LEMMA PointsMonotone ==
  ASSUME NEW D \in SUBSET Bodies, IsFiniteSet(D), NEW E \in SUBSET D,
         NEW t \in Int, NEW u \in Int, u <= t
  PROVE  PointsOf(E, u) <= PointsOf(D, t)
<1>1. IsFiniteSet(E) /\ E \in SUBSET Bodies
  BY FS_Subset
<1>2. /\ PointsOf(E, u) = 500 + TxPointsOf(E) + VolumePointsOf(E) + AgePointsOf(E, u)
      /\ Within(AgePointsOf(E, u), 100)
  BY <1>1, PointsParts
<1>3. /\ PointsOf(D, t) = 500 + TxPointsOf(D) + VolumePointsOf(D) + AgePointsOf(D, t)
      /\ Within(AgePointsOf(D, t), 100)
  BY PointsParts
<1>4. /\ Within(TxPointsOf(E), 200) /\ Within(TxPointsOf(D), 200)
      /\ TxPointsOf(E) <= TxPointsOf(D)
      /\ Within(VolumePointsOf(E), 200) /\ Within(VolumePointsOf(D), 200)
      /\ VolumePointsOf(E) <= VolumePointsOf(D)
      /\ AgePointsOf(E, u) <= AgePointsOf(D, t)
  BY PartsMonotone
<1>5. QED BY <1>2, <1>3, <1>4 DEF Within

\* What the enclave answers for a list is what its set of payments deserves.
LEMMA ScoreOfList ==
  ASSUME NEW s \in Seq(Bodies), OncePerTx(s), today \in Int
  PROVE  /\ ScoreOf(Breakdown(s)) = PointsOf(Range(s), today)
         /\ 500 <= PointsOf(Range(s), today) /\ Within(PointsOf(Range(s), today), 1000)
         /\ Breakdown(s) \in [base : {400}, transactions : 0..200, volume : 0..200,
                              walletAge : {0, 100}, cleanRepayment : {100}]
<1> DEFINE D == Range(s)
<1>1. D \in SUBSET Bodies
  BY LenProperties DEF Range
<1>2. IsFiniteSet(D) /\ Cardinality(D) = Len(s) /\ Len(s) \in Nat
  BY LengthIsCardinality, LenProperties
<1>3. TransactionPoints(s) = TxPointsOf(D)
  BY <1>2 DEF TransactionPoints, TxPointsOf
<1>4. TotalVolume(s) = SumFunction([a \in Addresses |-> VolumeOf(D, a)])
  BY VolumesAreSums DEF TotalVolume, NoVolumes
<1>5. TotalVolume(s) \in Nat
  BY <1>1, <1>2, <1>4, VolumesMonotone
<1>6. VolumePoints(s) = VolumePointsOf(D)
  <2>1. TotalVolume(s) \div VolumeStep \in Nat
    BY <1>5, Steps25 DEF VolumeStep
  <2>2. (TotalVolume(s) \div VolumeStep) * 35 = 35 * (TotalVolume(s) \div VolumeStep)
    BY <2>1
  <2>3. QED BY <1>4, <2>2 DEF VolumePoints, VolumePointsOf
<1>7. AgePoints(s) = AgePointsOf(D, today)
  BY AgeIsOfOldest DEF AgePointsOf
<1> HIDE DEF D
<1>8. /\ Within(TransactionPoints(s), 200) /\ Within(VolumePoints(s), 200)
      /\ Within(AgePoints(s), 100)
      /\ PointsOf(D, today) = 500 + TransactionPoints(s) + VolumePoints(s) + AgePoints(s)
  BY <1>1, <1>2, <1>3, <1>6, <1>7, PointsParts
<1>14. 500 <= PointsOf(D, today) /\ Within(PointsOf(D, today), 1000)
  BY <1>1, <1>2, PointsParts
<1>9. ScoreOf(Breakdown(s)) =
        AtMost(400 + TransactionPoints(s) + VolumePoints(s) + AgePoints(s) + 100, 1000)
  BY DEF ScoreOf, Breakdown
<1>10. 400 + TransactionPoints(s) + VolumePoints(s) + AgePoints(s) + 100 = PointsOf(D, today)
  BY <1>8 DEF Within
<1>11. ScoreOf(Breakdown(s)) = PointsOf(D, today)
  <2>1. AtMost(PointsOf(D, today), 1000) = PointsOf(D, today)
    BY <1>14, WithinFacts
  <2>2. QED BY <1>9, <1>10, <2>1
<1>12. Breakdown(s) \in [base : {400}, transactions : 0..200, volume : 0..200,
                         walletAge : {0, 100}, cleanRepayment : {100}]
  <2>1. Within(TransactionPoints(s), 200) /\ Within(VolumePoints(s), 200)
    BY <1>8
  <2>5. \A x : Within(x, 200) => x \in 0..200
    BY DEF Within
  <2>2. TransactionPoints(s) \in 0..200 /\ VolumePoints(s) \in 0..200
    BY <2>1, <2>5
  <2>3. AgePoints(s) \in {0, 100}
    BY <1>7 DEF AgePointsOf
  <2>4. QED BY <2>2, <2>3 DEF Breakdown
<1>13. QED BY <1>11, <1>12, <1>14 DEF D
-----------------------------------------------------------------------------
\* The enclave and the mock, over the list the client sends.

Typed ==
  /\ bound \in Addresses /\ proofs \in Seq(Proofs) /\ today \in 1..MaxDay
  /\ score \in {0} \cup 500..1000 /\ unanswered \subseteq DOMAIN proofs

\* What a request finds of the client's list.
LEMMA HeardFacts ==
  ASSUME proofs \in Seq(Proofs), NEW lost
  PROVE  /\ Heard(lost) \in Seq(Heardable) /\ proofs \in Seq(Heardable)
         /\ Deserved(Heard(lost)) \subseteq Deserved(proofs)
         /\ \A b \in Deserved(proofs) \ Deserved(Heard(lost)) : \A i \in DOMAIN proofs \ lost :
              proofs[i].kind = "verified" => proofs[i].body # b
<1> DEFINE n == Len(proofs)
           list == Heard(lost)
<1>1. n \in Nat /\ DOMAIN proofs = 1..n /\ \A i \in 1..n : proofs[i] \in Proofs
  BY LenProperties
<1>2. /\ DOMAIN list = 1..n
      /\ \A i \in 1..n : list[i] = IF i \in lost THEN Unanswered(proofs[i]) ELSE proofs[i]
  BY <1>1 DEF Heard
<1>3. Heard(lost) = [i \in 1..n |-> list[i]]
  BY <1>1 DEF Heard
<1> HIDE DEF n, list
<1>4. \A i \in 1..n : list[i] \in Heardable /\ proofs[i] \in Heardable
  BY <1>1, <1>2 DEF Heardable
<1>5. list \in [1..n -> Heardable] /\ proofs \in [1..n -> Heardable]
  <2>1. proofs = [i \in 1..n |-> proofs[i]]
    BY <1>1 DEF n
  <2>2. list = [i \in 1..n |-> list[i]]
    BY <1>3 DEF list
  <2>3. QED BY <1>4, <2>1, <2>2
<1>6. list \in Seq(Heardable) /\ proofs \in Seq(Heardable)
  BY <1>1, <1>5
<1>7. \A i \in 1..n : list[i].kind = "verified" => list[i] = proofs[i]
  BY <1>1, <1>2, HeardableFacts
<1>8. Range(list) = {list[i] : i \in 1..n} /\ Range(proofs) = {proofs[i] : i \in 1..n}
  BY <1>1, <1>2 DEF Range
<1>9. Deserved(list) \subseteq Deserved(proofs)
  BY <1>7, <1>8 DEF Deserved
<1>10. ASSUME NEW b \in Deserved(proofs) \ Deserved(list), NEW i \in DOMAIN proofs \ lost,
              proofs[i].kind = "verified"
       PROVE  proofs[i].body # b
  <2>1. list[i] = proofs[i] /\ list[i] \in Range(list)
    BY <1>1, <1>2, <1>8, <1>10
  <2>2. b.status = 0 /\ b.source = bound /\ b.dest # bound
    BY <1>10 DEF Deserved
  <2>3. ASSUME proofs[i].body = b PROVE b \in Deserved(list)
    BY <1>10, <2>1, <2>2, <2>3 DEF Deserved
  <2>4. QED BY <1>10, <2>3
<1>11. QED BY <1>6, <1>9, <1>10 DEF list

LEMMA ScoreOfDeserved ==
  ASSUME Typed, NEW list \in Seq(Heardable)
  PROVE  /\ ScoreOf(Breakdown(Counted(list))) = PointsOf(Deserved(list), today)
         /\ 500 <= PointsOf(Deserved(list), today)
         /\ Within(PointsOf(Deserved(list), today), 1000)
         /\ Breakdown(Counted(list)) \in
              [base : {400}, transactions : 0..200, volume : 0..200,
               walletAge : {0, 100}, cleanRepayment : {100}]
         /\ Deserved(list) \in SUBSET Bodies /\ IsFiniteSet(Deserved(list))
<1>1. today \in Int
  BY BoundsAssumption DEF Typed
<1> DEFINE s == Counted(list)
<1>2. s \in Seq(Bodies) /\ OncePerTx(s) /\ Range(s) = Deserved(list)
  BY CountedFacts
<1>3. IsFiniteSet(Range(s)) /\ Range(s) \subseteq Bodies
  BY <1>2, LengthIsCardinality, LenProperties DEF Range
<1> HIDE DEF s
<1>4. /\ ScoreOf(Breakdown(s)) = PointsOf(Range(s), today)
      /\ 500 <= PointsOf(Range(s), today) /\ Within(PointsOf(Range(s), today), 1000)
      /\ Breakdown(s) \in [base : {400}, transactions : 0..200, volume : 0..200,
                           walletAge : {0, 100}, cleanRepayment : {100}]
  BY <1>1, <1>2, ScoreOfList
<1>5. QED BY <1>2, <1>3, <1>4 DEF s

\* The mock's list is the enclave's, turn by turn.
LEMMA OwnedIsCounted ==
  ASSUME proofs \in Seq(Proofs), \A p \in Range(proofs) : p.kind # "forged"
  PROVE  MockOwned = Counted(proofs)
<1> DEFINE n == Len(proofs)
<1>1. n \in Nat /\ DOMAIN proofs = 1..n /\ \A i \in 1..n : proofs[i] \in Proofs
  BY LenProperties
<1>2. PICK run : /\ run[0] = <<>>
                 /\ \A k \in 1..n : run[k] = Admit(run[k - 1], proofs[k])
                 /\ Counted(proofs) = run[n]
  BY HeardFacts, AdmitLoop DEF Counted
<1>3. PICK mock : /\ mock[0] = <<>>
                  /\ \A k \in 1..n : mock[k] = MockAdmit(mock[k - 1], proofs[k])
                  /\ MockOwned = mock[n]
  BY MockAdmitLoop DEF MockOwned
<1> DEFINE T == {k \in Nat : k <= n => mock[k] = run[k]}
<1>4. ASSUME NEW i \in 1..n, NEW acc PROVE MockAdmit(acc, proofs[i]) = Admit(acc, proofs[i])
  <2>1. proofs[i].kind # "forged" /\ proofs[i].kind \in {"verified", "forged", "opaque"}
    BY <1>1, ProofsAssumption DEF Range
  <2>2. QED BY <2>1 DEF MockAdmit, Admit, Fresh
<1>5. 0 \in T
  BY <1>2, <1>3
<1>6. ASSUME NEW k \in Nat, k \in T PROVE k + 1 \in T
  <2>1. SUFFICES ASSUME k + 1 <= n PROVE mock[k + 1] = run[k + 1]
    OBVIOUS
  <2>2. k + 1 \in 1..n /\ k + 1 - 1 = k /\ k <= n
    BY <1>1, <2>1
  <2>3. mock[k] = run[k]
    BY <1>6, <2>2
  <2>4. /\ run[k + 1] = Admit(run[k], proofs[k + 1])
        /\ mock[k + 1] = MockAdmit(mock[k], proofs[k + 1])
    BY <1>2, <1>3, <2>2
  <2>5. QED BY <1>4, <2>2, <2>3, <2>4
<1>7. n \in T
  <2> HIDE DEF T
  <2>1. QED BY <1>1, <1>5, <1>6, ForAllNat
<1>8. mock[n] = run[n]
  BY <1>1, <1>7
<1>9. QED BY <1>2, <1>3, <1>8

\* The two loops over the volumes differ in the amounts that are not positive,
\* which the mock adds as 0: no volume is above the cap, so that changes none.
LEMMA AmountsAreVolumes ==
  ASSUME NEW s \in Seq(Bodies)
  PROVE  FoldLeft(AddAmount, NoVolumes, s) = FoldLeft(AddVolume, NoVolumes, s)
<1> DEFINE n == Len(s)
<1>1. n \in Nat /\ \A i \in 1..n : s[i] \in Bodies
  BY LenProperties
<1>2. PICK run : /\ run[0] = NoVolumes
                 /\ \A k \in 1..n : run[k] = AddVolume(run[k - 1], s[k])
                 /\ FoldLeft(AddVolume, NoVolumes, s) = run[n]
  BY AddVolumeLoop
<1>3. PICK mock : /\ mock[0] = NoVolumes
                  /\ \A k \in 1..n : mock[k] = AddAmount(mock[k - 1], s[k])
                  /\ FoldLeft(AddAmount, NoVolumes, s) = mock[n]
  BY AddAmountLoop
<1> DEFINE Capped == {v \in [Addresses -> Int] : \A a \in Addresses : v[a] <= 100}
           T == {k \in Nat : k <= n => mock[k] = run[k] /\ run[k] \in Capped}
<1>4. ASSUME NEW v \in Capped, NEW b \in Bodies
      PROVE  AddAmount(v, b) = AddVolume(v, b) /\ AddVolume(v, b) \in Capped
  <2>1. b.dest \in Addresses /\ b.amount \in Int
    BY BodyTypes
  <2>2. v[b.dest] \in Int /\ v[b.dest] <= 100
    BY <2>1
  <2>3. CASE b.amount > 0
    <3>1. AddAmount(v, b) = AddVolume(v, b)
      BY <2>3 DEF AddAmount, AddVolume
    <3> DEFINE x == AtMost(v[b.dest] + b.amount, VolumeCap)
    <3>2. x \in Int /\ x <= 100
      BY <2>1, <2>2 DEF AtMost, VolumeCap
    <3>3. AddVolume(v, b) = [v EXCEPT ![b.dest] = x]
      BY <2>3 DEF AddVolume
    <3> HIDE DEF x
    <3>4. [v EXCEPT ![b.dest] = x] \in Capped
      BY <2>1, <3>2
    <3>5. QED BY <3>1, <3>3, <3>4
  <2>4. CASE ~ (b.amount > 0)
    <3>1. AddVolume(v, b) = v
      BY <2>4 DEF AddVolume
    <3>2. AtMost(v[b.dest] + 0, VolumeCap) = v[b.dest]
      BY <2>2 DEF AtMost, VolumeCap
    <3>3. AddAmount(v, b) = [v EXCEPT ![b.dest] = v[b.dest]]
      BY <2>4, <3>2 DEF AddAmount
    <3>4. QED BY <2>1, <3>1, <3>3
  <2>5. QED BY <2>3, <2>4
<1>5. 0 \in T
  BY <1>2, <1>3 DEF NoVolumes
<1>6. ASSUME NEW k \in Nat, k \in T PROVE k + 1 \in T
  <2>1. SUFFICES ASSUME k + 1 <= n
                 PROVE  mock[k + 1] = run[k + 1] /\ run[k + 1] \in Capped
    OBVIOUS
  <2>2. k + 1 \in 1..n /\ k + 1 - 1 = k /\ k <= n
    BY <1>1, <2>1
  <2>3. mock[k] = run[k] /\ run[k] \in Capped
    BY <1>6, <2>2
  <2>4. /\ run[k + 1] = AddVolume(run[k], s[k + 1])
        /\ mock[k + 1] = AddAmount(mock[k], s[k + 1])
    BY <1>2, <1>3, <2>2
  <2> HIDE DEF Capped
  <2>5. QED BY <1>1, <1>4, <2>2, <2>3, <2>4
<1>7. n \in T
  <2> HIDE DEF T
  <2>1. QED BY <1>1, <1>5, <1>6, ForAllNat
<1>8. mock[n] = run[n]
  BY <1>1, <1>7
<1>9. QED BY <1>2, <1>3, <1>8

\* The mock's breakdown of a list is the enclave's.
LEMMA BreakdownsAgree ==
  ASSUME NEW s \in Seq(Bodies), today \in Int
  PROVE  MockBreakdown(s) = Breakdown(s)
<1> DEFINE drops == SumFunction(FoldLeft(AddAmount, NoVolumes, s))
           times == {b.at : b \in Range(s)}
           old == \E t \in times : (\A u \in times : t <= u) /\ today - t > AgeDays
<1>1. MockBreakdown(s) =
        [base |-> 400, transactions |-> AtMost(Len(s) * 40, 200),
         volume |-> AtMost((drops \div VolumeStep) * 35, 200),
         walletAge |-> IF old THEN 100 ELSE 0, cleanRepayment |-> 100]
  BY DEF MockBreakdown, NoVolumes
<1>2. drops = TotalVolume(s)
  BY AmountsAreVolumes DEF TotalVolume, NoVolumes
<1>3. old <=> AtLeastOneOld(Range(s), today)
  <2> DEFINE o == FoldLeft(OldestOf, 0, s)
  <2>1. /\ o \in Nat
        /\ Range(s) # {} => \E b \in Range(s) : b.at = o
        /\ \A b \in Range(s) : o <= b.at
    BY OldestIsLeast
  <2>2. \A b \in Range(s) : b.at \in Nat
    <3>1. Range(s) \subseteq Bodies
      BY LenProperties DEF Range
    <3>2. QED BY <3>1, BodyTypes
  <2> HIDE DEF o
  <2>3. ASSUME AtLeastOneOld(Range(s), today) PROVE old
    <3>1. PICK b \in Range(s) : today - b.at > AgeDays
      BY <2>3 DEF AtLeastOneOld
    <3>2. o \in times /\ \A u \in times : o <= u
      BY <2>1, <3>1
    <3>3. today - o > AgeDays
      BY <2>1, <2>2, <3>1 DEF AgeDays
    <3>4. QED BY <3>2, <3>3
  <2>4. ASSUME old PROVE AtLeastOneOld(Range(s), today)
    BY <2>4 DEF AtLeastOneOld
  <2>5. QED BY <2>3, <2>4
<1>4. AgePoints(s) = IF old THEN 100 ELSE 0
  BY <1>3, AgeIsOfOldest
<1> HIDE DEF old, drops
<1>5. QED BY <1>1, <1>2, <1>4 DEF Breakdown, TransactionPoints, VolumePoints
-----------------------------------------------------------------------------
\* The invariant behind all of them: the last score is not above what the
\* client's proofs deserve when every call is answered.
Best == PointsOf(Deserved(proofs), today)

SInv == Typed /\ score <= Best

\* What a request scores, and what it could score.
LEMMA RequestFacts ==
  ASSUME Typed, NEW lost
  PROVE  /\ ScoreOf(Breakdown(Counted(Heard(lost)))) \in 500..1000
         /\ ScoreOf(Breakdown(Counted(Heard(lost)))) <= Best
         /\ Best \in Int /\ 500 <= Best
         /\ Deserved(Heard(lost)) = Deserved(proofs)
              => ScoreOf(Breakdown(Counted(Heard(lost)))) = Best
<1>1. proofs \in Seq(Proofs) /\ today \in Int
  BY BoundsAssumption DEF Typed
<1>2. /\ Heard(lost) \in Seq(Heardable) /\ proofs \in Seq(Heardable)
      /\ Deserved(Heard(lost)) \subseteq Deserved(proofs)
  BY <1>1, HeardFacts
<1>3. /\ ScoreOf(Breakdown(Counted(Heard(lost)))) = PointsOf(Deserved(Heard(lost)), today)
      /\ 500 <= PointsOf(Deserved(Heard(lost)), today)
      /\ Within(PointsOf(Deserved(Heard(lost)), today), 1000)
  BY <1>2, ScoreOfDeserved
<1>4. /\ 500 <= Best /\ Within(Best, 1000)
      /\ Deserved(proofs) \in SUBSET Bodies /\ IsFiniteSet(Deserved(proofs))
  BY <1>2, ScoreOfDeserved DEF Best
<1>5. PointsOf(Deserved(Heard(lost)), today) <= Best
  BY <1>1, <1>2, <1>4, PointsMonotone DEF Best
<1>6. QED BY <1>3, <1>4, <1>5 DEF Within, Best

LEMMA BestFacts ==
  Typed => /\ Best \in Int
           /\ Deserved(proofs) \in SUBSET Bodies /\ IsFiniteSet(Deserved(proofs))
<1>1. Typed => proofs \in Seq(Heardable)
  BY HeardFacts DEF Typed
<1>2. QED BY <1>1, RequestFacts, ScoreOfDeserved

LEMMA InitSInv == Init => SInv
<1> SUFFICES ASSUME Init PROVE SInv
  OBVIOUS
<1>1. Typed
  BY BoundsAssumption, EmptySeq DEF Init, Typed
<1>2. 500 <= Best /\ Best \in Int
  BY <1>1, RequestFacts
<1>3. score = 0
  BY DEF Init
<1>4. QED BY <1>1, <1>2, <1>3 DEF SInv

LEMMA NextTyped == Typed /\ [Next]_vars => Typed'
<1> SUFFICES ASSUME Typed, [Next]_vars PROVE Typed'
  OBVIOUS
<1> USE BoundsAssumption
<1>1. ASSUME NEW lost \in SUBSET DOMAIN proofs, HandleScore(lost) PROVE Typed'
  <2>1. score' \in 500..1000
    BY <1>1, RequestFacts DEF HandleScore
  <2>2. QED BY <1>1, <2>1 DEF HandleScore, Typed
<1>2. ASSUME NEW p \in Proofs, Receive(p) PROVE Typed'
  <2>1. proofs' = Append(proofs, p) /\ proofs \in Seq(Proofs)
    BY <1>2 DEF Receive, Typed
  <2>2. proofs' \in Seq(Proofs) /\ DOMAIN proofs \subseteq DOMAIN proofs'
    BY <2>1, AppendProperties, LenProperties
  <2>3. QED BY <1>2, <2>2 DEF Receive, Typed
<1>3. CASE NextDay
  BY <1>3 DEF NextDay, Typed
<1>4. CASE UNCHANGED vars
  BY <1>4 DEF vars, Typed
<1>5. QED BY <1>1, <1>2, <1>3, <1>4 DEF Next

\* What the proofs deserve only grows.
LEMMA BestGrows ==
  Typed /\ Typed' /\ [Next]_vars => Best <= Best'
<1> SUFFICES ASSUME Typed, Typed', [Next]_vars PROVE Best <= Best'
  OBVIOUS
<1>1. bound' = bound /\ Range(proofs) \subseteq Range(proofs') /\ today <= today'
  <2>1. today \in Nat
    BY BoundsAssumption DEF Typed
  <2>2. ASSUME NEW p \in Proofs, Receive(p) PROVE Range(proofs) \subseteq Range(proofs')
    <3>1. /\ proofs' = Append(proofs, p) /\ proofs \in Seq(Proofs)
          /\ DOMAIN proofs = 1..Len(proofs) /\ Len(proofs) \in Nat
      BY <2>2, LenProperties DEF Receive, Typed
    <3>2. /\ DOMAIN proofs' = 1..(Len(proofs) + 1)
          /\ \A i \in 1..Len(proofs) : proofs'[i] = proofs[i]
      BY <3>1, AppendProperties
    <3>3. \A i \in 1..Len(proofs) : i \in DOMAIN proofs'
      BY <3>1, <3>2
    <3>4. QED BY <3>1, <3>2, <3>3 DEF Range
  <2>3. QED BY <2>1, <2>2 DEF Next, HandleScore, Receive, NextDay, vars
<1> DEFINE D == Deserved(proofs)
           E == Deserved(proofs)'
<1>2. D \subseteq E
  BY <1>1 DEF Deserved
<1>3. (Typed => Deserved(proofs) \in SUBSET Bodies /\ IsFiniteSet(Deserved(proofs)))'
  BY BestFacts, PTL
<1>4. E \in SUBSET Bodies /\ IsFiniteSet(E)
  BY <1>3
<1>5. today \in Int /\ today' \in Int
  BY BoundsAssumption DEF Typed
<1>6. Best = PointsOf(D, today) /\ Best' = PointsOf(E, today')
  BY DEF Best
<1> HIDE DEF D, E
<1>7. QED BY <1>1, <1>2, <1>4, <1>5, <1>6, PointsMonotone

\* A lower score than the last is one of a request that lost a payment.
Falling ==
  score' < score =>
    \E b \in Deserved(proofs) : \A i \in DOMAIN proofs \ unanswered' :
      proofs[i].kind = "verified" => proofs[i].body # b

LEMMA NextSInv == SInv /\ [Next]_vars => SInv' /\ Falling
<1> SUFFICES ASSUME SInv, [Next]_vars PROVE SInv' /\ Falling
  OBVIOUS
<1>1. Typed /\ Typed' /\ score <= Best
  BY NextTyped DEF SInv
<1>2. Best <= Best'
  BY <1>1, BestGrows
<1>3. Best \in Int /\ Best' \in Int /\ score \in Int /\ score' \in Int
  <2>1. Typed => Best \in Int
    BY BestFacts
  <2>2. (Typed => Best \in Int)'
    BY BestFacts, PTL
  <2>3. QED BY <1>1, <2>1, <2>2 DEF Typed
<1>4. CASE UNCHANGED score
  <2>1. score' <= Best'
    BY <1>1, <1>2, <1>3, <1>4
  <2>2. QED BY <1>1, <1>3, <1>4, <2>1 DEF SInv, Falling
<1>5. ASSUME NEW lost \in SUBSET DOMAIN proofs, HandleScore(lost) PROVE SInv' /\ Falling
  <2>1. /\ score' = ScoreOf(Breakdown(Counted(Heard(lost)))) /\ unanswered' = lost
    BY <1>5 DEF HandleScore
  <2>2. /\ score' <= Best
        /\ Deserved(Heard(lost)) = Deserved(proofs) => score' = Best
    BY <1>1, <2>1, RequestFacts
  <2>3. SInv'
    <3>1. score' <= Best'
      BY <1>2, <1>3, <2>2
    <3>2. QED BY <1>1, <3>1 DEF SInv
  <2>4. ASSUME score' < score PROVE Deserved(proofs) \ Deserved(Heard(lost)) # {}
    <3>1. Deserved(Heard(lost)) # Deserved(proofs)
      BY <1>1, <1>3, <2>2, <2>4
    <3>2. Deserved(Heard(lost)) \subseteq Deserved(proofs)
      BY <1>1, HeardFacts DEF Typed
    <3>3. QED BY <3>1, <3>2
  <2>5. \A b \in Deserved(proofs) \ Deserved(Heard(lost)) : \A i \in DOMAIN proofs \ lost :
          proofs[i].kind = "verified" => proofs[i].body # b
    BY <1>1, HeardFacts DEF Typed
  <2>6. Falling
    BY <2>1, <2>4, <2>5 DEF Falling
  <2>7. QED BY <2>3, <2>6
<1>6. QED BY <1>4, <1>5 DEF Next, Receive, NextDay, vars

LEMMA SInvAlways == Spec => []SInv
  BY InitSInv, NextSInv, PTL DEF Spec

\* Each part of the breakdown stays within the maximum it is shown with.
THEOREM TypeCorrect == Spec => []TypeOK
<1>1. SInv => TypeOK
  <2> SUFFICES ASSUME SInv PROVE TypeOK
    OBVIOUS
  <2>1. Heard(unanswered) \in Seq(Heardable)
    BY HeardFacts DEF SInv, Typed
  <2>2. QED BY <2>1, ScoreOfDeserved DEF SInv, Typed, TypeOK
<1>2. QED BY <1>1, SInvAlways, PTL

\* Whatever the order, the copies, the rejected proofs and the failed calls:
\* handleScore and scoreModel give the score of the set of payments proved.
THEOREM ScoreOfPayments == Spec => []ScoreIsOfPayments
<1>1. SInv => ScoreIsOfPayments
  <2> SUFFICES ASSUME SInv, NEW lost \in SUBSET DOMAIN proofs
               PROVE  LET paid == Deserved(Heard(lost))
                      IN ScoreOf(Breakdown(Counted(Heard(lost)))) =
                           500 + AtMost(40 * Cardinality(paid), 200)
                               + AtMost(35 * (SumFunction([a \in Addresses |-> VolumeTo(a, paid)])
                                                \div VolumeStep), 200)
                               + (IF \E b \in paid : today - b.at > AgeDays THEN 100 ELSE 0)
    BY DEF ScoreIsOfPayments
  <2> DEFINE paid == Deserved(Heard(lost))
  <2>1. ScoreOf(Breakdown(Counted(Heard(lost)))) = PointsOf(paid, today)
    <3>1. Heard(lost) \in Seq(Heardable)
      BY HeardFacts DEF SInv, Typed
    <3>2. QED BY <3>1, ScoreOfDeserved DEF SInv
  <2>2. \A a : VolumeTo(a, paid) = VolumeOf(paid, a)
    BY DEF VolumeTo, VolumeOf, PaidSum, PaidTo
  <2>3. [a \in Addresses |-> VolumeTo(a, paid)] = [a \in Addresses |-> VolumeOf(paid, a)]
    BY <2>2
  <2>4. QED BY <2>1, <2>3 DEF PointsOf, VolumePointsOf, AtLeastOneOld
<1>2. QED BY <1>1, SInvAlways, PTL

\* Without forged proofs and failed calls tools/mock_enclave.py counts the
\* payments and gives the breakdown of enclave-go/main.go.
THEOREM InLockstep == Spec => []Lockstep
<1>1. SInv => Lockstep
  <2> SUFFICES ASSUME SInv, \A p \in Range(proofs) : p.kind # "forged"
               PROVE  /\ MockOwned = Counted(proofs)
                      /\ MockBreakdown(MockOwned) = Breakdown(Counted(proofs))
    BY DEF Lockstep
  <2>1. proofs \in Seq(Proofs) /\ today \in Int
    BY BoundsAssumption DEF SInv, Typed
  <2>2. MockOwned = Counted(proofs)
    BY <2>1, OwnedIsCounted
  <2>3. Counted(proofs) \in Seq(Bodies)
    BY <2>1, HeardFacts, CountedFacts
  <2> DEFINE s == Counted(proofs)
  <2> HIDE DEF s
  <2>4. MockBreakdown(s) = Breakdown(s)
    BY <2>1, <2>3, BreakdownsAgree DEF s
  <2>5. QED BY <2>2, <2>4 DEF s
<1>2. QED BY <1>1, SInvAlways, PTL

\* A new answer of the enclave is lower than the last only when the calls about
\* every proof of some payment failed: neither a proof nor a day costs points.
THEOREM FallsOnlyByFailure == Spec => FallsOnlyUnanswered
<1>1. SInv /\ [Next]_vars => [Falling]_vars
  BY NextSInv
<1>2. QED BY <1>1, SInvAlways, PTL DEF Spec, FallsOnlyUnanswered, Falling
=============================================================================
