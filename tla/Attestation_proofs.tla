------------------------- MODULE Attestation_proofs -------------------------
(***************************************************************************)
(* What the attest page keeps, for any number of tabs, clicks,             *)
(* transactions and voting rounds: its types, one proof a transaction in   *)
(* every list, no proof but those the DA layer served; and, in a browser   *)
(* with one tab, everything that has reached localStorage. First what      *)
(* merging one list of proofs into another does to both.                   *)
(***************************************************************************)
EXTENDS Attestation, FiniteSetTheorems, FunctionTheorems, SequenceTheorems,
        NaturalsInduction, TLAPS

\* Induction up to n, for a property given as the set of the numbers it holds for.
LEMMA UpTo ==
  ASSUME NEW n \in Nat, NEW T, 0 \in T, \A k \in 1..n : k - 1 \in T => k \in T
  PROVE  \A k \in 0..n : k \in T
<1> DEFINE Missing == {k \in 0..n : k \notin T}
           R == OpToRel(<, Nat)
<1>1. SUFFICES ASSUME Missing # {} PROVE FALSE
  OBVIOUS
<1>2. IsWellFoundedOn(R, Nat)
  BY NatLessThanWellFounded
<1>3. Missing \in SUBSET Nat
  OBVIOUS
<1> HIDE DEF R, Missing
<1>4. PICK k \in Missing : \A j \in Missing : ~ (<<j, k>> \in R)
  BY <1>1, <1>2, <1>3, WFMin
<1>5. k \in 0..n /\ k \notin T /\ \A j \in Missing : ~ (j < k)
  BY <1>3, <1>4 DEF R, OpToRel, Missing
<1>6. k \in 1..n /\ k - 1 \in 0..n
  BY <1>5
<1>7. k - 1 \notin T
  BY <1>5, <1>6
<1>8. k - 1 \in Missing
  BY <1>6, <1>7 DEF Missing
<1> QED
  BY <1>5, <1>6, <1>8

\* The elements of a sequence, by index, and what Append does to them.
LEMMA RangeFacts ==
  ASSUME NEW S, NEW s \in Seq(S)
  PROVE  /\ Len(s) \in Nat
         /\ \A i \in 1..Len(s) : s[i] \in S /\ s[i] \in Range(s)
         /\ \A x \in Range(s) : x \in S /\ \E i \in 1..Len(s) : s[i] = x
         /\ \A e \in S : /\ Append(s, e) \in Seq(S)
                         /\ Len(Append(s, e)) = Len(s) + 1
                         /\ Append(s, e)[Len(s) + 1] = e
                         /\ \A i \in 1..Len(s) : Append(s, e)[i] = s[i]
                         /\ Range(Append(s, e)) = Range(s) \cup {e}
<1>1. Len(s) \in Nat /\ DOMAIN s = 1..Len(s) /\ \A i \in 1..Len(s) : s[i] \in S
  BY LenProperties, ElementOfSeq
<1>2. /\ \A i \in 1..Len(s) : s[i] \in Range(s)
      /\ \A x \in Range(s) : x \in S /\ \E i \in 1..Len(s) : s[i] = x
  BY <1>1 DEF Range
<1>3. ASSUME NEW e \in S
      PROVE  /\ Append(s, e) \in Seq(S)
             /\ Len(Append(s, e)) = Len(s) + 1
             /\ Append(s, e)[Len(s) + 1] = e
             /\ \A i \in 1..Len(s) : Append(s, e)[i] = s[i]
  <2>1. Append(s, e) \in Seq(S) /\ Len(Append(s, e)) = Len(s) + 1
    BY AppendProperties
  <2>2. \A i \in 1..Len(s) : Append(s, e)[i] = s[i]
    BY <1>1, AppendProperties
  <2>3. Append(s, e)[Len(s) + 1] = e
    BY <1>1, AppendProperties
  <2> QED
    BY <2>1, <2>2, <2>3
<1>4. ASSUME NEW e \in S
      PROVE  Range(Append(s, e)) = Range(s) \cup {e}
  <2>1. DOMAIN Append(s, e) = 1..(Len(s) + 1)
    BY <1>3, LenProperties
  <2>2. \A i \in 1..(Len(s) + 1) : i \in 1..Len(s) \/ i = Len(s) + 1
    BY <1>1
  <2>3. Len(s) + 1 \in 1..(Len(s) + 1) /\ \A i \in 1..Len(s) : i \in 1..(Len(s) + 1)
    BY <1>1
  <2> QED
    BY <1>1, <1>3, <2>1, <2>2, <2>3 DEF Range
<1> QED
  BY <1>1, <1>2, <1>3, <1>4

\* A sequence without entries has no elements.
LEMMA EmptyRange ==
  ASSUME NEW S, NEW s \in Seq(S), Len(s) = 0
  PROVE  Range(s) = {}
<1>1. DOMAIN s = {}
  BY LenProperties
<1> QED
  BY <1>1 DEF Range
-----------------------------------------------------------------------------
(***************************************************************************)
(* Lists of proofs                                                         *)
(***************************************************************************)

\* No two entries are of one transaction.
Distinct(s) == \A i, j \in 1..Len(s) : s[i].tx = s[j].tx => i = j

\* Entries of distinct transactions are as many as their transactions.
LEMMA DistinctOncePerTx ==
  ASSUME NEW s \in Seq(Proofs), Distinct(s)
  PROVE  OncePerTx(s)
<1> DEFINE f == [i \in 1..Len(s) |-> s[i].tx]
<1>1. Len(s) \in Nat /\ DOMAIN s = 1..Len(s)
  BY LenProperties
<1>2. f \in [1..Len(s) -> TxsOf(s)]
  BY <1>1 DEF TxsOf, Range
<1>3. \A i, j \in 1..Len(s) : f[i] = f[j] => i = j
  BY DEF Distinct
<1>4. \A x \in TxsOf(s) : \E i \in 1..Len(s) : f[i] = x
  BY <1>1 DEF TxsOf, Range
<1> HIDE DEF f
<1>5. f \in Bijection(1..Len(s), TxsOf(s))
  BY <1>2, <1>3, <1>4, Fun_IsBij
<1>6. Cardinality(TxsOf(s)) = Len(s)
  BY <1>1, <1>5, FS_CountingElements DEF ExistsBijection
<1> QED
  BY <1>6 DEF OncePerTx

\* The transactions of the elements are the list's transactions.
LEMMA TxsFacts ==
  ASSUME NEW s \in Seq(Proofs)
  PROVE  /\ \A i \in 1..Len(s) : s[i].tx \in TxsOf(s)
         /\ \A p \in Range(s) : p.tx \in TxsOf(s)
         /\ \A x \in TxsOf(s) : \E p \in Range(s) : p.tx = x
BY RangeFacts DEF TxsOf

\* A proof of a transaction that is not in the list keeps it distinct.
LEMMA AppendDistinct ==
  ASSUME NEW s \in Seq(Proofs), Distinct(s), NEW p \in Proofs, p.tx \notin TxsOf(s)
  PROVE  Distinct(Append(s, p))
<1>1. Len(s) \in Nat /\ \A i \in 1..Len(s) : s[i].tx # p.tx
  BY RangeFacts, TxsFacts
<1>2. /\ Len(Append(s, p)) = Len(s) + 1 /\ Append(s, p)[Len(s) + 1] = p
      /\ \A i \in 1..Len(s) : Append(s, p)[i] = s[i]
  BY RangeFacts
<1>3. \A i \in 1..(Len(s) + 1) : i \in 1..Len(s) \/ i = Len(s) + 1
  BY <1>1
<1> QED
  BY <1>1, <1>2, <1>3 DEF Distinct

\* m holds the results of joining the first 0, 1, ... n proofs of list.
IsMerge(m, kept, list, n) ==
  m = [i \in 0..n |-> IF i = 0 THEN kept ELSE Joined(m[i - 1], list[i])]

LEMMA MergeExists ==
  ASSUME NEW kept, NEW list, NEW n \in Nat
  PROVE  \E m : IsMerge(m, kept, list, n)
<1> DEFINE T == {k \in Nat : \E m : IsMerge(m, kept, list, k)}
<1>1. 0 \in T
  <2>1. IsMerge([i \in 0..0 |-> kept], kept, list, 0)
    BY DEF IsMerge
  <2> QED
    BY <2>1
<1>2. ASSUME NEW k \in 1..n, k - 1 \in T PROVE k \in T
  <2>1. PICK m : IsMerge(m, kept, list, k - 1)
    BY <1>2
  <2> DEFINE h == [i \in 0..k |-> IF i = k THEN Joined(m[k - 1], list[k]) ELSE m[i]]
  <2>2. ASSUME NEW i \in 0..k
        PROVE  h[i] = IF i = 0 THEN kept ELSE Joined(h[i - 1], list[i])
    <3>1. CASE i = k
      <4>1. h[k] = Joined(m[k - 1], list[k]) /\ h[k - 1] = m[k - 1] /\ k # 0
        OBVIOUS
      <4> QED
        BY <3>1, <4>1
    <3>2. CASE i # k
      <4>1. i \in 0..(k - 1) /\ h[i] = m[i] /\ (i # 0 => h[i - 1] = m[i - 1])
        BY <3>2
      <4>2. m[i] = IF i = 0 THEN kept ELSE Joined(m[i - 1], list[i])
        BY <2>1, <4>1 DEF IsMerge
      <4> HIDE DEF h
      <4> QED
        BY <4>1, <4>2
    <3> QED
      BY <3>1, <3>2
  <2>3. h = [i \in 0..k |-> h[i]]
    OBVIOUS
  <2> HIDE DEF h
  <2>4. IsMerge(h, kept, list, k)
    BY <2>2, <2>3 DEF IsMerge
  <2> QED
    BY <2>4
<1> HIDE DEF T
<1>3. n \in T
  BY <1>1, <1>2, UpTo
<1> QED
  BY <1>3 DEF T

LEMMA MergedIsMerge ==
  ASSUME NEW kept, NEW list \in Seq(Proofs)
  PROVE  \E m : IsMerge(m, kept, list, Len(list)) /\ Merged(kept, list) = m[Len(list)]
<1> DEFINE body(m) == [i \in 0..Len(list) |->
                         IF i = 0 THEN kept ELSE Joined(m[i - 1], list[i])]
           r == CHOOSE m : m = body(m)
<1>1. Len(list) \in Nat
  BY LenProperties
<1>2. \E m : m = body(m)
  <2>1. PICK m : IsMerge(m, kept, list, Len(list))
    BY <1>1, MergeExists
  <2>2. m = body(m)
    BY <2>1 DEF IsMerge
  <2> QED
    BY <2>2
<1>3. r = body(r)
  BY <1>2
<1>4. Merged(kept, list) = r[Len(list)]
  BY DEF Merged
<1> HIDE DEF r
<1> QED
  BY <1>3, <1>4 DEF IsMerge

\* What one proof that joins does.
LEMMA JoinedProperties ==
  ASSUME NEW s \in Seq(Proofs), NEW p \in Proofs
  PROVE  /\ Joined(s, p) \in Seq(Proofs)
         /\ Distinct(s) => Distinct(Joined(s, p))
         /\ Range(s) \subseteq Range(Joined(s, p))
         /\ Range(Joined(s, p)) \subseteq Range(s) \cup {p}
         /\ p.tx \notin TxsOf(s) => p \in Range(Joined(s, p))
<1>1. CASE p.tx \in TxsOf(s)
  BY <1>1 DEF Joined
<1>2. CASE p.tx \notin TxsOf(s)
  <2>1. Joined(s, p) = Append(s, p)
    BY <1>2 DEF Joined
  <2>2. Append(s, p) \in Seq(Proofs) /\ Range(Append(s, p)) = Range(s) \cup {p}
    BY RangeFacts
  <2> QED
    BY <1>2, <2>1, <2>2, AppendDistinct
<1> QED
  BY <1>1, <1>2

\* The first k entries of a list, and what is to be said of their merge s.
First(list, k) == {list[i] : i \in 1..k}

Grown(s, kept, list, k) ==
  /\ s \in Seq(Proofs)
  /\ Distinct(kept) => Distinct(s)
  /\ Range(kept) \subseteq Range(s)
  /\ Range(s) \subseteq Range(kept) \cup First(list, k)
  /\ kept = <<>> /\ Distinct(list) => First(list, k) \subseteq Range(s)

LEMMA GrownStep ==
  ASSUME NEW kept \in Seq(Proofs), NEW list \in Seq(Proofs), NEW k \in 1..Len(list),
         NEW s, Grown(s, kept, list, k - 1)
  PROVE  Grown(Joined(s, list[k]), kept, list, k)
<1>1. list[k] \in Proofs /\ s \in Seq(Proofs)
  BY RangeFacts DEF Grown
<1>2. First(list, k) = First(list, k - 1) \cup {list[k]}
  <2>1. \A i \in 1..k : i \in 1..(k - 1) \/ i = k
    OBVIOUS
  <2>2. k \in 1..k /\ \A i \in 1..(k - 1) : i \in 1..k
    OBVIOUS
  <2> QED
    BY <2>1, <2>2 DEF First
<1>3. ASSUME kept = <<>>, Distinct(list) PROVE list[k].tx \notin TxsOf(s)
  <2>1. Range(kept) = {}
    <3>1. Len(kept) = 0
      BY <1>3, EmptySeq
    <3> QED
      BY <3>1, EmptyRange
  <2>2. \A p \in Range(s) : \E i \in 1..(k - 1) : p = list[i]
    BY <2>1 DEF Grown, First
  <2>3. \A i \in 1..(k - 1) : list[i].tx # list[k].tx
    <3>1. \A i \in 1..(k - 1) : i \in 1..Len(list) /\ i # k
      BY RangeFacts
    <3> QED
      BY <1>3, <3>1 DEF Distinct
  <2>4. \A x \in TxsOf(s) : \E p \in Range(s) : p.tx = x
    BY <1>1, TxsFacts
  <2> QED
    BY <2>2, <2>3, <2>4
<1>4. /\ Joined(s, list[k]) \in Seq(Proofs)
      /\ Distinct(s) => Distinct(Joined(s, list[k]))
      /\ Range(s) \subseteq Range(Joined(s, list[k]))
      /\ Range(Joined(s, list[k])) \subseteq Range(s) \cup {list[k]}
      /\ list[k].tx \notin TxsOf(s) => list[k] \in Range(Joined(s, list[k]))
  BY <1>1, JoinedProperties
<1> QED
  BY <1>2, <1>3, <1>4 DEF Grown

\* What a merge keeps, what it adds, and that a distinct list read back into an
\* empty one loses nothing.
LEMMA MergedProperties ==
  ASSUME NEW kept \in Seq(Proofs), NEW list \in Seq(Proofs)
  PROVE  /\ Merged(kept, list) \in Seq(Proofs)
         /\ Distinct(kept) => Distinct(Merged(kept, list))
         /\ Range(kept) \subseteq Range(Merged(kept, list))
         /\ Range(Merged(kept, list)) \subseteq Range(kept) \cup Range(list)
         /\ kept = <<>> /\ Distinct(list) => Range(list) \subseteq Range(Merged(kept, list))
<1> DEFINE n == Len(list)
<1>1. n \in Nat /\ First(list, n) = Range(list)
  BY RangeFacts DEF First
<1>2. PICK m : IsMerge(m, kept, list, n) /\ Merged(kept, list) = m[n]
  BY MergedIsMerge
<1>3. m[0] = kept /\ \A k \in 1..n : m[k] = Joined(m[k - 1], list[k])
  <2>1. \A i \in 0..n : m[i] = IF i = 0 THEN kept ELSE Joined(m[i - 1], list[i])
    BY <1>2 DEF IsMerge
  <2>2. 0 \in 0..n /\ \A k \in 1..n : k \in 0..n /\ k # 0
    BY <1>1
  <2> QED
    BY <2>1, <2>2
<1> DEFINE T == {k \in Nat : Grown(m[k], kept, list, k)}
<1>4. 0 \in T
  <2>1. First(list, 0) = {}
    BY DEF First
  <2>2. Grown(kept, kept, list, 0)
    BY <2>1 DEF Grown
  <2> QED
    BY <1>3, <2>2
<1>5. ASSUME NEW k \in 1..n, k - 1 \in T PROVE k \in T
  <2>1. Grown(m[k - 1], kept, list, k - 1)
    BY <1>5
  <2>2. Grown(m[k], kept, list, k)
    BY <1>3, <2>1, GrownStep
  <2> QED
    BY <1>1, <2>2
<1> HIDE DEF T
<1>6. n \in T
  <2> HIDE DEF n
  <2>1. \A k \in 0..n : k \in T
    BY <1>1, <1>4, <1>5, UpTo
  <2> QED
    BY <1>1, <2>1
<1>7. Grown(Merged(kept, list), kept, list, n)
  BY <1>2, <1>6 DEF T
<1> HIDE DEF n
<1>8. Range(Merged(kept, list)) \subseteq Range(kept) \cup Range(list)
  BY <1>1, <1>7 DEF Grown
<1>9. kept = <<>> /\ Distinct(list) => Range(list) \subseteq Range(Merged(kept, list))
  BY <1>1, <1>7 DEF Grown
<1>10. /\ Merged(kept, list) \in Seq(Proofs)
       /\ Distinct(kept) => Distinct(Merged(kept, list))
       /\ Range(kept) \subseteq Range(Merged(kept, list))
  BY <1>7 DEF Grown
<1> QED
  BY <1>8, <1>9, <1>10
-----------------------------------------------------------------------------
(***************************************************************************)
(* Types                                                                   *)
(***************************************************************************)

\* A handler that is under way has polls left.
PollsLeft == \A c \in Clicks : handlers[c].stage \in Live => handlers[c].attempt < PollMax

Types == TypeOK /\ PollsLeft

\* A handler that has been started has all its fields.
LEMMA StartedHandler ==
  ASSUME TypeOK, NEW c \in Clicks, handlers[c].stage # "unused"
  PROVE  /\ handlers[c] \in Handlers
         /\ handlers[c].tab \in Tabs /\ handlers[c].tx \in Txs
         /\ handlers[c].round \in 0..MaxRound /\ handlers[c].attempt \in 0..PollMax
<1>1. handlers[c] \in Handlers
  BY DEF TypeOK, Unused
<1> QED
  BY <1>1 DEF Handlers

\* A handler that moves on keeps the rest of its fields.
LEMMA EnterKeepsTypes ==
  ASSUME Types, NEW c \in Clicks, handlers[c].stage # "unused",
         NEW stage \in {"prepare", "request", "mined", "poll", "sleep", "done", "failed", "gone"},
         stage \in Live => handlers[c].attempt < PollMax,
         Enter(c, stage)
  PROVE  /\ handlers' \in [Clicks -> Handlers \cup {Unused}]
         /\ PollsLeft'
<1>1. handlers[c] \in Handlers
  BY StartedHandler DEF Types
<1>2. [handlers[c] EXCEPT !.stage = stage] \in Handlers
  BY <1>1 DEF Handlers
<1>3. handlers' = [handlers EXCEPT ![c] = [handlers[c] EXCEPT !.stage = stage]]
  BY DEF Enter
<1>4. handlers' \in [Clicks -> Handlers \cup {Unused}]
  BY <1>2, <1>3 DEF Types, TypeOK
<1>5. handlers'[c].stage = stage /\ handlers'[c].attempt = handlers[c].attempt
  BY <1>1, <1>3 DEF Handlers, Types, TypeOK
<1>6. \A d \in Clicks : d # c => handlers'[d] = handlers[d]
  BY <1>3 DEF Types, TypeOK
<1> QED
  BY <1>4, <1>5, <1>6 DEF Types, PollsLeft

\* What a save does, given that the list saved is one of proofs.
LEMMA SaveKeepsTypes ==
  ASSUME TypeOK, NEW t \in Tabs, NEW list \in Seq(Proofs), Save(t, list)
  PROVE  proofs' \in [Tabs -> Seq(Proofs)] /\ stored' \in Seq(Proofs)
BY DEF TypeOK, Save

\* A proof gained is a proof.
LEMMA GainedIsProof ==
  ASSUME TypeOK, NEW c \in Clicks, handlers[c].stage # "unused", NEW raw \in BOOLEAN
  PROVE  Gained(handlers[c], raw) \in Proofs
<1>1. handlers[c].tx \in Txs /\ handlers[c].round \in 0..MaxRound
  BY StartedHandler
<1> QED
  BY <1>1 DEF Gained, Proof, Proofs

LEMMA InitTypes == Init => Types
<1> SUFFICES ASSUME Init PROVE Types
  OBVIOUS
<1>1. <<>> \in Seq(Proofs)
  BY EmptySeq
<1>2. 0 \in 0..MaxRound /\ 0 \in 0..MaxReload
  BY AttestationAssumption
<1>3. TypeOK
  BY <1>1, <1>2 DEF Init, TypeOK
<1>4. PollsLeft
  BY DEF Init, PollsLeft, Unused, Live
<1> QED
  BY <1>3, <1>4 DEF Types

LEMMA NextTypes == Types /\ [Next]_vars => Types'
<1> SUFFICES ASSUME Types, [Next]_vars PROVE Types'
  OBVIOUS
<1> USE AttestationAssumption
<1>0. TypeOK /\ PollsLeft
  BY DEF Types
<1>1. ASSUME NEW c \in Clicks, NEW t \in Tabs, NEW tx \in Txs, Click(c, t, tx) PROVE Types'
  <2> DEFINE new == [stage |-> "prepare", tab |-> t, tx |-> tx, round |-> 0, attempt |-> 0]
  <2>1. new \in Handlers /\ handlers' = [handlers EXCEPT ![c] = new]
    BY <1>1 DEF Click, Handlers
  <2>2. TypeOK'
    BY <1>0, <1>1, <2>1 DEF Click, TypeOK, clientVars, fdcVars
  <2>3. PollsLeft'
    BY <1>0, <2>1 DEF TypeOK, PollsLeft, Live
  <2> QED
    BY <2>2, <2>3 DEF Types
<1>2. ASSUME NEW c \in Clicks, NEW stage \in Live \cup {"done", "failed"},
             handlers[c].stage \in Live, Enter(c, stage)
      PROVE  handlers' \in [Clicks -> Handlers \cup {Unused}] /\ PollsLeft'
  BY <1>0, <1>2, EnterKeepsTypes DEF Live, PollsLeft
<1>3. ASSUME NEW c \in Clicks,
             Prepared(c) \/ Requested(c) \/ RequestFails(c) \/ NotReady(c) \/ PollFails(c)
      PROVE  Types'
  <2>1. handlers' \in [Clicks -> Handlers \cup {Unused}] /\ PollsLeft'
    BY <1>2, <1>3 DEF Prepared, Requested, RequestFails, NotReady, PollFails, Live
  <2>2. UNCHANGED <<proofs, stored, backup, requested, proved, round, reloads>>
    BY <1>3 DEF Prepared, Requested, RequestFails, NotReady, PollFails, clientVars, fdcVars
  <2>3. pending' \in [Tabs -> SUBSET Clicks]
    <3>1. CASE Requested(c)
      <4>1. handlers[c].tab \in Tabs
        BY <1>0, <3>1, StartedHandler DEF Requested
      <4> QED
        BY <1>0, <3>1, <4>1 DEF Requested, TypeOK
    <3>2. CASE pending' = pending
      BY <1>0, <3>2 DEF TypeOK
    <3> QED
      BY <1>3, <3>1, <3>2 DEF Prepared, RequestFails, NotReady, PollFails, clientVars
  <2> QED
    BY <1>0, <2>1, <2>2, <2>3 DEF Types, TypeOK
<1>4. ASSUME NEW c \in Clicks, Mined(c) PROVE Types'
  <2> DEFINE new == [handlers[c] EXCEPT !.stage = "mined", !.round = round]
  <2>1. handlers[c] \in Handlers /\ handlers[c].tx \in Txs
    BY <1>0, <1>4, StartedHandler DEF Mined
  <2>2. new \in Handlers /\ new.attempt = handlers[c].attempt
        /\ handlers' = [handlers EXCEPT ![c] = new]
    BY <1>0, <1>4, <2>1 DEF Mined, Handlers, TypeOK
  <2> HIDE DEF new
  <2>3. handlers' \in [Clicks -> Handlers \cup {Unused}]
    BY <1>0, <2>2 DEF TypeOK
  <2>4. PollsLeft'
    BY <1>0, <1>4, <2>2 DEF TypeOK, PollsLeft, Live, Mined
  <2>5. requested' \subseteq Txs \X (0..MaxRound) /\ requested \subseteq requested'
    BY <1>0, <1>4, <2>1 DEF Mined, TypeOK
  <2> QED
    BY <1>0, <1>4, <2>3, <2>4, <2>5 DEF Mined, Types, TypeOK, clientVars
<1>5. ASSUME NEW c \in Clicks, Ready(c) PROVE Types'
  <2>1. handlers' \in [Clicks -> Handlers \cup {Unused}] /\ PollsLeft'
    BY <1>2, <1>5 DEF Ready, Live
  <2>2. handlers[c].tab \in Tabs
    BY <1>0, <1>5, StartedHandler DEF Ready
  <2>3. proofs' \in [Tabs -> Seq(Proofs)] /\ stored' \in Seq(Proofs)
    <3>1. CASE UNCHANGED <<proofs, stored>>
      BY <1>0, <3>1 DEF TypeOK
    <3>2. ASSUME NEW raw \in BOOLEAN,
                 Save(handlers[c].tab, Append(proofs[handlers[c].tab], Gained(handlers[c], raw)))
          PROVE  proofs' \in [Tabs -> Seq(Proofs)] /\ stored' \in Seq(Proofs)
      <4>1. proofs[handlers[c].tab] \in Seq(Proofs) /\ Gained(handlers[c], raw) \in Proofs
        BY <1>0, <1>5, <2>2, GainedIsProof DEF Ready, TypeOK
      <4>2. Append(proofs[handlers[c].tab], Gained(handlers[c], raw)) \in Seq(Proofs)
        BY <4>1, RangeFacts
      <4> QED
        BY <1>0, <2>2, <3>2, <4>2, SaveKeepsTypes
    <3> QED
      BY <1>5, <3>1, <3>2 DEF Ready
  <2>4. pending' \in [Tabs -> SUBSET Clicks]
    BY <1>0, <1>5, <2>2 DEF Ready, TypeOK, WithoutItem
  <2> QED
    BY <1>0, <1>5, <2>1, <2>3, <2>4 DEF Ready, Types, TypeOK, fdcVars
<1>6. ASSUME NEW c \in Clicks, Wake(c) PROVE Types'
  <2> DEFINE h == handlers[c]
             next == IF Over(h) THEN "done" ELSE "poll"
             new == [h EXCEPT !.attempt = Attempts(h), !.stage = next]
  <2>1. h \in Handlers /\ h.tab \in Tabs /\ h.attempt \in 0..PollMax /\ h.attempt < PollMax
    BY <1>0, <1>6, StartedHandler DEF Wake, PollsLeft, Live
  <2>2. Attempts(h) \in 0..PollMax /\ (~Over(h) => Attempts(h) < PollMax)
    BY <2>1 DEF Attempts, Over
  <2>3. handlers' = [handlers EXCEPT ![c] = new]
    BY <1>0, <1>6 DEF Wake, TypeOK
  <2>4. /\ new \in Handlers /\ new.stage = next /\ new.attempt = Attempts(h)
    BY <2>1, <2>2 DEF Handlers
  <2> HIDE DEF new
  <2>5. handlers' \in [Clicks -> Handlers \cup {Unused}]
    BY <1>0, <2>3, <2>4 DEF TypeOK
  <2>6. PollsLeft'
    BY <1>0, <2>2, <2>3, <2>4 DEF TypeOK, PollsLeft, Live
  <2>7. pending' \in [Tabs -> SUBSET Clicks]
    BY <1>0, <1>6, <2>1 DEF Wake, TypeOK, WithoutItem
  <2> QED
    BY <1>0, <1>6, <2>5, <2>6, <2>7 DEF Wake, Types, TypeOK, fdcVars
<1>7. ASSUME NEW t \in Tabs, Reload(t) PROVE Types'
  <2>1. Merged(<<>>, stored) \in Seq(Proofs)
    BY <1>0, EmptySeq, MergedProperties DEF TypeOK
  <2>2. \A c \in Clicks : handlers[c].stage \in Live
          => [handlers[c] EXCEPT !.stage = "gone"] \in Handlers
    <3> SUFFICES ASSUME NEW c \in Clicks, handlers[c].stage \in Live
                 PROVE  [handlers[c] EXCEPT !.stage = "gone"] \in Handlers
      OBVIOUS
    <3>1. handlers[c] \in Handlers
      BY <1>0, StartedHandler DEF Live
    <3> QED
      BY <3>1 DEF Handlers
  <2>3. handlers' \in [Clicks -> Handlers \cup {Unused}]
    BY <1>0, <1>7, <2>2 DEF Reload, TypeOK
  <2>4. PollsLeft'
    <3> SUFFICES ASSUME NEW c \in Clicks, handlers'[c].stage \in Live
                 PROVE  handlers'[c].attempt < PollMax
      BY DEF PollsLeft
    <3>1. CASE handlers[c].stage \in Live /\ handlers[c].tab = t
      <4>1. handlers'[c] = [handlers[c] EXCEPT !.stage = "gone"] /\ handlers[c] \in Handlers
        BY <1>0, <1>7, <3>1, StartedHandler DEF Reload, Live
      <4>2. handlers'[c].stage = "gone"
        BY <4>1 DEF Handlers
      <4> QED
        BY <4>2 DEF Live
    <3>2. CASE ~(handlers[c].stage \in Live /\ handlers[c].tab = t)
      BY <1>0, <1>7, <3>2 DEF Reload, PollsLeft
    <3> QED
      BY <3>1, <3>2
  <2>5. reloads' \in 0..MaxReload
    BY <1>0, <1>7 DEF Reload, TypeOK
  <2>6. /\ proofs' \in [Tabs -> Seq(Proofs)] /\ stored' \in Seq(Proofs)
        /\ pending' \in [Tabs -> SUBSET Clicks]
    BY <1>0, <1>7, <2>1 DEF Reload, TypeOK
  <2> QED
    BY <1>0, <1>7, <2>3, <2>4, <2>5, <2>6 DEF Reload, Types, TypeOK, fdcVars
<1>8. ASSUME NEW t \in Tabs, Export(t) PROVE Types'
  BY <1>0, <1>8 DEF Export, Types, TypeOK, PollsLeft, fdcVars
<1>9. ASSUME NEW t \in Tabs, Import(t) PROVE Types'
  <2>1. Merged(proofs[t], backup) \in Seq(Proofs)
    <3>1. proofs[t] \in Seq(Proofs) /\ backup \in Seq(Proofs)
      BY <1>0 DEF TypeOK
    <3> QED
      BY <3>1, MergedProperties
  <2>2. proofs' \in [Tabs -> Seq(Proofs)] /\ stored' \in Seq(Proofs)
    BY <1>0, <1>9, <2>1, SaveKeepsTypes DEF Import
  <2> QED
    BY <1>0, <1>9, <2>2 DEF Import, Types, TypeOK, PollsLeft, fdcVars
<1>10. CASE NextRound
  BY <1>0, <1>10 DEF NextRound, Types, TypeOK, PollsLeft, clientVars
<1>11. ASSUME NEW q \in requested, Finalise(q) PROVE Types'
  BY <1>0, <1>11 DEF Finalise, Types, TypeOK, PollsLeft, clientVars
<1>12. CASE UNCHANGED vars
  BY <1>0, <1>12 DEF vars, Types, TypeOK, PollsLeft
<1> QED
  BY <1>1, <1>3, <1>4, <1>5, <1>6, <1>7, <1>8, <1>9, <1>10, <1>11, <1>12 DEF Next, Answer

\* The page's and the FDC's state has its types, however many the tabs are; and
\* no poller polls more than POLL_MAX times.
THEOREM TypeCorrect == Spec => [](TypeOK /\ PollsLeft)
<1> QED
  BY InitTypes, NextTypes, PTL DEF Spec, Types
-----------------------------------------------------------------------------
(***************************************************************************)
(* What every list of proofs is made of                                    *)
(***************************************************************************)

Served(s, known) == \A p \in Range(s) : <<p.tx, p.round>> \in known

Sound(s, known) == Distinct(s) /\ Served(s, known)

Collected ==
  /\ \A t \in Tabs : Sound(proofs[t], proved)
  /\ Sound(stored, proved) /\ Sound(backup, proved)

IInv == Types /\ Collected

\* The proofs served once are served for ever.
LEMMA ProvedStays == [Next]_vars => proved \subseteq proved'
<1> SUFFICES ASSUME [Next]_vars PROVE proved \subseteq proved'
  OBVIOUS
<1>1. ASSUME NEW c \in Clicks, Answer(c) PROVE proved' = proved
  BY <1>1 DEF Answer, Prepared, Mined, Requested, RequestFails, NotReady, Ready, PollFails,
              fdcVars
<1> QED
  BY <1>1 DEF Next, Click, Wake, Reload, Export, Import, NextRound, Finalise, vars, fdcVars

LEMMA SoundStays ==
  ASSUME NEW s, NEW known, NEW more, known \subseteq more, Sound(s, known)
  PROVE  Sound(s, more)
BY DEF Sound, Served

\* A step that touches no list leaves each as it should be.
LEMMA CollectedStays ==
  ASSUME IInv, proved \subseteq proved', UNCHANGED <<proofs, stored, backup>>
  PROVE  Collected'
BY SoundStays DEF IInv, Collected

\* A step that saves a sound list, or reads one back, leaves all lists sound.
LEMMA SaveKeepsCollected ==
  ASSUME IInv, proved \subseteq proved', backup' = backup,
         NEW t \in Tabs, NEW list, Sound(list, proved),
         proofs' = [proofs EXCEPT ![t] = list], stored' \in {stored, list}
  PROVE  Collected'
<1>1. ASSUME NEW u \in Tabs PROVE Sound(proofs'[u], proved')
  <2>1. proofs'[u] = IF u = t THEN list ELSE proofs[u]
    BY DEF IInv, Types, TypeOK
  <2> QED
    BY <2>1, SoundStays DEF IInv, Collected
<1>2. Sound(stored', proved') /\ Sound(backup', proved')
  BY SoundStays DEF IInv, Collected
<1> QED
  BY <1>1, <1>2 DEF Collected

\* The proof gained is of a transaction that the list lacks, and was served.
LEMMA ReadyIsSound ==
  ASSUME IInv, NEW c \in Clicks, Ready(c), NEW raw \in BOOLEAN,
         ~Held(handlers[c])
  PROVE  /\ Append(proofs[handlers[c].tab], Gained(handlers[c], raw)) \in Seq(Proofs)
         /\ Sound(Append(proofs[handlers[c].tab], Gained(handlers[c], raw)), proved)
<1> DEFINE h == handlers[c]
           s == proofs[h.tab]
           p == Gained(h, raw)
<1>1. h.tab \in Tabs /\ p \in Proofs
  BY StartedHandler, GainedIsProof DEF IInv, Types, Ready
<1>2. s \in Seq(Proofs) /\ Sound(s, proved)
  BY <1>1 DEF IInv, Types, TypeOK, Collected
<1>3. p.tx = h.tx /\ p.round = h.round
  BY DEF Gained, Proof
<1>4. p.tx \notin TxsOf(s) /\ <<p.tx, p.round>> \in proved
  BY <1>3 DEF Held, Ready
<1> HIDE DEF s, p
<1>5. Append(s, p) \in Seq(Proofs) /\ Range(Append(s, p)) = Range(s) \cup {p}
  BY <1>1, <1>2, RangeFacts
<1>6. Distinct(Append(s, p))
  BY <1>1, <1>2, <1>4, AppendDistinct DEF Sound
<1>7. Served(Append(s, p), proved)
  BY <1>2, <1>4, <1>5 DEF Sound, Served
<1> QED
  BY <1>5, <1>6, <1>7 DEF Sound, s, p

\* Two sound lists merge into a sound one.
LEMMA MergedIsSound ==
  ASSUME NEW kept \in Seq(Proofs), NEW list \in Seq(Proofs), NEW known,
         Sound(kept, known), Served(list, known)
  PROVE  Sound(Merged(kept, list), known)
<1>1. /\ Distinct(kept) => Distinct(Merged(kept, list))
      /\ Range(Merged(kept, list)) \subseteq Range(kept) \cup Range(list)
  BY MergedProperties
<1> QED
  BY <1>1 DEF Sound, Served

\* The empty list is sound.
LEMMA EmptyIsSound ==
  ASSUME NEW known
  PROVE  <<>> \in Seq(Proofs) /\ Range(<<>>) = {} /\ Sound(<<>>, known)
<1>1. <<>> \in Seq(Proofs) /\ Len(<<>>) = 0
  BY EmptySeq
<1>2. Range(<<>>) = {}
  BY <1>1, EmptyRange
<1> QED
  BY <1>1, <1>2 DEF Sound, Served, Distinct

LEMMA InitIInv == Init => IInv
<1> SUFFICES ASSUME Init PROVE IInv
  OBVIOUS
<1>1. Types
  BY InitTypes
<1>2. Collected
  BY EmptyIsSound DEF Init, Collected
<1> QED
  BY <1>1, <1>2 DEF IInv

LEMMA NextIInv == IInv /\ [Next]_vars => IInv'
<1> SUFFICES ASSUME IInv, [Next]_vars PROVE IInv'
  OBVIOUS
<1>1. Types' /\ proved \subseteq proved'
  BY NextTypes, ProvedStays DEF IInv
<1>2. SUFFICES Collected'
  BY <1>1 DEF IInv
<1>3. CASE UNCHANGED <<proofs, stored, backup>>
  BY <1>1, <1>3, CollectedStays
<1>4. ASSUME NEW c \in Clicks, Ready(c) PROVE Collected'
  <2>1. CASE Held(handlers[c])
    BY <1>3, <1>4, <2>1 DEF Ready
  <2>2. CASE ~Held(handlers[c])
    <3>1. PICK raw \in BOOLEAN :
            Save(handlers[c].tab, Append(proofs[handlers[c].tab], Gained(handlers[c], raw)))
      BY <1>4, <2>2 DEF Ready
    <3>2. Sound(Append(proofs[handlers[c].tab], Gained(handlers[c], raw)), proved)
      BY <1>4, <2>2, ReadyIsSound
    <3>3. handlers[c].tab \in Tabs /\ backup' = backup
      BY <1>4, StartedHandler DEF IInv, Types, Ready
    <3> QED
      BY <1>1, <3>1, <3>2, <3>3, SaveKeepsCollected DEF Save
  <2> QED
    BY <2>1, <2>2
<1>5. ASSUME NEW t \in Tabs, Reload(t) PROVE Collected'
  <2>1. Sound(Merged(<<>>, stored), proved)
    <3>1. stored \in Seq(Proofs) /\ Served(stored, proved)
      BY DEF IInv, Types, TypeOK, Collected, Sound
    <3> QED
      BY <3>1, EmptyIsSound, MergedIsSound
  <2> QED
    BY <1>1, <1>5, <2>1, SaveKeepsCollected DEF Reload
<1>6. ASSUME NEW t \in Tabs, Import(t) PROVE Collected'
  <2>1. Sound(Merged(proofs[t], backup), proved)
    <3>1. /\ proofs[t] \in Seq(Proofs) /\ Sound(proofs[t], proved)
          /\ backup \in Seq(Proofs) /\ Served(backup, proved)
      BY DEF IInv, Types, TypeOK, Collected, Sound
    <3> QED
      BY <3>1, MergedIsSound
  <2> QED
    BY <1>1, <1>6, <2>1, SaveKeepsCollected DEF Import, Save
<1>7. ASSUME NEW t \in Tabs, Export(t) PROVE Collected'
  BY <1>1, <1>7, SoundStays DEF Export, IInv, Collected, fdcVars
<1>8. ASSUME NEW c \in Clicks, Answer(c) \/ Wake(c) PROVE Collected'
  BY <1>3, <1>4, <1>8 DEF Answer, Prepared, Mined, Requested, RequestFails, NotReady,
                         PollFails, Wake, clientVars
<1>9. CASE NextRound \/ UNCHANGED vars \/ \E q \in requested : Finalise(q)
  BY <1>3, <1>9 DEF NextRound, Finalise, vars, clientVars
<1>10. ASSUME NEW c \in Clicks, NEW t \in Tabs, NEW tx \in Txs, Click(c, t, tx)
       PROVE  Collected'
  BY <1>3, <1>10 DEF Click, clientVars
<1> QED
  BY <1>5, <1>6, <1>7, <1>8, <1>9, <1>10 DEF Next

LEMMA Always == Spec => []IInv
<1> QED
  BY InitIInv, NextIInv, PTL DEF Spec

\* NoDuplicateProofs: no list of proofs has two of one transaction, whatever
\* clicks, pollers, backups and tabs bring one in (pollProof, onConnected and
\* importBackup in app.js look for it each in its own way).
THEOREM ProofsAreDistinct == Spec => []NoDuplicateProofs
<1>1. IInv => NoDuplicateProofs
  <2> SUFFICES ASSUME IInv PROVE NoDuplicateProofs
    OBVIOUS
  <2>1. /\ \A t \in Tabs : proofs[t] \in Seq(Proofs) /\ Distinct(proofs[t])
        /\ stored \in Seq(Proofs) /\ Distinct(stored)
        /\ backup \in Seq(Proofs) /\ Distinct(backup)
    BY DEF IInv, Types, TypeOK, Collected, Sound
  <2> QED
    BY <2>1, DistinctOncePerTx DEF NoDuplicateProofs
<1> QED
  BY <1>1, Always, PTL

\* ProofsWereRequested: every proof a tab or localStorage holds is one that the
\* DA layer served, for the round in which its transaction was requested.
THEOREM ProofsWereServed == Spec => []ProofsWereRequested
<1>1. IInv => ProofsWereRequested
  BY DEF IInv, Collected, Sound, Served, ProofsWereRequested
<1> QED
  BY <1>1, Always, PTL
-----------------------------------------------------------------------------
(***************************************************************************)
(* One tab                                                                 *)
(*                                                                         *)
(* What localStorage holds, the only tab holds too: then a save writes all *)
(* of it again. With a second tab this is lost, and so are its proofs.     *)
(***************************************************************************)

StoredIsHeld == \A t \in Tabs : Range(stored) \subseteq Range(proofs[t])

\* A save by the only tab of a list that has all its proofs.
LEMMA SaveKeepsStored ==
  ASSUME IInv, StoredIsHeld, NEW t, Tabs = {t},
         NEW list, Range(proofs[t]) \subseteq Range(list), Save(t, list)
  PROVE  Range(stored) \subseteq Range(stored') /\ StoredIsHeld'
<1>1. Range(stored) \subseteq Range(proofs[t])
  BY DEF StoredIsHeld
<1>2. proofs'[t] = list /\ stored' \in {stored, list}
  BY DEF Save, IInv, Types, TypeOK
<1> QED
  BY <1>1, <1>2 DEF StoredIsHeld

LEMMA StoredStays ==
  ASSUME NEW t, Tabs = {t}
  PROVE  IInv /\ StoredIsHeld /\ [Next]_vars
           => Range(stored) \subseteq Range(stored') /\ StoredIsHeld'
<1> SUFFICES ASSUME IInv, StoredIsHeld, [Next]_vars
             PROVE  Range(stored) \subseteq Range(stored') /\ StoredIsHeld'
  OBVIOUS
<1> DEFINE Goal == Range(stored) \subseteq Range(stored') /\ StoredIsHeld'
<1>0. t \in Tabs /\ proofs[t] \in Seq(Proofs) /\ stored \in Seq(Proofs) /\ backup \in Seq(Proofs)
  BY DEF IInv, Types, TypeOK
<1>1. CASE UNCHANGED <<proofs, stored>>
  BY <1>1 DEF StoredIsHeld
<1>2. ASSUME NEW c \in Clicks, Ready(c) PROVE Goal
  <2>1. CASE Held(handlers[c])
    BY <1>1, <1>2, <2>1 DEF Ready
  <2>2. CASE ~Held(handlers[c])
    <3>1. PICK raw \in BOOLEAN :
            Save(handlers[c].tab, Append(proofs[handlers[c].tab], Gained(handlers[c], raw)))
      BY <1>2, <2>2 DEF Ready
    <3>2. handlers[c].tab = t /\ Gained(handlers[c], raw) \in Proofs
      BY <1>2, StartedHandler, GainedIsProof DEF IInv, Types, Ready
    <3>3. Range(proofs[t]) \subseteq Range(Append(proofs[t], Gained(handlers[c], raw)))
      BY <1>0, <3>2, RangeFacts
    <3> QED
      BY <3>1, <3>2, <3>3, SaveKeepsStored
  <2> QED
    BY <2>1, <2>2
<1>3. CASE Reload(t)
  <2>1. Range(stored) \subseteq Range(Merged(<<>>, stored))
    <3>1. Distinct(stored)
      BY DEF IInv, Collected, Sound
    <3> QED
      BY <1>0, <3>1, EmptySeq, MergedProperties
  <2>2. stored' = Merged(<<>>, stored) /\ proofs'[t] = Merged(<<>>, stored)
    BY <1>0, <1>3 DEF Reload, IInv, Types, TypeOK
  <2> QED
    BY <2>1, <2>2 DEF StoredIsHeld
<1>4. CASE Import(t)
  <2>1. Range(proofs[t]) \subseteq Range(Merged(proofs[t], backup))
    BY <1>0, MergedProperties
  <2> QED
    BY <1>4, <2>1, SaveKeepsStored DEF Import
<1>5. CASE Export(t)
  BY <1>1, <1>5 DEF Export
<1>6. ASSUME NEW c \in Clicks, Answer(c) \/ Wake(c) PROVE Goal
  BY <1>1, <1>2, <1>6 DEF Answer, Prepared, Mined, Requested, RequestFails, NotReady,
                         PollFails, Wake, clientVars
<1>7. CASE NextRound \/ UNCHANGED vars \/ \E q \in requested : Finalise(q)
  BY <1>1, <1>7 DEF NextRound, Finalise, vars, clientVars
<1>8. ASSUME NEW c \in Clicks, NEW u \in Tabs, NEW tx \in Txs, Click(c, u, tx) PROVE Goal
  BY <1>1, <1>8 DEF Click, clientVars
<1> QED
  BY <1>3, <1>4, <1>5, <1>6, <1>7, <1>8 DEF Next

\* ProofsAreKept: in a browser with one tab, a proof that has once reached
\* localStorage stays there and stays what it is.
THEOREM OneTabKeepsProofs ==
  ASSUME NEW t, Tabs = {t}
  PROVE  Spec => ProofsAreKept
<1>1. Init => StoredIsHeld
  BY DEF Init, StoredIsHeld
<1>2. IInv /\ StoredIsHeld /\ [Next]_vars => StoredIsHeld'
  BY StoredStays
<1>3. Spec => [](IInv /\ StoredIsHeld)
  BY <1>1, <1>2, InitIInv, NextIInv, PTL DEF Spec
<1>4. IInv /\ StoredIsHeld /\ [Next]_vars => Range(stored) \subseteq Range(stored')
  BY StoredStays
<1>5. Spec => [][Range(stored) \subseteq Range(stored')]_vars
  BY <1>3, <1>4, PTL DEF Spec
<1> QED
  BY <1>5 DEF ProofsAreKept
-----------------------------------------------------------------------------
(***************************************************************************)
(* The end of every handler: a pending item has its poller, and a handler  *)
(* has ever less to do                                                     *)
(***************************************************************************)

\* An item is pending in the tab of its handler, which polls for it, or has
\* ended in the catch that leaves it pending.
PendingHasPoller ==
  \A c \in Clicks : \A t \in Tabs : c \in pending[t] =>
    handlers[c].tab = t /\ handlers[c].stage \in Polling \cup {"failed"}

\* The awaits a handler has before it at most.
StepsLeft(h) ==
  LET polls == 2 * (PollMax - h.attempt) IN
  CASE h.stage = "prepare" -> polls + 3
    [] h.stage = "request" -> polls + 2
    [] h.stage = "mined"   -> polls + 1
    [] h.stage = "poll"    -> polls
    [] h.stage = "sleep"   -> polls - 1
    [] OTHER               -> 0

\* How the handler of a click goes on from a stage to the next, with the number
\* of its polls. The rest of it stays, and so do the other handlers.
Moves(c, from, to, attempt) ==
  /\ handlers[c].stage = from /\ handlers'[c].stage = to
  /\ handlers'[c].attempt = attempt
  /\ handlers'[c].tab = handlers[c].tab
  /\ \A d \in Clicks : d # c => handlers'[d] = handlers[d]

LEMMA EnterMoves ==
  ASSUME TypeOK, NEW c \in Clicks, handlers[c].stage # "unused", NEW stage, Enter(c, stage)
  PROVE  Moves(c, handlers[c].stage, stage, handlers[c].attempt)
<1>1. handlers[c] \in Handlers
  BY StartedHandler
<1>2. /\ handlers'[c] = [handlers[c] EXCEPT !.stage = stage]
      /\ \A d \in Clicks : d # c => handlers'[d] = handlers[d]
  BY DEF Enter, TypeOK
<1> QED
  BY <1>1, <1>2 DEF Moves, Handlers

LEMMA MinedMoves ==
  ASSUME TypeOK, NEW c \in Clicks, Mined(c)
  PROVE  Moves(c, "request", "mined", handlers[c].attempt)
<1>1. handlers[c] \in Handlers /\ handlers[c].stage = "request"
  BY StartedHandler DEF Mined
<1>2. /\ handlers'[c] = [handlers[c] EXCEPT !.stage = "mined", !.round = round]
      /\ \A d \in Clicks : d # c => handlers'[d] = handlers[d]
  BY DEF Mined, TypeOK
<1> QED
  BY <1>1, <1>2 DEF Moves, Handlers

LEMMA WakeMoves ==
  ASSUME TypeOK, NEW c \in Clicks, Wake(c)
  PROVE  Moves(c, "sleep", IF Over(handlers[c]) THEN "done" ELSE "poll",
               handlers[c].attempt + 1)
<1>1. handlers[c] \in Handlers /\ handlers[c].stage = "sleep"
  BY StartedHandler DEF Wake
<1>2. /\ handlers'[c] = [handlers[c] EXCEPT
             !.attempt = Attempts(handlers[c]),
             !.stage = IF Over(handlers[c]) THEN "done" ELSE "poll"]
      /\ \A d \in Clicks : d # c => handlers'[d] = handlers[d]
  BY DEF Wake, TypeOK
<1> QED
  BY <1>1, <1>2 DEF Moves, Handlers, Attempts

\* Each step of a handler, by its stages.
LEMMA AnswerMoves ==
  ASSUME TypeOK, NEW c \in Clicks, Answer(c)
  PROVE  LET a == handlers[c].attempt IN
         \/ Moves(c, "prepare", "request", a) /\ pending' = pending
         \/ Moves(c, "request", "mined", a) /\ pending' = pending
         \/ /\ Moves(c, "mined", "poll", a)
            /\ pending' = [pending EXCEPT ![handlers[c].tab] = @ \cup {c}]
         \/ /\ \E from \in {"prepare", "request", "mined", "poll"} : Moves(c, from, "failed", a)
            /\ pending' = pending
         \/ Moves(c, "poll", "sleep", a) /\ pending' = pending
         \/ /\ Moves(c, "poll", "done", a)
            /\ pending' = [pending EXCEPT ![handlers[c].tab] = @ \ {c}]
<1> DEFINE a == handlers[c].attempt
<1>1. CASE Prepared(c)
  <2>1. Moves(c, "prepare", "request", a)
    BY <1>1, EnterMoves DEF Prepared
  <2> QED
    BY <1>1, <2>1 DEF Prepared, clientVars
<1>2. CASE Mined(c)
  BY <1>2, MinedMoves DEF Mined, clientVars
<1>3. CASE Requested(c)
  <2>1. Moves(c, "mined", "poll", a)
    BY <1>3, EnterMoves DEF Requested
  <2> QED
    BY <1>3, <2>1 DEF Requested
<1>4. CASE RequestFails(c) \/ PollFails(c)
  <2>1. /\ handlers[c].stage \in {"prepare", "request", "mined", "poll"}
        /\ Enter(c, "failed") /\ pending' = pending
    BY <1>4 DEF RequestFails, PollFails, clientVars
  <2>2. Moves(c, handlers[c].stage, "failed", a)
    BY <2>1, EnterMoves
  <2> QED
    BY <2>1, <2>2
<1>5. CASE NotReady(c)
  <2>1. Moves(c, "poll", "sleep", a)
    BY <1>5, EnterMoves DEF NotReady
  <2> QED
    BY <1>5, <2>1 DEF NotReady, clientVars
<1>6. CASE Ready(c)
  <2>1. Moves(c, "poll", "done", a)
    BY <1>6, EnterMoves DEF Ready
  <2>2. pending' = [pending EXCEPT ![handlers[c].tab] = @ \ {c}]
    BY <1>6 DEF Ready, WithoutItem
  <2> QED
    BY <2>1, <2>2
<1> QED
  BY <1>1, <1>2, <1>3, <1>4, <1>5, <1>6 DEF Answer

LEMMA NextPendingHasPoller ==
  ASSUME TypeOK, PendingHasPoller, [Next]_vars
  PROVE  PendingHasPoller'
<1>0. pending \in [Tabs -> SUBSET Clicks]
  BY DEF TypeOK
<1>1. ASSUME NEW c \in Clicks, NEW to, NEW n, pending' = pending,
             \/ \E from \in {"prepare", "request", "mined"} : Moves(c, from, to, n)
             \/ to \in {"sleep", "failed", "poll"} /\ \E from \in Polling : Moves(c, from, to, n)
      PROVE  PendingHasPoller'
  BY <1>1 DEF PendingHasPoller, Moves, Polling
<1>2. ASSUME NEW c \in Clicks, NEW n, NEW from \in Polling, Moves(c, from, "done", n),
             pending' = [pending EXCEPT ![handlers[c].tab] = @ \ {c}]
      PROVE  PendingHasPoller'
  <2>1. \A t \in Tabs : pending'[t] \subseteq pending[t]
                        /\ (handlers[c].tab = t => c \notin pending'[t])
    BY <1>0, <1>2
  <2>2. \A t \in Tabs : c \notin pending'[t]
    BY <2>1 DEF PendingHasPoller
  <2> QED
    BY <1>2, <2>1, <2>2 DEF PendingHasPoller, Moves
<1>3. ASSUME NEW c \in Clicks, NEW n, Moves(c, "mined", "poll", n),
             pending' = [pending EXCEPT ![handlers[c].tab] = @ \cup {c}]
      PROVE  PendingHasPoller'
  <2>1. \A t \in Tabs : /\ pending'[t] \subseteq pending[t] \cup {c}
                        /\ c \in pending'[t] => c \in pending[t] \/ handlers[c].tab = t
    BY <1>0, <1>3
  <2>2. \A t \in Tabs : c \notin pending[t]
    BY <1>3 DEF PendingHasPoller, Moves, Polling
  <2> QED
    BY <1>3, <2>1, <2>2 DEF PendingHasPoller, Moves, Polling
<1>4. ASSUME NEW c \in Clicks, Answer(c) PROVE PendingHasPoller'
  BY <1>1, <1>2, <1>3, <1>4, AnswerMoves DEF Polling
<1>5. ASSUME NEW c \in Clicks, Wake(c) PROVE PendingHasPoller'
  <2>1. CASE Over(handlers[c])
    <3>1. /\ Moves(c, "sleep", "done", handlers[c].attempt + 1)
          /\ pending' = [pending EXCEPT ![handlers[c].tab] = @ \ {c}]
      BY <1>5, <2>1, WakeMoves DEF Wake, WithoutItem
    <3> QED
      BY <1>2, <3>1 DEF Polling
  <2>2. CASE ~Over(handlers[c])
    <3>1. Moves(c, "sleep", "poll", handlers[c].attempt + 1) /\ pending' = pending
      BY <1>5, <2>2, WakeMoves DEF Wake
    <3> QED
      BY <1>1, <3>1 DEF Polling
  <2> QED
    BY <2>1, <2>2
<1>6. ASSUME NEW c \in Clicks, NEW t \in Tabs, NEW tx \in Txs, Click(c, t, tx)
      PROVE  PendingHasPoller'
  <2>1. \A u \in Tabs : c \notin pending[u]
    BY <1>6 DEF Click, PendingHasPoller, Unused, Polling
  <2>2. pending' = pending /\ \A d \in Clicks : d # c => handlers'[d] = handlers[d]
    BY <1>6 DEF Click, TypeOK, clientVars
  <2> QED
    BY <2>1, <2>2 DEF PendingHasPoller
<1>7. ASSUME NEW u \in Tabs, Reload(u) PROVE PendingHasPoller'
  <2>1. pending'[u] = {} /\ \A t \in Tabs : t # u => pending'[t] = pending[t]
    BY <1>0, <1>7 DEF Reload
  <2>2. \A c \in Clicks : handlers[c].tab # u => handlers'[c] = handlers[c]
    BY <1>7 DEF Reload
  <2> QED
    BY <2>1, <2>2 DEF PendingHasPoller
<1>8. CASE UNCHANGED <<handlers, pending>>
  BY <1>8 DEF PendingHasPoller
<1> QED
  BY <1>4, <1>5, <1>6, <1>7, <1>8
     DEF Next, Export, Import, NextRound, Finalise, clientVars, vars

\* The safety core of PendingSettlesOrFailed: an item that is pending in a tab
\* (S.pending in app.js) has a poller there that is to poll again, or one that
\* a failed poll has ended; no poller that found its proof, gave up or was lost
\* with its page leaves its item behind, and none removes another tab's.
THEOREM PendingHavePollers == Spec => []PendingHasPoller
<1>1. Init => PendingHasPoller
  BY DEF Init, PendingHasPoller
<1>2. TypeOK /\ PendingHasPoller /\ [Next]_vars => PendingHasPoller'
  BY NextPendingHasPoller
<1> QED
  BY <1>1, <1>2, TypeCorrect, PTL DEF Spec

\* A handler that is under way and has a poll left has a step before it.
LEMMA StepsAreNat ==
  ASSUME Types, NEW c \in Clicks, handlers[c] # Unused
  PROVE  /\ StepsLeft(handlers[c]) \in Nat
         /\ handlers[c].stage \in Live => StepsLeft(handlers[c]) > 0
<1>1. CASE handlers[c].stage \in Live
  <2>1. handlers[c].attempt \in Nat /\ handlers[c].attempt < PollMax /\ PollMax \in Nat
    BY <1>1, AttestationAssumption, StartedHandler DEF Types, PollsLeft, Live
  <2>2. \A a, m \in Nat : a < m => 2 * (m - a) \in Nat /\ 2 * (m - a) >= 2
    OBVIOUS
  <2>3. 2 * (PollMax - handlers[c].attempt) \in Nat /\ 2 * (PollMax - handlers[c].attempt) >= 2
    BY <2>1, <2>2
  <2> QED
    BY <1>1, <2>3 DEF StepsLeft, Live
<1>2. CASE handlers[c].stage \notin Live
  BY <1>2 DEF StepsLeft, Live
<1> QED
  BY <1>1, <1>2

LEMMA AnswerLessens ==
  ASSUME Types, NEW c \in Clicks, Answer(c) \/ Wake(c)
  PROVE  /\ StepsLeft(handlers'[c]) < StepsLeft(handlers[c])
         /\ \A d \in Clicks : d # c => handlers'[d] = handlers[d]
<1> DEFINE a == handlers[c].attempt
           polls == 2 * (PollMax - a)
<1>1. handlers[c].stage \in Live /\ handlers[c].stage # "unused"
  BY DEF Answer, Wake, Prepared, Mined, Requested, RequestFails, NotReady, Ready, PollFails, Live
<1>2. a \in Nat /\ a < PollMax /\ PollMax \in Nat
  BY <1>1, AttestationAssumption, StartedHandler DEF Types, PollsLeft
<1>3. polls \in Nat /\ polls >= 2 /\ 2 * (PollMax - (a + 1)) = polls - 2
  <2>1. \A b, m \in Nat : b < m => /\ 2 * (m - b) \in Nat /\ 2 * (m - b) >= 2
                                   /\ 2 * (m - (b + 1)) = 2 * (m - b) - 2
    OBVIOUS
  <2> QED
    BY <1>2, <2>1
<1> HIDE DEF polls
<1>4. CASE Answer(c)
  <2>1. PICK from, to :
          /\ Moves(c, from, to, a)
          /\ \/ <<from, to>> \in {<<"prepare", "request">>, <<"request", "mined">>,
                                  <<"mined", "poll">>, <<"poll", "sleep">>, <<"poll", "done">>}
             \/ from \in {"prepare", "request", "mined", "poll"} /\ to = "failed"
    BY <1>4, AnswerMoves DEF Types
  <2>2. /\ handlers[c].stage = from /\ handlers'[c].stage = to /\ handlers'[c].attempt = a
        /\ \A d \in Clicks : d # c => handlers'[d] = handlers[d]
    BY <2>1 DEF Moves
  <2>3. 2 * (PollMax - handlers'[c].attempt) = polls
    BY <2>2 DEF polls
  <2> QED
    BY <1>3, <2>1, <2>2, <2>3 DEF StepsLeft, polls
<1>5. CASE Wake(c)
  <2>1. /\ handlers[c].stage = "sleep" /\ handlers'[c].stage \in {"done", "poll"}
        /\ handlers'[c].attempt = a + 1
        /\ \A d \in Clicks : d # c => handlers'[d] = handlers[d]
    BY <1>5, WakeMoves DEF Types, Moves
  <2>2. 2 * (PollMax - handlers'[c].attempt) = polls - 2
    BY <1>3, <2>1
  <2>3. StepsLeft(handlers[c]) = polls - 1
    BY <2>1 DEF StepsLeft, polls
  <2>4. StepsLeft(handlers'[c]) \in {0, polls - 2}
    BY <2>1, <2>2 DEF StepsLeft
  <2> QED
    BY <1>3, <2>1, <2>3, <2>4
<1> QED
  BY <1>4, <1>5

\* Each step of a handler leaves it less to do, and nothing else that happens
\* gives it more: not another click, tab, round or reload.
HandlersAdvance ==
  /\ \A c \in Clicks :
       Answer(c) \/ Wake(c) => StepsLeft(handlers'[c]) < StepsLeft(handlers[c])
  /\ \A c \in Clicks : handlers[c] # Unused =>
       handlers'[c] = handlers[c] \/ StepsLeft(handlers'[c]) < StepsLeft(handlers[c])

\* The safety core of HandlersEnd: what a handler has yet to do is a natural
\* number that each of its answers and timers (the attest button and pollProof in
\* app.js) lessens, and that nothing raises; the polls are POLL_MAX at most.
THEOREM HandlersRunOut ==
  Spec => /\ [](\A c \in Clicks : handlers[c] # Unused => StepsLeft(handlers[c]) \in Nat)
          /\ [][HandlersAdvance]_vars
<1>1. Types => \A c \in Clicks : handlers[c] # Unused => StepsLeft(handlers[c]) \in Nat
  BY StepsAreNat
<1>2. Types /\ [Next]_vars => [HandlersAdvance]_vars
  <2> SUFFICES ASSUME Types, Next PROVE HandlersAdvance
    OBVIOUS
  <2>1. \A c \in Clicks :
          Answer(c) \/ Wake(c) => StepsLeft(handlers'[c]) < StepsLeft(handlers[c])
    BY AnswerLessens
  <2> SUFFICES ASSUME NEW d \in Clicks, handlers[d] # Unused
               PROVE  handlers'[d] = handlers[d]
                        \/ StepsLeft(handlers'[d]) < StepsLeft(handlers[d])
    BY <2>1 DEF HandlersAdvance
  <2>2. CASE \E c \in Clicks : Answer(c) \/ Wake(c)
    BY <2>2, AnswerLessens
  <2>3. CASE \E c \in Clicks, t \in Tabs, tx \in Txs : Click(c, t, tx)
    BY <2>3 DEF Click, Types, TypeOK
  <2>4. CASE \E t \in Tabs : Reload(t)
    <3>0. PICK t \in Tabs : handlers' = [c \in Clicks |->
            IF handlers[c].stage \in Live /\ handlers[c].tab = t
            THEN [handlers[c] EXCEPT !.stage = "gone"] ELSE handlers[c]]
      BY <2>4 DEF Reload
    <3>1. CASE ~(handlers[d].stage \in Live /\ handlers[d].tab = t)
      BY <3>0, <3>1
    <3>2. CASE handlers[d].stage \in Live /\ handlers[d].tab = t
      <4>1. handlers[d] \in Handlers
        BY DEF Types, TypeOK
      <4>2. handlers'[d] = [handlers[d] EXCEPT !.stage = "gone"]
        BY <3>0, <3>2
      <4>3. StepsLeft(handlers'[d]) = 0
        BY <4>1, <4>2 DEF StepsLeft, Handlers
      <4>4. StepsLeft(handlers[d]) > 0
        BY <3>2, StepsAreNat
      <4> QED
        BY <4>3, <4>4
    <3> QED
      BY <3>1, <3>2
  <2>5. CASE UNCHANGED handlers
    BY <2>5
  <2> QED
    BY <2>2, <2>3, <2>4, <2>5 DEF Next, Export, Import, NextRound, Finalise
<1>3. Spec => []Types
  BY InitTypes, NextTypes, PTL DEF Spec
<1> QED
  BY <1>1, <1>2, <1>3, PTL DEF Spec
=============================================================================
