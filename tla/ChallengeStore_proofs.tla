------------------------- MODULE ChallengeStore_proofs -------------------------
(***************************************************************************)
(* Any number of threads, addresses and challenges: verifications never    *)
(* outnumber challenges, and every binding was earned.                     *)
(***************************************************************************)
EXTENDS ChallengeStore, FiniteSetTheorems, TLAPS

\* Nonces number the challenges, so a new one is never one of the old.
NoncesInUse ==
  /\ IsFiniteSet(issued)
  /\ \A c \in issued : c.nonce \in 1..Cardinality(issued)

\* A challenge in the dictionary or in a thread's hands was issued to the
\* address it is kept under, and a thread past its checks has a valid answer.
HeldWereIssued ==
  /\ \A f \in Flares : challenges[f] # None =>
       challenges[f] \in issued /\ challenges[f].flare = f
  /\ \A w \in Workers : verifications[w] # None =>
       /\ verifications[w].ch \in issued
       /\ verifications[w].ch.flare = verifications[w].request.flare
       /\ verifications[w].checked => Valid(verifications[w])

IInv ==
  /\ TypeOK
  /\ NoncesInUse
  /\ HeldWereIssued
  /\ AcceptancesWithinChallenges
  /\ BindingsAreEarned

\* The text of an issued challenge is a text.
LEMMA MessageType ==
  ASSUME TypeOK, NEW c \in issued
  PROVE  ChallengeMessage(c.flare, c.xrpl, c.nonce) \in Texts
BY DEF TypeOK, Challenges, ChallengeMessage, Texts

\* One more challenge for one address, none fewer for the others.
LEMMA IssuedGrows ==
  ASSUME NoncesInUse, NEW c, c.nonce = Cardinality(issued) + 1,
         issued' = issued \cup {c}
  PROVE  /\ NoncesInUse'
         /\ \A f : /\ Cardinality(IssuedTo(f)) \in Nat
                   /\ Cardinality(IssuedTo(f)') \in Nat
                   /\ Cardinality(IssuedTo(f)') =
                        IF c.flare = f THEN Cardinality(IssuedTo(f)) + 1
                        ELSE Cardinality(IssuedTo(f))
<1>1. IsFiniteSet(issued) /\ Cardinality(issued) \in Nat
  BY FS_CardinalityType DEF NoncesInUse
<1>2. c \notin issued
  BY <1>1 DEF NoncesInUse
<1>3. IsFiniteSet(issued') /\ Cardinality(issued') = Cardinality(issued) + 1
  BY <1>1, <1>2, FS_AddElement
<1>4. NoncesInUse'
  <2>1. ASSUME NEW d \in issued' PROVE d.nonce \in 1..Cardinality(issued')
    <3>1. CASE d = c
      BY <1>1, <1>3, <3>1
    <3>2. CASE d \in issued
      <4>1. d.nonce \in 1..Cardinality(issued)
        BY <3>2 DEF NoncesInUse
      <4>2. QED BY <1>1, <1>3, <4>1
    <3>3. QED BY <3>1, <3>2
  <2>2. QED BY <1>3, <2>1 DEF NoncesInUse
<1>5. ASSUME NEW f
      PROVE  /\ Cardinality(IssuedTo(f)) \in Nat
             /\ Cardinality(IssuedTo(f)') \in Nat
             /\ Cardinality(IssuedTo(f)') =
                  IF c.flare = f THEN Cardinality(IssuedTo(f)) + 1
                  ELSE Cardinality(IssuedTo(f))
  <2>1. IsFiniteSet(IssuedTo(f)) /\ Cardinality(IssuedTo(f)) \in Nat
    <3>1. IssuedTo(f) \subseteq issued
      BY DEF IssuedTo
    <3>2. QED BY <1>1, <3>1, FS_Subset, FS_CardinalityType
  <2>2. CASE c.flare = f
    <3>1. IssuedTo(f)' = IssuedTo(f) \cup {c} /\ c \notin IssuedTo(f)
      BY <1>2, <2>2 DEF IssuedTo
    <3>2. Cardinality(IssuedTo(f)') = Cardinality(IssuedTo(f)) + 1
      BY <2>1, <3>1, FS_AddElement
    <3>3. QED BY <2>1, <2>2, <3>2
  <2>3. CASE c.flare # f
    <3>1. IssuedTo(f)' = IssuedTo(f)
      BY <2>3 DEF IssuedTo
    <3>2. QED BY <2>1, <2>3, <3>1
  <2>4. QED BY <2>2, <2>3
<1>6. QED BY <1>4, <1>5

LEMMA InitIInv == Init => IInv
<1> SUFFICES ASSUME Init PROVE IInv
  OBVIOUS
<1>1. TypeOK /\ NoncesInUse /\ HeldWereIssued /\ BindingsAreEarned
  BY FS_EmptySet DEF Init, TypeOK, NoncesInUse, HeldWereIssued, BindingsAreEarned
<1>2. \A f \in Flares : IssuedTo(f) = {}
  BY DEF Init, IssuedTo
<1>3. AcceptancesWithinChallenges
  BY <1>2, FS_EmptySet DEF Init, AcceptancesWithinChallenges, Standing
<1>4. QED BY <1>1, <1>3 DEF IInv

LEMMA MakeChallengeKeeps ==
  ASSUME IInv, NEW f \in Flares, NEW x \in Xrpls, MakeChallenge(f, x)
  PROVE  IInv'
<1> DEFINE c == [flare |-> f, xrpl |-> x, nonce |-> Cardinality(issued) + 1,
                 issuedAt |-> now]
<1>1. /\ challenges' = [challenges EXCEPT ![f] = c]
      /\ issued' = issued \cup {c}
      /\ UNCHANGED <<verifications, bindings, accepted, overlapped, now>>
  BY DEF MakeChallenge
<1>2. Cardinality(issued) \in Nat
  BY FS_CardinalityType DEF IInv, NoncesInUse
<1>3. c \in Challenges /\ c # None /\ c.flare = f /\ c.nonce = Cardinality(issued) + 1
  BY <1>2, NoneAssumption DEF IInv, TypeOK, Challenges
<1> HIDE DEF c
<1>4. TypeOK'
  BY <1>1, <1>3 DEF IInv, TypeOK
<1>5. /\ NoncesInUse'
      /\ \A g : /\ Cardinality(IssuedTo(g)) \in Nat
                /\ Cardinality(IssuedTo(g)') =
                     IF c.flare = g THEN Cardinality(IssuedTo(g)) + 1
                     ELSE Cardinality(IssuedTo(g))
  BY <1>1, <1>3, IssuedGrows DEF IInv
<1>6. HeldWereIssued'
  BY <1>1, <1>3 DEF IInv, TypeOK, HeldWereIssued, Valid
<1>7. ASSUME NEW g \in Flares
      PROVE  accepted'[g] + Standing(g)' <= Cardinality(IssuedTo(g)')
  <2>1. accepted[g] \in Nat /\ accepted'[g] = accepted[g]
        /\ accepted[g] + Standing(g) <= Cardinality(IssuedTo(g))
        /\ Standing(g) \in Nat
    BY <1>1 DEF IInv, TypeOK, AcceptancesWithinChallenges, Standing
  <2>2. CASE g = f
    <3>1. Standing(g)' = 1
      BY <1>1, <1>3, <2>2 DEF Standing, IInv, TypeOK
    <3>2. QED BY <1>3, <1>5, <2>1, <2>2, <3>1
  <2>3. CASE g # f
    <3>1. Standing(g)' = Standing(g)
      BY <1>1, <2>3 DEF Standing, IInv, TypeOK
    <3>2. QED BY <1>3, <1>5, <2>1, <2>3, <3>1
  <2>4. QED BY <2>2, <2>3
<1>8. AcceptancesWithinChallenges'
  BY <1>7 DEF AcceptancesWithinChallenges
<1>9. BindingsAreEarned'
  BY <1>1 DEF IInv, BindingsAreEarned
<1>10. QED BY <1>4, <1>5, <1>6, <1>8, <1>9 DEF IInv

\* A lookup puts a request and an issued challenge in a thread's hands.
LEMMA StartKeeps ==
  ASSUME IInv, NEW w \in Workers, Start(w)
  PROVE  IInv'
<1>1. PICK r : LookUp(w, r) /\ r \in Requests
  BY MessageType DEF Start, Requests, IInv, TypeOK
<1> DEFINE v == [request |-> r, ch |-> challenges[r.flare], checked |-> FALSE]
<1>2. /\ challenges[r.flare] # None
      /\ verifications' = [verifications EXCEPT ![w] = v]
      /\ overlapped' \subseteq overlapped \cup {r.flare}
      /\ UNCHANGED <<challenges, issued, bindings, accepted, now>>
      /\ r.flare \in Flares
  BY <1>1 DEF LookUp, Requests
<1>3. /\ v.ch \in issued /\ v.ch.flare = v.request.flare /\ ~v.checked
      /\ v \in Verifications
  BY <1>1, <1>2 DEF IInv, HeldWereIssued, TypeOK, Verifications
<1> HIDE DEF v
<1>4. TypeOK' /\ NoncesInUse'
  BY <1>2, <1>3 DEF IInv, TypeOK, NoncesInUse
<1>5. HeldWereIssued'
  BY <1>2, <1>3 DEF IInv, TypeOK, HeldWereIssued
<1>6. AcceptancesWithinChallenges' /\ BindingsAreEarned'
  BY <1>2 DEF IInv, AcceptancesWithinChallenges, Standing, IssuedTo, BindingsAreEarned
<1>7. QED BY <1>4, <1>5, <1>6 DEF IInv

\* Deleting an entry, or a verification that ends, disturbs nothing.
LEMMA EndKeeps ==
  ASSUME IInv, NEW w \in Workers, NEW f \in Flares,
         verifications' = [verifications EXCEPT ![w] = None],
         \/ challenges' = challenges
         \/ challenges' = [challenges EXCEPT ![f] = None],
         UNCHANGED <<issued, bindings, accepted, overlapped, now>>
  PROVE  IInv'
<1>1. TypeOK' /\ NoncesInUse'
  BY DEF IInv, TypeOK, NoncesInUse
<1>2. HeldWereIssued'
  BY DEF IInv, TypeOK, HeldWereIssued
<1>3. ASSUME NEW g \in Flares
      PROVE  accepted'[g] + Standing(g)' <= Cardinality(IssuedTo(g)')
  <2>1. accepted[g] \in Nat /\ accepted[g] + Standing(g) <= Cardinality(IssuedTo(g))
    BY DEF IInv, TypeOK, AcceptancesWithinChallenges
  <2>2. Standing(g)' \in Nat /\ Standing(g) \in Nat /\ Standing(g)' <= Standing(g)
    BY DEF Standing, IInv, TypeOK
  <2>3. Cardinality(IssuedTo(g)) \in Nat /\ IssuedTo(g)' = IssuedTo(g)
    <3>1. IssuedTo(g) \subseteq issued
      BY DEF IssuedTo
    <3>2. QED BY <3>1, FS_Subset, FS_CardinalityType DEF IInv, NoncesInUse, IssuedTo
  <2>4. QED BY <2>1, <2>2, <2>3
<1>4. AcceptancesWithinChallenges'
  BY <1>3 DEF AcceptancesWithinChallenges
<1>5. BindingsAreEarned'
  BY DEF IInv, BindingsAreEarned
<1>6. QED BY <1>1, <1>2, <1>4, <1>5 DEF IInv

LEMMA CheckKeeps ==
  ASSUME IInv, NEW w \in Workers, Check(w)
  PROVE  IInv'
<1> DEFINE v == verifications[w]
           after == [v EXCEPT !.checked = TRUE]
<1>1. /\ v # None /\ Valid(v)
      /\ verifications' = [verifications EXCEPT ![w] = after]
      /\ UNCHANGED <<challenges, issued, bindings, accepted, overlapped, now>>
  BY DEF Check
<1>2. v \in Verifications
  BY <1>1 DEF IInv, TypeOK
<1>3. /\ after \in Verifications
      /\ after.ch = v.ch /\ after.request = v.request
  BY <1>2 DEF Verifications
<1>4. Valid(after) /\ v.ch \in issued /\ v.ch.flare = v.request.flare
  BY <1>1, <1>3 DEF Valid, IInv, HeldWereIssued
<1> HIDE DEF after
<1>5. TypeOK' /\ NoncesInUse'
  BY <1>1, <1>3 DEF IInv, TypeOK, NoncesInUse
<1>6. HeldWereIssued'
  BY <1>1, <1>3, <1>4 DEF IInv, TypeOK, HeldWereIssued
<1>7. AcceptancesWithinChallenges' /\ BindingsAreEarned'
  BY <1>1 DEF IInv, AcceptancesWithinChallenges, Standing, IssuedTo, BindingsAreEarned
<1>8. QED BY <1>5, <1>6, <1>7 DEF IInv

LEMMA ConsumeKeepsIInv ==
  ASSUME IInv, NEW w \in Workers, Consume(w)
  PROVE  IInv'
<1> DEFINE v == verifications[w]
           f == v.request.flare
<1>1. v # None /\ v.checked /\ verifications' = [verifications EXCEPT ![w] = None]
      /\ UNCHANGED <<issued, overlapped, now>>
  BY DEF Consume
<1>2. v \in Verifications /\ f \in Flares
  BY <1>1 DEF IInv, TypeOK, Verifications, Requests
<1>3. CASE challenges[f] = None
  <2>1. UNCHANGED <<challenges, bindings, accepted>>
    BY <1>3 DEF Consume
  <2>2. QED BY <1>1, <1>2, <2>1, EndKeeps
<1>4. CASE challenges[f] # None
  <2>1. /\ challenges' = [challenges EXCEPT ![f] = None]
        /\ bindings' = bindings \cup {Binding(v)}
        /\ accepted' = [accepted EXCEPT ![f] = accepted[f] + 1]
    BY <1>4 DEF Consume
  <2>2. /\ v.ch \in issued /\ v.ch.flare = f /\ Valid(v)
        /\ v.ch \in Challenges /\ v.request \in Requests
    BY <1>1, <1>2 DEF IInv, HeldWereIssued, Verifications
  <2>3. Binding(v) \in Bindings
    BY <2>2 DEF Binding, Bindings, Challenges, Requests
  <2>4. TypeOK' /\ NoncesInUse'
    BY <1>1, <1>2, <2>1, <2>3 DEF IInv, TypeOK, NoncesInUse
  <2>5. HeldWereIssued'
    BY <1>1, <1>2, <2>1 DEF IInv, TypeOK, HeldWereIssued
  <2>6. BindingsAreEarned'
    <3>1. /\ Binding(v).key = Binding(v).xrpl
          /\ v.ch.flare = Binding(v).flare /\ v.ch.xrpl = Binding(v).xrpl
          /\ v.ch.nonce = Binding(v).nonce
          /\ Binding(v).text =
               ChallengeMessage(Binding(v).flare, Binding(v).xrpl, Binding(v).nonce)
      BY <2>2 DEF Binding, Valid
    <3>2. ChallengeMessage(v.ch.flare, v.ch.xrpl, v.ch.nonce) = Binding(v).text
      BY <3>1
    <3>3. QED BY <1>1, <2>1, <2>2, <3>1, <3>2 DEF IInv, BindingsAreEarned
  <2>7. ASSUME NEW g \in Flares
        PROVE  accepted'[g] + Standing(g)' <= Cardinality(IssuedTo(g)')
    <3>1. accepted[g] \in Nat /\ accepted[g] + Standing(g) <= Cardinality(IssuedTo(g))
          /\ IssuedTo(g)' = IssuedTo(g)
      BY <1>1 DEF IInv, TypeOK, AcceptancesWithinChallenges, IssuedTo
    <3>2. CASE g = f
      <4>1. Standing(g) = 1 /\ Standing(g)' = 0 /\ accepted'[g] = accepted[g] + 1
        BY <1>2, <1>4, <2>1, <3>2 DEF Standing, IInv, TypeOK
      <4>2. QED BY <3>1, <4>1
    <3>3. CASE g # f
      <4>1. Standing(g)' = Standing(g) /\ accepted'[g] = accepted[g]
        BY <1>2, <2>1, <3>3 DEF Standing, IInv, TypeOK
      <4>2. QED BY <3>1, <4>1
    <3>4. QED BY <3>2, <3>3
  <2>8. AcceptancesWithinChallenges'
    BY <2>7 DEF AcceptancesWithinChallenges
  <2>9. QED BY <2>4, <2>5, <2>6, <2>8 DEF IInv
<1>5. QED BY <1>3, <1>4

LEMMA RestartKeeps ==
  ASSUME IInv, Restart
  PROVE  IInv'
<1>1. TypeOK' /\ NoncesInUse'
  BY DEF Restart, IInv, TypeOK, NoncesInUse
<1>2. HeldWereIssued'
  BY DEF Restart, HeldWereIssued
<1>3. ASSUME NEW g \in Flares
      PROVE  accepted'[g] + Standing(g)' <= Cardinality(IssuedTo(g)')
  <2>1. accepted[g] \in Nat /\ accepted[g] + Standing(g) <= Cardinality(IssuedTo(g))
        /\ accepted'[g] = accepted[g] /\ IssuedTo(g)' = IssuedTo(g)
    BY DEF Restart, IInv, TypeOK, AcceptancesWithinChallenges, IssuedTo
  <2>2. Standing(g) \in {0, 1} /\ Standing(g)' = 0
    BY DEF Restart, Standing
  <2>3. Cardinality(IssuedTo(g)) \in Nat
    <3>1. IssuedTo(g) \subseteq issued
      BY DEF IssuedTo
    <3>2. QED BY <3>1, FS_Subset, FS_CardinalityType DEF IInv, NoncesInUse
  <2>4. QED BY <2>1, <2>2, <2>3
<1>4. AcceptancesWithinChallenges' /\ BindingsAreEarned'
  BY <1>3 DEF AcceptancesWithinChallenges, Restart, IInv, BindingsAreEarned
<1>5. QED BY <1>1, <1>2, <1>4 DEF IInv

LEMMA NextIInv == IInv /\ [Next]_vars => IInv'
<1> SUFFICES ASSUME IInv, [Next]_vars PROVE IInv'
  OBVIOUS
<1>1. ASSUME NEW w \in Workers, Expire(w) \/ Refuse(w) PROVE IInv'
  <2>1. verifications[w].request.flare \in Flares
    BY <1>1 DEF Expire, Refuse, IInv, TypeOK, Verifications, Requests
  <2>2. QED BY <1>1, <2>1, EndKeeps DEF Expire, Refuse
<1>2. CASE Tick \/ UNCHANGED vars
  <2>1. UNCHANGED <<challenges, verifications, issued, bindings, accepted, overlapped>>
        /\ (now' = now + 1 \/ now' = now)
    BY <1>2 DEF Tick, vars
  <2>2. QED
    BY <2>1 DEF IInv, TypeOK, NoncesInUse, HeldWereIssued, AcceptancesWithinChallenges,
                Standing, IssuedTo, BindingsAreEarned
<1>3. QED
  BY <1>1, <1>2, MakeChallengeKeeps, StartKeeps, CheckKeeps, ConsumeKeepsIInv, RestartKeeps
     DEF Next

\* Every reachable state of the store satisfies the inductive invariant.
LEMMA Invariance == Spec => []IInv
BY InitIInv, NextIInv, PTL DEF Spec

\* An address is verified at most once per challenge it was given, for any
\* number of threads and any interleaving of their lookups and deletions.
THEOREM AcceptancesAreWithinChallenges == Spec => []AcceptancesWithinChallenges
<1>1. IInv => AcceptancesWithinChallenges
  BY DEF IInv
<1>2. QED BY <1>1, Invariance, PTL

\* Every binding handed out answers a challenge issued for its pair of addresses
\* by a signature of that challenge's text with the XRPL address's own key.
THEOREM EveryBindingIsEarned == Spec => []BindingsAreEarned
<1>1. IInv => BindingsAreEarned
  BY DEF IInv
<1>2. QED BY <1>1, Invariance, PTL
-----------------------------------------------------------------------------
OfFlare(f) == {b \in bindings : b.flare = f}

\* No binding of f was made with this nonce.
Unspent(f, n) == \A b \in OfFlare(f) : b.nonce # n

\* What holds of an address whose verifications never overlapped: one of them
\* at most is under way, its challenge or one that replaced it is still there,
\* and neither nonce has been accepted.
Apart(f) ==
  /\ IsFiniteSet(OfFlare(f)) /\ accepted[f] = Cardinality(OfFlare(f))
  /\ \A w, u \in Workers : Verifies(w, f) /\ Verifies(u, f) => w = u
  /\ challenges[f] # None => Unspent(f, challenges[f].nonce)
  /\ \A w \in Workers : Verifies(w, f) =>
       challenges[f] # None /\ Unspent(f, verifications[w].ch.nonce)

ApartInv == IInv /\ \A f \in Flares \ overlapped : Apart(f)

\* A step that leaves an address's bindings and count alone, and takes up no
\* verification of it, keeps Apart if its challenge stays or is a fresh one.
LEMMA OthersKeepApart ==
  ASSUME NEW f \in Flares, Apart(f),
         OfFlare(f)' = OfFlare(f), accepted'[f] = accepted[f],
         challenges'[f] = challenges[f]
           \/ (challenges'[f] # None /\ Unspent(f, challenges'[f].nonce)),
         \A w \in Workers : Verifies(w, f)' =>
           Verifies(w, f) /\ verifications'[w].ch = verifications[w].ch
  PROVE  Apart(f)'
<1>1. \A n : Unspent(f, n) => Unspent(f, n)'
  BY DEF Unspent
<1>2. IsFiniteSet(OfFlare(f)') /\ accepted'[f] = Cardinality(OfFlare(f)')
  BY DEF Apart
<1>3. \A w, u \in Workers : Verifies(w, f)' /\ Verifies(u, f)' => w = u
  BY DEF Apart
<1>4. challenges'[f] # None => Unspent(f, challenges[f].nonce)'
  <2>1. challenges'[f] # None => Unspent(f, challenges'[f].nonce)
    BY DEF Apart
  <2>2. QED BY <2>1 DEF Unspent
<1>5. ASSUME NEW w \in Workers, Verifies(w, f)'
      PROVE  challenges'[f] # None /\ Unspent(f, verifications[w].ch.nonce)'
  <2>1. challenges[f] # None /\ Unspent(f, verifications[w].ch.nonce)
        /\ verifications'[w].ch = verifications[w].ch
    BY <1>5 DEF Apart
  <2>2. QED BY <2>1 DEF Unspent
<1>6. QED BY <1>2, <1>3, <1>4, <1>5 DEF Apart

LEMMA InitApart == Init => ApartInv
<1> SUFFICES ASSUME Init PROVE ApartInv
  OBVIOUS
<1>1. ASSUME NEW f \in Flares PROVE Apart(f)
  <2>1. OfFlare(f) = {}
    BY DEF Init, OfFlare
  <2>2. challenges[f] = None /\ \A w \in Workers : ~Verifies(w, f)
    BY DEF Init, Verifies
  <2>3. QED BY <2>1, <2>2, FS_EmptySet DEF Apart, Init
<1>2. QED BY <1>1, InitIInv DEF ApartInv

LEMMA MakeChallengeApart ==
  ASSUME IInv, NEW g \in Flares, NEW x \in Xrpls, MakeChallenge(g, x),
         NEW f \in Flares, Apart(f)
  PROVE  Apart(f)'
<1> DEFINE c == [flare |-> g, xrpl |-> x, nonce |-> Cardinality(issued) + 1,
                 issuedAt |-> now]
<1>1. /\ challenges' = [challenges EXCEPT ![g] = c]
      /\ UNCHANGED <<verifications, bindings, accepted, overlapped, now>>
  BY DEF MakeChallenge
<1>2. Cardinality(issued) \in Nat /\ c.nonce = Cardinality(issued) + 1
  BY FS_CardinalityType DEF IInv, NoncesInUse
<1>3. c # None
  BY <1>2, NoneAssumption DEF IInv, TypeOK, Challenges
<1> HIDE DEF c
<1>4. Unspent(f, c.nonce)
  <2>1. SUFFICES ASSUME NEW b \in bindings PROVE b.nonce # c.nonce
    BY DEF Unspent, OfFlare
  <2>2. PICK d \in issued : d.nonce = b.nonce
    <3>1. \A d \in issued :
            ChallengeMessage(d.flare, d.xrpl, d.nonce)
              = ChallengeMessage(b.flare, b.xrpl, b.nonce) => d.nonce = b.nonce
      BY DEF ChallengeMessage
    <3>2. QED BY <3>1 DEF IInv, BindingsAreEarned
  <2>3. b.nonce \in 1..Cardinality(issued)
    BY <2>2 DEF IInv, NoncesInUse
  <2>4. QED BY <1>2, <2>3
<1>5. challenges'[f] = challenges[f]
      \/ (challenges'[f] # None /\ Unspent(f, challenges'[f].nonce))
  BY <1>1, <1>3, <1>4 DEF IInv, TypeOK
<1>6. QED BY <1>1, <1>5, OthersKeepApart DEF OfFlare, Verifies

LEMMA StartApart ==
  ASSUME IInv, NEW w \in Workers, Start(w),
         NEW f \in Flares, f \notin overlapped', Apart(f)
  PROVE  Apart(f)'
<1>1. PICK r : LookUp(w, r) /\ r \in Requests
  BY MessageType DEF Start, Requests, IInv, TypeOK
<1> DEFINE v == [request |-> r, ch |-> challenges[r.flare], checked |-> FALSE]
<1>2. /\ challenges[r.flare] # None
      /\ verifications' = [verifications EXCEPT ![w] = v]
      /\ UNCHANGED <<challenges, bindings, accepted>>
  BY <1>1 DEF LookUp
<1>3. \A u \in Workers \ {w} : Verifies(u, f)' = Verifies(u, f)
                              /\ verifications'[u] = verifications[u]
  BY <1>2 DEF Verifies, IInv, TypeOK
<1>4. verifications'[w] = v
  BY <1>2 DEF IInv, TypeOK
<1>5. v.request = r /\ v.ch = challenges[r.flare]
  OBVIOUS
<1> HIDE DEF v
<1>6. CASE r.flare # f
  <2>1. ~Verifies(w, f)'
    BY <1>4, <1>5, <1>6 DEF Verifies
  <2>2. \A u \in Workers : Verifies(u, f)' =>
           Verifies(u, f) /\ verifications'[u].ch = verifications[u].ch
    BY <1>3, <2>1
  <2>3. QED BY <1>2, <2>2, OthersKeepApart DEF OfFlare
<1>7. CASE r.flare = f
  <2>1. \A u \in Workers : ~Verifies(u, f)
    BY <1>1, <1>7 DEF LookUp
  <2>2. \A u \in Workers : Verifies(u, f)' => u = w
    BY <1>3, <2>1
  <2>3. challenges[f] # None /\ Unspent(f, challenges[f].nonce)
    BY <1>2, <1>7 DEF Apart
  <2>4. /\ challenges'[f] # None
        /\ Unspent(f, challenges[f].nonce)'
        /\ Unspent(f, verifications[w].ch.nonce)'
    BY <1>2, <1>4, <1>5, <1>7, <2>3 DEF Unspent, OfFlare
  <2>5. IsFiniteSet(OfFlare(f)') /\ accepted'[f] = Cardinality(OfFlare(f)')
    BY <1>2 DEF Apart, OfFlare
  <2>6. challenges'[f] # None => Unspent(f, challenges[f].nonce)'
    BY <2>4
  <2>7. QED BY <2>2, <2>4, <2>5 DEF Apart
<1>8. QED BY <1>6, <1>7

\* The end of a verification, with or without the deletion of its address's
\* challenge.
LEMMA EndApart ==
  ASSUME IInv, NEW w \in Workers, verifications[w] # None,
         verifications' = [verifications EXCEPT ![w] = None],
         \/ challenges' = challenges
         \/ challenges' = [challenges EXCEPT ![verifications[w].request.flare] = None],
         UNCHANGED <<bindings, accepted>>,
         NEW f \in Flares, Apart(f)
  PROVE  Apart(f)'
<1>1. \A u \in Workers : Verifies(u, f)' =>
        u # w /\ Verifies(u, f) /\ verifications'[u].ch = verifications[u].ch
  BY DEF Verifies, IInv, TypeOK
<1>2. CASE challenges'[f] = challenges[f]
  BY <1>1, <1>2, OthersKeepApart DEF OfFlare
<1>3. CASE challenges'[f] # challenges[f]
  <2>1. verifications[w].request.flare = f /\ challenges'[f] = None
    BY <1>3 DEF IInv, TypeOK
  <2>2. Verifies(w, f)
    BY <2>1 DEF Verifies
  <2>3. \A u \in Workers : ~Verifies(u, f)'
    BY <1>1, <2>2 DEF Apart
  <2>4. IsFiniteSet(OfFlare(f)') /\ accepted'[f] = Cardinality(OfFlare(f)')
    BY DEF Apart, OfFlare
  <2>5. QED BY <2>1, <2>3, <2>4 DEF Apart
<1>4. QED BY <1>2, <1>3

LEMMA CheckApart ==
  ASSUME IInv, NEW w \in Workers, Check(w), NEW f \in Flares, Apart(f)
  PROVE  Apart(f)'
<1>1. /\ verifications[w] # None
      /\ verifications' = [verifications EXCEPT ![w].checked = TRUE]
      /\ UNCHANGED <<challenges, bindings, accepted>>
  BY DEF Check
<1>2. \A u \in Workers : verifications'[u] =
        IF u = w THEN [verifications[w] EXCEPT !.checked = TRUE] ELSE verifications[u]
  BY <1>1 DEF IInv, TypeOK
<1>3. [verifications[w] EXCEPT !.checked = TRUE].request = verifications[w].request
      /\ [verifications[w] EXCEPT !.checked = TRUE].ch = verifications[w].ch
  BY <1>1 DEF IInv, TypeOK, Verifications
<1>4. \A u \in Workers : Verifies(u, f)' =>
        Verifies(u, f) /\ verifications'[u].ch = verifications[u].ch
  BY <1>1, <1>2, <1>3 DEF Verifies
<1>5. QED BY <1>1, <1>4, OthersKeepApart DEF OfFlare

\* The binding made is a new one, for its nonce was not spent, and nobody else
\* verifies the address.
LEMMA ConsumeApart ==
  ASSUME IInv, NEW w \in Workers, Consume(w), NEW f \in Flares, Apart(f)
  PROVE  Apart(f)'
<1> DEFINE v == verifications[w]
           g == v.request.flare
<1>1. v # None /\ verifications' = [verifications EXCEPT ![w] = None]
  BY DEF Consume
<1>2. v \in Verifications /\ g \in Flares
  BY <1>1 DEF IInv, TypeOK, Verifications, Requests
<1>3. CASE challenges[g] = None
  BY <1>1, <1>3, EndApart DEF Consume
<1>4. CASE challenges[g] # None
  <2>1. /\ challenges' = [challenges EXCEPT ![g] = None]
        /\ bindings' = bindings \cup {Binding(v)}
        /\ accepted' = [accepted EXCEPT ![g] = @ + 1]
    BY <1>4 DEF Consume
  <2>2. Binding(v).flare = g /\ Binding(v).nonce = v.ch.nonce
    BY DEF Binding
  <2>3. \A u \in Workers : Verifies(u, f)' =>
          u # w /\ Verifies(u, f) /\ verifications'[u].ch = verifications[u].ch
    BY <1>1 DEF Verifies, IInv, TypeOK
  <2>4. CASE g # f
    <3>1. OfFlare(f)' = OfFlare(f)
      BY <2>1, <2>2, <2>4 DEF OfFlare
    <3>2. challenges'[f] = challenges[f] /\ accepted'[f] = accepted[f]
      BY <1>2, <2>1, <2>4 DEF IInv, TypeOK
    <3>3. QED BY <2>3, <3>1, <3>2, OthersKeepApart
  <2>5. CASE g = f
    <3>1. Verifies(w, f)
      BY <1>1, <2>5 DEF Verifies
    <3>2. OfFlare(f)' = OfFlare(f) \cup {Binding(v)}
      BY <2>1, <2>2, <2>5 DEF OfFlare
    <3>3. Binding(v) \notin OfFlare(f)
      BY <2>2, <3>1 DEF Apart, Unspent
    <3>4. IsFiniteSet(OfFlare(f)')
          /\ Cardinality(OfFlare(f)') = Cardinality(OfFlare(f)) + 1
      BY <3>2, <3>3, FS_AddElement DEF Apart
    <3>5. accepted'[f] = accepted[f] + 1 /\ challenges'[f] = None
      BY <2>1, <2>5 DEF IInv, TypeOK
    <3>6. \A u \in Workers : ~Verifies(u, f)'
      BY <2>3, <3>1 DEF Apart
    <3>7. QED BY <3>4, <3>5, <3>6 DEF Apart
  <2>6. QED BY <2>4, <2>5
<1>5. QED BY <1>3, <1>4

\* After a restart nothing is under way and no challenge stands.
LEMMA RestartApart ==
  ASSUME Restart, NEW f \in Flares, Apart(f)
  PROVE  Apart(f)'
<1>1. challenges'[f] = None /\ \A w \in Workers : ~Verifies(w, f)'
  BY DEF Restart, Verifies
<1>2. IsFiniteSet(OfFlare(f)') /\ accepted'[f] = Cardinality(OfFlare(f)')
  BY DEF Restart, Apart, OfFlare
<1>3. QED BY <1>1, <1>2 DEF Apart

LEMMA NextApart == ApartInv /\ [Next]_vars => ApartInv'
<1> SUFFICES ASSUME ApartInv, [Next]_vars PROVE ApartInv'
  OBVIOUS
<1>1. IInv /\ IInv'
  BY NextIInv DEF ApartInv
<1>2. overlapped \subseteq overlapped'
  BY DEF Next, MakeChallenge, Start, LookUp, Expire, Refuse, Check, Consume, Restart, Tick, vars
<1>3. SUFFICES ASSUME NEW f \in Flares, f \notin overlapped', Apart(f) PROVE Apart(f)'
  BY <1>1, <1>2 DEF ApartInv
<1>4. ASSUME NEW w \in Workers, Expire(w) \/ Refuse(w) PROVE Apart(f)'
  BY <1>1, <1>3, <1>4, EndApart DEF Expire, Refuse
<1>5. CASE Tick \/ UNCHANGED vars
  <2>1. UNCHANGED <<challenges, verifications, bindings, accepted>>
    BY <1>5 DEF Tick, vars
  <2>2. QED BY <1>3, <2>1, OthersKeepApart DEF OfFlare, Verifies
<1>6. QED
  BY <1>1, <1>3, <1>4, <1>5, MakeChallengeApart, StartApart, CheckApart, ConsumeApart,
     RestartApart DEF Next

\* The addresses whose verifications did not overlap, in every reachable state.
LEMMA ApartInvariance == Spec => []ApartInv
BY InitApart, NextApart, PTL DEF Spec

\* A nonce is single-use for every address whose verifications never ran two
\* at a time, however many threads serve however many other addresses.
THEOREM NonceSingleUseApart == Spec => []NonceAcceptedOnceApart
<1>1. ApartInv => NonceAcceptedOnceApart
  BY DEF ApartInv, Apart, OfFlare, NonceAcceptedOnceApart, EachNonceOnce
<1>2. QED BY <1>1, ApartInvariance, PTL

\* A right answer in time that no other verification of its address
\* overlapped finds a challenge to consume, and is accepted.
THEOREM RightAnswerIsAccepted == Spec => []RightAnswerWins
<1>1. ApartInv => RightAnswerWins
  <2>1. SUFFICES ASSUME ApartInv, NEW w \in Workers, verifications[w] # None,
                        verifications[w].request.flare \notin overlapped
                 PROVE  challenges[verifications[w].request.flare] # None
    BY DEF RightAnswerWins
  <2>2. verifications[w].request.flare \in Flares
    BY <2>1 DEF ApartInv, IInv, TypeOK, Verifications, Requests
  <2>3. QED BY <2>1, <2>2 DEF ApartInv, Apart, Verifies
<1>2. QED BY <1>1, ApartInvariance, PTL
===============================================================================
