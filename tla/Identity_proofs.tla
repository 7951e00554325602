--------------------------- MODULE Identity_proofs ---------------------------
(***************************************************************************)
(* What the Identity page promises, for any number of XRPL addresses,      *)
(* signatures, open windows and reloads: it always has a next step, what   *)
(* it shows as linked is linked, and a binding that the enclave scores for *)
(* was verified or came from outside.                                      *)
(***************************************************************************)
EXTENDS Identity, SequenceTheorems, TLAPS

\* The bindings /identity/verify gave out, those that came from outside, or none.
Known == verified \cup outside \cup {None}

\* Whatever holds a binding holds one of them, and a challenge that is open was
\* never answered.
Earned ==
  /\ \A v \in verified : v.nonce <= nonces /\ v.nonce # challenge
  /\ binding \in Known /\ bindingOf \in Known
  /\ prompts \in Seq([hash : Known, live : BOOLEAN])
  /\ queue \in Seq(Known)
  /\ accepted \subseteq verified \cup outside

\* The registry's entry once all that was sent is mined.
Final == IF queue = <<>> THEN bindingOf ELSE Last(queue)

\* A page loaded with nothing open owns every window there is, and nothing
\* moves under its reads: what it shows is what the chain will hold.
Current ==
  /\ \A i \in DOMAIN prompts : prompts[i].live
  /\ boot # "done" => prompts = <<>> /\ queue = <<>>
  /\ boot = "linked" => bindingOf # None
  /\ linkedShown => Final # None

\* The inductive invariant. LinkedShownIsLinked alone is not inductive: it says
\* nothing of a page whose transactions are still open.
IInv ==
  /\ TypeOK
  /\ WayForward
  /\ Earned
  /\ ~overtaken => Current
-----------------------------------------------------------------------------
\* RemoveAt keeps the other elements.
LEMMA RemoveAtProperties ==
  ASSUME NEW S, NEW s \in Seq(S), NEW i \in DOMAIN s
  PROVE  /\ RemoveAt(s, i) \in Seq(S)
         /\ \A j \in DOMAIN RemoveAt(s, i) : \E k \in DOMAIN s : RemoveAt(s, i)[j] = s[k]
<1> DEFINE a == SubSeq(s, 1, i - 1)
           b == SubSeq(s, i + 1, Len(s))
<1>1. i \in 1..Len(s) /\ Len(s) \in Nat /\ \A j \in 1..Len(s) : s[j] \in S
  BY LenProperties
<1>2. /\ a \in Seq(S) /\ Len(a) = i - 1
      /\ \A j \in 1..(i - 1) : a[j] = s[j]
  <2>1. \A j \in 1..(i - 1) : s[j] \in S
    BY <1>1
  <2>2. /\ a \in Seq(S) /\ Len(a) = IF 1 <= i - 1 THEN i - 1 - 1 + 1 ELSE 0
        /\ \A j \in 1..(i - 1 - 1 + 1) : a[j] = s[1 + j - 1]
    BY <1>1, <2>1, SubSeqProperties
  <2>3. QED BY <1>1, <2>2
<1>3. /\ b \in Seq(S) /\ Len(b) = Len(s) - i
      /\ \A j \in 1..(Len(s) - i) : b[j] = s[i + j]
  <2>1. \A j \in (i + 1)..Len(s) : s[j] \in S
    BY <1>1
  <2>2. /\ b \in Seq(S)
        /\ Len(b) = IF i + 1 <= Len(s) THEN Len(s) - (i + 1) + 1 ELSE 0
        /\ \A j \in 1..(Len(s) - (i + 1) + 1) : b[j] = s[i + 1 + j - 1]
    BY <1>1, <2>1, SubSeqProperties
  <2>3. QED BY <1>1, <2>2
<1> HIDE DEF a, b
<1>4. /\ a \o b \in Seq(S) /\ Len(a \o b) = Len(a) + Len(b)
      /\ \A j \in 1..(Len(a) + Len(b)) :
           (a \o b)[j] = IF j <= Len(a) THEN a[j] ELSE b[j - Len(a)]
  BY <1>2, <1>3, ConcatProperties
<1>5. ASSUME NEW j \in 1..(Len(a) + Len(b))
      PROVE  \E k \in 1..Len(s) : (a \o b)[j] = s[k]
  <2>1. CASE j <= Len(a)
    <3>1. j \in 1..(i - 1) /\ j \in 1..Len(s)
      BY <1>1, <1>2, <2>1
    <3>2. (a \o b)[j] = a[j]
      BY <1>4, <2>1
    <3>3. QED BY <1>2, <3>1, <3>2
  <2>2. CASE j > Len(a)
    <3>1. Len(a) \in Int /\ Len(b) \in Int /\ Len(b) = Len(s) - i
      BY <1>1, <1>2, <1>3
    <3>2. \A x, y, z \in Int : z \in 1..(x + y) /\ z > x => z - x \in 1..y
      OBVIOUS
    <3>3. j - Len(a) \in 1..Len(b)
      BY <2>2, <3>1, <3>2
    <3>4. PICK d \in 1..(Len(s) - i) : d = j - Len(a)
      BY <3>1, <3>3
    <3>5. i + d \in 1..Len(s)
      BY <1>1
    <3>6. (a \o b)[j] = b[d] /\ b[d] = s[i + d]
      BY <1>3, <1>4, <2>2, <3>1, <3>4
    <3>7. QED BY <3>5, <3>6
  <2>3. j \in Int /\ Len(a) \in Int
    BY <1>1, <1>2
  <2>4. QED BY <2>1, <2>2, <2>3
<1>6. DOMAIN (a \o b) = 1..(Len(a) + Len(b)) /\ DOMAIN s = 1..Len(s)
  BY <1>4, LenProperties
<1>7. RemoveAt(s, i) = a \o b
  BY DEF RemoveAt, a, b
<1>8. QED BY <1>4, <1>5, <1>6, <1>7

\* What an element added, a first element gone, or a bigger set of elements
\* does to a sequence.
LEMMA QueueSteps ==
  ASSUME NEW S, NEW s \in Seq(S)
  PROVE  /\ \A e \in S : /\ Append(s, e) \in Seq(S) /\ Append(s, e) # <<>>
                         /\ Last(Append(s, e)) = e
                         /\ \A i \in DOMAIN Append(s, e) :
                              Append(s, e)[i] = e \/ \E k \in DOMAIN s : Append(s, e)[i] = s[k]
         /\ s # <<>> => /\ Head(s) \in S /\ Tail(s) \in Seq(S)
                        /\ Tail(s) = <<>> => Last(s) = Head(s)
                        /\ Tail(s) # <<>> => Last(Tail(s)) = Last(s)
<1>1. ASSUME NEW e \in S
      PROVE  /\ Append(s, e) \in Seq(S) /\ Append(s, e) # <<>>
             /\ Last(Append(s, e)) = e
             /\ \A i \in DOMAIN Append(s, e) :
                  Append(s, e)[i] = e \/ \E k \in DOMAIN s : Append(s, e)[i] = s[k]
  BY AppendProperties, LenProperties DEF Last
<1>2. ASSUME s # <<>>
      PROVE  /\ Head(s) \in S /\ Tail(s) \in Seq(S)
             /\ Tail(s) = <<>> => Last(s) = Head(s)
             /\ Tail(s) # <<>> => Last(Tail(s)) = Last(s)
  <2>1. /\ Head(s) \in S /\ Tail(s) \in Seq(S) /\ Len(Tail(s)) = Len(s) - 1
        /\ \A i \in 1..Len(Tail(s)) : Tail(s)[i] = s[i + 1]
    BY <1>2, HeadTailProperties
  <2>2. Len(s) \in Nat /\ Len(s) # 0 /\ Head(s) = s[1]
    BY <1>2
  <2>3. ASSUME Tail(s) = <<>>
        PROVE  Last(s) = Head(s)
    <3>1. Len(Tail(s)) = 0 /\ Len(Tail(s)) = Len(s) - 1
      BY <2>1, <2>3, EmptySeq
    <3>2. Len(s) = 1
      BY <2>2, <3>1
    <3>3. QED BY <2>2, <3>2 DEF Last
  <2>4. ASSUME Tail(s) # <<>>
        PROVE  Last(Tail(s)) = Last(s)
    <3>1. Len(Tail(s)) \in Nat /\ Len(Tail(s)) # 0
      BY <2>1, <2>4
    <3>2. Tail(s)[Len(Tail(s))] = s[Len(s)]
      BY <2>1, <2>2, <3>1
    <3>3. QED BY <3>2 DEF Last
  <2>5. QED BY <2>1, <2>3, <2>4
<1>3. QED BY <1>1, <1>2

\* The page, the backend and the chain start empty.
LEMMA InitIInv == Init => IInv
<1> SUFFICES ASSUME Init PROVE IInv
  OBVIOUS
<1>1. TypeOK
  <2>1. prompts \in Seq(Prompts) /\ queue \in Seq(Bindings \cup {None})
    BY EmptySeq DEF Init
  <2>2. 0 \in 0..MaxNonce /\ 0 \in 0..MaxReload /\ 0 \in 0..0
    BY IdentityAssumption
  <2>3. QED BY <2>1, <2>2 DEF Init, TypeOK
<1>2. WayForward /\ Earned
  BY EmptySeq DEF Init, WayForward, Earned, Known
<1>3. Current
  BY DEF Init, Current
<1>4. QED BY <1>1, <1>2, <1>3 DEF IInv
-----------------------------------------------------------------------------
\* A challenge that is asked for is new.
LEMMA SignKeeps ==
  ASSUME IInv, NEW x \in Xrpls, Sign(x)
  PROVE  IInv'
<1> USE DEF Sign, pageVars, bootVars, chainVars
<1>1. nonces \in Nat /\ nonces' \in 1..MaxNonce /\ nonces' = nonces + 1
      /\ challenge' = nonces' /\ MaxNonce \in Nat
  BY IdentityAssumption DEF IInv, TypeOK
<1>2. [xrpl |-> x, nonce |-> nonces + 1] \in Issued
  BY <1>1 DEF Bindings, Issued
<1>3. \A v \in verified : v.nonce \in Nat /\ v.nonce <= nonces
  BY IdentityAssumption DEF IInv, TypeOK, Earned, Bindings, Issued
<1>4. TypeOK'
  BY <1>1, <1>2 DEF IInv, TypeOK
<1>5. Earned'
  BY <1>1, <1>3 DEF IInv, Earned, Known
<1>6. WayForward' /\ (~overtaken => Current)'
  BY DEF IInv, WayForward, Current, Final
<1>7. QED BY <1>4, <1>5, <1>6 DEF IInv

\* A signature that is verified answers the one open challenge.
LEMMA VerifyKeeps ==
  ASSUME IInv, NEW s \in signings, Verify(s)
  PROVE  IInv'
<1> USE DEF Verify, pageVars, bootVars, chainVars
<1>1. s \in Issued /\ s \in Bindings /\ s.nonce = challenge /\ s.nonce \in Nat \ {0}
      /\ nonces \in Nat /\ challenge \in 0..nonces
  BY IdentityAssumption DEF IInv, TypeOK, Bindings, Issued
<1>2. /\ verified \subseteq Issued
      /\ \A v \in verified : v.nonce \in Nat \ {0} /\ v.nonce <= nonces /\ v.nonce # s.nonce
  BY <1>1, IdentityAssumption DEF IInv, TypeOK, Earned, Bindings, Issued
<1>3. \A a, b \in verified' : a.nonce = b.nonce => a = b
  BY <1>2 DEF IInv, TypeOK
<1>4. TypeOK'
  <2>1. answers' \subseteq verified' /\ signings' \subseteq Issued /\ verified' \subseteq Issued
    BY <1>1, <1>2 DEF IInv, TypeOK
  <2>2. challenge' \in 0..nonces'
    BY <1>1
  <2>3. QED BY <1>3, <2>1, <2>2 DEF IInv, TypeOK
<1>5. Known \subseteq Known' /\ verified \subseteq verified' /\ s \in verified'
  BY DEF Known
<1>6. Earned'
  <2>1. [hash : Known, live : BOOLEAN] \subseteq [hash : Known', live : BOOLEAN]
    BY <1>5
  <2>2. prompts \in Seq([hash : Known', live : BOOLEAN]) /\ queue \in Seq(Known')
    BY <1>5, <2>1, SeqMonotonic DEF IInv, Earned
  <2>3. \A v \in verified' : v.nonce <= nonces /\ v.nonce # 0
    BY <1>1, <1>2
  <2>4. QED BY <1>5, <2>2, <2>3 DEF IInv, Earned, Known
<1>7. WayForward' /\ (~overtaken => Current)'
  BY DEF IInv, WayForward, Current, Final
<1>8. QED BY <1>4, <1>6, <1>7 DEF IInv

\* btn-sign goes on with a binding that was verified, whatever the page holds.
LEMMA SignedKeeps ==
  ASSUME IInv, NEW s \in answers, Signed(s)
  PROVE  IInv'
<1> USE DEF Signed, bootVars, chainVars
<1>1. s \in verified /\ s \in Bindings /\ s # None
  BY IdentityAssumption DEF IInv, TypeOK, Issued
<1>2. TypeOK'
  BY <1>1 DEF IInv, TypeOK
<1>3. Earned'
  BY <1>1 DEF IInv, Earned, Known
<1>4. WayForward' /\ (~overtaken => Current)'
  BY <1>1 DEF IInv, WayForward, Current, Final
<1>5. QED BY <1>2, <1>3, <1>4 DEF IInv

\* What comes from elsewhere widens what is known.
LEMMA OutsideGrows ==
  ASSUME IInv, outside \subseteq outside', verified' = verified
  PROVE  /\ Known \subseteq Known'
         /\ prompts \in Seq([hash : Known', live : BOOLEAN]) /\ queue \in Seq(Known')
<1>1. Known \subseteq Known'
  BY DEF Known
<1>2. [hash : Known, live : BOOLEAN] \subseteq [hash : Known', live : BOOLEAN]
  BY <1>1
<1>3. QED BY <1>1, <1>2, SeqMonotonic DEF IInv, Earned

\* A transaction sent elsewhere overtakes the page.
LEMMA SendElsewhereKeeps ==
  ASSUME IInv, NEW hash \in verified \cup Foreign \cup {None}, SendElsewhere(hash)
  PROVE  IInv'
<1> USE DEF SendElsewhere, signVars
<1>1. hash \in Bindings \cup {None} /\ verified' = verified /\ outside \subseteq outside'
      /\ outside' \subseteq Foreign
  BY IdentityAssumption DEF IInv, TypeOK, Issued
<1>2. hash \in Known'
  BY <1>1 DEF Known
<1>3. /\ Known \subseteq Known'
      /\ prompts \in Seq([hash : Known', live : BOOLEAN]) /\ queue \in Seq(Known')
  BY <1>1, OutsideGrows
<1>4. queue' \in Seq(Known') /\ queue' \in Seq(Bindings \cup {None})
  BY <1>1, <1>2, <1>3, QueueSteps DEF IInv, TypeOK
<1>5. TypeOK'
  BY <1>1, <1>4 DEF IInv, TypeOK
<1>6. Earned'
  BY <1>1, <1>3, <1>4 DEF IInv, Earned
<1>7. WayForward' /\ overtaken'
  BY DEF IInv, WayForward
<1>8. QED BY <1>5, <1>6, <1>7 DEF IInv

\* A file brings a binding that was verified, or one from outside.
LEMMA ImportKeeps ==
  ASSUME IInv, NEW b \in verified \cup Foreign, Import(b)
  PROVE  IInv'
<1> USE DEF Import, Restored, bootVars, signVars, chainVars
<1>1. b \in Bindings /\ b # None /\ verified' = verified /\ outside \subseteq outside'
      /\ outside' \subseteq Foreign
  BY IdentityAssumption DEF IInv, TypeOK, Issued
<1>2. binding' \in Known'
  BY <1>1 DEF Known
<1>3. /\ Known \subseteq Known'
      /\ prompts \in Seq([hash : Known', live : BOOLEAN]) /\ queue \in Seq(Known')
  BY <1>1, OutsideGrows
<1>4. TypeOK'
  BY <1>1 DEF IInv, TypeOK
<1>5. Earned'
  <2>1. prompts' = prompts /\ queue' = queue /\ bindingOf' = bindingOf /\ accepted' = accepted
        /\ nonces' = nonces /\ challenge' = challenge
    OBVIOUS
  <2>2. QED BY <1>1, <1>2, <1>3, <2>1 DEF IInv, Earned
<1>6. WayForward' /\ (~overtaken => Current)'
  BY <1>1 DEF IInv, WayForward, Current, Final
<1>7. QED BY <1>4, <1>5, <1>6 DEF IInv

\* A window that opens asks for a binding that was verified, or for none.
LEMMA AskKeeps ==
  ASSUME IInv, NEW hash \in Known, hash \in Bindings \cup {None}, Usable, Ask(hash)
  PROVE  IInv'
<1> USE DEF Ask, pageVars, bootVars, signVars
<1> DEFINE p == [hash |-> hash, live |-> TRUE]
<1>1. p \in Prompts /\ p \in [hash : Known, live : BOOLEAN] /\ p.live
  BY DEF Prompts
<1>2. prompts' = Append(prompts, p)
  OBVIOUS
<1> HIDE DEF p
<1>3. prompts \in Seq(Prompts) /\ prompts \in Seq([hash : Known, live : BOOLEAN])
  BY DEF IInv, TypeOK, Earned
<1>4. prompts' \in Seq(Prompts) /\ prompts' \in Seq([hash : Known, live : BOOLEAN])
  BY <1>1, <1>2, <1>3, QueueSteps
<1>5. \A i \in DOMAIN prompts' : prompts'[i] = p \/ \E k \in DOMAIN prompts : prompts'[i] = prompts[k]
  BY <1>1, <1>2, <1>3, QueueSteps
<1>6. TypeOK'
  BY <1>4 DEF IInv, TypeOK
<1>7. Earned'
  BY <1>4 DEF IInv, Earned, Known
<1>8. WayForward' /\ (~overtaken => Current)'
  BY <1>1, <1>5 DEF IInv, WayForward, Current, Final, Usable
<1>9. QED BY <1>6, <1>7, <1>8 DEF IInv

\* A window that is confirmed decides what the page shows, if it is the page's.
LEMMA ConfirmKeeps ==
  ASSUME IInv, NEW i \in DOMAIN prompts, Confirm(i)
  PROVE  IInv'
<1> USE DEF Confirm, bootVars, signVars
<1>1. prompts \in Seq(Prompts) /\ prompts \in Seq([hash : Known, live : BOOLEAN])
      /\ queue \in Seq(Known) /\ queue \in Seq(Bindings \cup {None})
  BY DEF IInv, TypeOK, Earned
<1>2. prompts[i] \in Prompts /\ prompts[i] \in [hash : Known, live : BOOLEAN]
  BY <1>1, ElementOfSeq, LenProperties
<1>3. prompts[i].hash \in Bindings \cup {None} /\ prompts[i].hash \in Known
      /\ prompts[i].live \in BOOLEAN
  BY <1>2 DEF Prompts
<1>4. prompts' \in Seq(Prompts) /\ prompts' \in Seq([hash : Known, live : BOOLEAN])
  BY <1>1, RemoveAtProperties
<1>5. \A j \in DOMAIN prompts' : \E k \in DOMAIN prompts : prompts'[j] = prompts[k]
  BY <1>1, RemoveAtProperties
<1>6. queue' \in Seq(Known) /\ queue' \in Seq(Bindings \cup {None})
      /\ queue' # <<>> /\ Last(queue') = prompts[i].hash
  BY <1>1, <1>3, QueueSteps
<1>7. /\ ~prompts[i].live => UNCHANGED <<linkedShown, linkEnabled>>
      /\ prompts[i].live /\ prompts[i].hash # None => AfterLink
      /\ prompts[i].live /\ prompts[i].hash = None => AfterUnlink
  BY <1>3
<1>8. linkedShown' \in BOOLEAN /\ linkEnabled' \in BOOLEAN
  BY <1>3, <1>7 DEF IInv, TypeOK, AfterLink, AfterUnlink
<1>9. TypeOK'
  BY <1>4, <1>6, <1>8 DEF IInv, TypeOK
<1>10. WayForward'
  <2>1. WayForward /\ binding' = binding
    BY DEF IInv
  <2>2. CASE ~prompts[i].live
    BY <1>7, <2>1, <2>2 DEF WayForward
  <2>3. CASE prompts[i].live /\ prompts[i].hash # None
    BY <1>7, <2>1, <2>3 DEF WayForward, AfterLink
  <2>4. CASE prompts[i].live /\ prompts[i].hash = None
    BY <1>7, <2>1, <2>4 DEF WayForward, AfterUnlink
  <2>5. QED BY <1>3, <2>2, <2>3, <2>4
<1>11. Earned'
  BY <1>4, <1>6 DEF IInv, Earned, Known
<1>12. ASSUME ~overtaken
       PROVE  Current'
  <2>1. Current /\ prompts[i].live /\ prompts # <<>>
    BY <1>1, <1>12, LenProperties DEF IInv, Current
  <2>2. linkedShown' => prompts[i].hash # None
    BY <1>7, <2>1 DEF AfterLink, AfterUnlink
  <2>3. QED BY <1>5, <1>6, <2>1, <2>2 DEF Current, Final
<1>13. QED BY <1>9, <1>10, <1>11, <1>12 DEF IInv

\* A window that is refused leaves no trace.
LEMMA RefuseKeeps ==
  ASSUME IInv, NEW i \in DOMAIN prompts, Refuse(i)
  PROVE  IInv'
<1> USE DEF Refuse, pageVars, bootVars, signVars
<1>1. prompts \in Seq(Prompts) /\ prompts \in Seq([hash : Known, live : BOOLEAN])
  BY DEF IInv, TypeOK, Earned
<1>2. prompts' \in Seq(Prompts) /\ prompts' \in Seq([hash : Known, live : BOOLEAN])
  BY <1>1, RemoveAtProperties
<1>3. \A j \in DOMAIN prompts' : \E k \in DOMAIN prompts : prompts'[j] = prompts[k]
  BY <1>1, RemoveAtProperties
<1>4. prompts # <<>>
  BY <1>1, LenProperties
<1>5. TypeOK' /\ Earned'
  BY <1>2 DEF IInv, TypeOK, Earned, Known
<1>6. WayForward' /\ (~overtaken => Current)'
  BY <1>3, <1>4 DEF IInv, WayForward, Current, Final
<1>7. QED BY <1>5, <1>6 DEF IInv

\* A transaction that is mined was on its way to be the registry's entry.
LEMMA MineKeeps ==
  ASSUME IInv, Mine
  PROVE  IInv'
<1> USE DEF Mine, pageVars, bootVars, signVars
<1>1. queue \in Seq(Known) /\ queue \in Seq(Bindings \cup {None}) /\ queue # <<>>
  BY DEF IInv, TypeOK, Earned
<1>2. /\ bindingOf' \in Known /\ queue' \in Seq(Known)
      /\ bindingOf' \in Bindings \cup {None} /\ queue' \in Seq(Bindings \cup {None})
  BY <1>1, QueueSteps
<1>3. Final' = Final
  BY <1>1, QueueSteps DEF Final
<1>4. TypeOK' /\ Earned'
  BY <1>2 DEF IInv, TypeOK, Earned, Known
<1>5. WayForward' /\ (~overtaken => Current)'
  BY <1>1, <1>3 DEF IInv, WayForward, Current
<1>6. QED BY <1>4, <1>5 DEF IInv
\* A load leaves nothing of the page but its binding; with nothing open, the
\* page owns all that comes after.
LEMMA ReloadKeeps ==
  ASSUME IInv, Reload
  PROVE  IInv'
<1> USE DEF Reload
<1>1. prompts \in Seq(Prompts) /\ prompts \in Seq([hash : Known, live : BOOLEAN])
      /\ queue \in Seq(Known) /\ Len(prompts) \in Nat /\ Len(queue) \in Nat
  BY LenProperties DEF IInv, TypeOK, Earned
<1>2. \A i \in DOMAIN prompts : /\ prompts[i] \in Prompts
                                /\ prompts[i] \in [hash : Known, live : BOOLEAN]
  BY <1>1, ElementOfSeq, LenProperties
<1>3. DOMAIN prompts = 1..Len(prompts) /\ DOMAIN prompts' = 1..Len(prompts)
  BY <1>1, LenProperties
<1>4. \A i \in DOMAIN prompts' : /\ prompts'[i] \in Prompts
                                 /\ prompts'[i] \in [hash : Known, live : BOOLEAN]
  BY <1>2 DEF Prompts
<1>5. prompts' \in Seq(Prompts) /\ prompts' \in Seq([hash : Known, live : BOOLEAN])
  <2>1. prompts' = [i \in 1..Len(prompts) |-> prompts'[i]]
    BY <1>3
  <2>2. QED BY <1>1, <1>3, <1>4, <2>1, IsASeq
<1>6. TypeOK'
  <2>1. reloads' \in 0..MaxReload
    BY IdentityAssumption DEF IInv, TypeOK
  <2>2. overtaken' \in BOOLEAN /\ linkEnabled' \in BOOLEAN
    <3>1. overtaken' = (Pending > 0) /\ linkEnabled' = (binding # None)
      BY Zenon
    <3>2. overtaken' = TRUE \/ overtaken' = FALSE
      <4>1. CASE Len(prompts) + Len(queue) > 0
        BY <1>1, <3>1, <4>1 DEF Pending
      <4>2. CASE ~(Len(prompts) + Len(queue) > 0)
        BY <1>1, <3>1, <4>2 DEF Pending
      <4>3. QED BY <4>1, <4>2
    <3>3. linkEnabled' = TRUE \/ linkEnabled' = FALSE
      BY <3>1, Zenon
    <3>4. QED BY <3>2, <3>3
  <2>3. QED BY <1>5, <2>1, <2>2 DEF IInv, TypeOK
<1>7. Earned'
  BY <1>5 DEF IInv, Earned, Known
<1>8. WayForward'
  BY DEF WayForward
<1>9. ASSUME ~overtaken'
      PROVE  Current'
  <2>1. Len(prompts) = 0 /\ Len(queue) = 0
    <3>1. ~(Pending > 0)
      BY <1>9, Zenon
    <3>2. QED BY <1>1, <3>1 DEF Pending
  <2>2. prompts = <<>> /\ queue' = <<>> /\ DOMAIN prompts' = {}
    BY <1>1, <1>3, <2>1, EmptySeq
  <2>3. prompts' = <<>>
    BY <1>5, <2>2, LenProperties, EmptySeq
  <2>4. QED BY <2>2, <2>3 DEF Current
<1>10. QED BY <1>6, <1>7, <1>8, <1>9 DEF IInv

\* The reads of a page that owns all there is find what the chain will hold.
LEMMA ReadKeeps ==
  ASSUME IInv, ReadIdentity \/ \E answered \in BOOLEAN : RefreshIdentity(answered)
  PROVE  IInv'
<1> USE DEF signVars, chainVars
<1>1. CASE ReadIdentity
  <2> USE DEF ReadIdentity
  <2>1. TypeOK' /\ Earned'
    BY <1>1 DEF IInv, TypeOK, Earned, Known
  <2>2. WayForward' /\ (~overtaken => Current)'
    BY <1>1 DEF IInv, WayForward, Current, Final
  <2>3. QED BY <2>1, <2>2 DEF IInv
<1>2. ASSUME NEW answered \in BOOLEAN, RefreshIdentity(answered)
      PROVE  IInv'
  <2> USE <1>2 DEF RefreshIdentity
  <2>1. CASE answered /\ boot = "linked"
    <3>1. TypeOK' /\ Earned'
      BY <2>1 DEF IInv, TypeOK, Earned, Known, AfterLink
    <3>2. WayForward' /\ (~overtaken => Current)'
      BY <2>1 DEF IInv, WayForward, Current, Final, AfterLink
    <3>3. QED BY <3>1, <3>2 DEF IInv
  <2>2. CASE ~(answered /\ boot = "linked")
    <3>1. TypeOK' /\ Earned'
      BY <2>2 DEF IInv, TypeOK, Earned, Known
    <3>2. WayForward' /\ (~overtaken => Current)'
      BY <2>2 DEF IInv, WayForward, Current, Final
    <3>3. QED BY <3>1, <3>2 DEF IInv
  <2>3. QED BY <2>1, <2>2
<1>3. QED BY <1>1, <1>2

\* The other operations hand on what there is.
LEMMA PageKeeps ==
  ASSUME IInv,
         \/ \E s \in signings : SignFails(s)
         \/ ResetSign
         \/ \E b \in verified \cup Foreign \cup ({binding} \ {None}) : HandleScore(b)
  PROVE  IInv'
<1> USE DEF pageVars, bootVars, signVars, chainVars
<1>1. ASSUME NEW s \in signings, SignFails(s)
      PROVE  IInv'
  BY <1>1 DEF SignFails, IInv, TypeOK, WayForward, Earned, Known, Current, Final
<1>2. CASE ResetSign
  BY <1>2 DEF ResetSign, IInv, TypeOK, WayForward, Earned, Known, Current, Final
<1>3. ASSUME NEW b \in verified \cup Foreign \cup ({binding} \ {None}), HandleScore(b)
      PROVE  IInv'
  <2>1. b \in Bindings /\ b # None /\ b = bindingOf
    BY <1>3, IdentityAssumption
       DEF HandleScore, CheckBinding, IInv, TypeOK, Issued
  <2>2. b \in verified \cup outside
    BY <2>1 DEF IInv, Earned, Known
  <2>3. QED
    BY <1>3, <2>1, <2>2
       DEF HandleScore, IInv, TypeOK, WayForward, Earned, Known, Current, Final
<1>4. QED BY <1>1, <1>2, <1>3

\* Every step keeps the invariant.
LEMMA NextIInv == IInv /\ [Next]_vars => IInv'
<1> SUFFICES ASSUME IInv, [Next]_vars PROVE IInv'
  OBVIOUS
<1>1. CASE UNCHANGED vars
  BY <1>1 DEF vars, pageVars, bootVars, signVars, chainVars, IInv, TypeOK,
              WayForward, Earned, Known, Current, Final
<1>2. CASE Link
  BY <1>2, AskKeeps DEF Link, IInv, TypeOK, Earned
<1>3. CASE Unlink
  BY <1>3, AskKeeps DEF Unlink, Known
<1>4. QED
  BY <1>1, <1>2, <1>3, SignKeeps, SignedKeeps, ConfirmKeeps, RefuseKeeps, MineKeeps,
     ReloadKeeps, ReadKeeps, VerifyKeeps, SendElsewhereKeeps, ImportKeeps, PageKeeps DEF Next

\* Every reachable state satisfies the inductive invariant.
LEMMA Invariance == Spec => []IInv
BY InitIInv, NextIInv, PTL DEF Spec
-----------------------------------------------------------------------------
\* Type correctness: in particular, no challenge is ever answered twice.
THEOREM TypeCorrect == Spec => []TypeOK
<1>1. IInv => TypeOK
  BY DEF IInv
<1>2. QED BY <1>1, Invariance, PTL

\* Whatever was clicked, confirmed, refused or answered late, the Link button
\* works exactly when there is a binding that can be linked.
THEOREM PageHasWayForward == Spec => []WayForward
<1>1. IInv => WayForward
  BY DEF IInv
<1>2. QED BY <1>1, Invariance, PTL

\* A binding that the enclave scores for and that nobody verified was brought by
\* a file that the page did not write or a transaction that it did not send.
THEOREM UnverifiedWereBrought == Spec => []UnverifiedCameFromOutside
<1>1. IInv => UnverifiedCameFromOutside
  BY DEF IInv, Earned, UnverifiedCameFromOutside
<1>2. QED BY <1>1, Invariance, PTL

\* With nothing open, the entry of the registry is what was sent last.
LEMMA SettledShowsFinal ==
  ASSUME IInv, Settled, linkedShown, ~overtaken
  PROVE  bindingOf # None
<1>1. queue \in Seq(Known) /\ prompts \in Seq(Prompts)
  BY DEF IInv, TypeOK, Earned
<1>2. Len(queue) \in Nat /\ Len(prompts) \in Nat /\ Len(queue) + Len(prompts) = 0
  BY <1>1, LenProperties DEF Settled, Pending
<1>3. queue = <<>>
  BY <1>1, <1>2, EmptySeq
<1>4. QED BY <1>3 DEF IInv, Current, Final

\* A page that says "Linked on Coston2" is right once the open transactions are
\* mined, in whatever order the user confirmed and refused their windows.
THEOREM LinkedIsLinked == Spec => []LinkedShownIsLinked
<1>1. IInv => LinkedShownIsLinked
  BY SettledShowsFinal DEF LinkedShownIsLinked
<1>2. QED BY <1>1, Invariance, PTL

\* A user who signs once, and brings nothing else, can always be scored with
\* what the page shows as linked: all bindings in existence are then the one that
\* was signed.
THEOREM SignedOnceIsEnough == Spec => []OneSignatureLasts
<1>1. ASSUME IInv, nonces = 1, outside = {}, Settled, linkedShown, ~overtaken, binding # None
      PROVE  CheckBinding(binding)
  <2>1. bindingOf # None
    BY <1>1, SettledShowsFinal
  <2>2. binding \in verified /\ bindingOf \in verified
    BY <1>1, <2>1 DEF IInv, Earned, Known
  <2>3. \A v \in verified : v.nonce \in Nat \ {0} /\ v.nonce <= 1
    BY <1>1, IdentityAssumption DEF IInv, TypeOK, Earned, Bindings, Issued
  <2>4. binding.nonce = 1 /\ bindingOf.nonce = 1
    BY <2>2, <2>3
  <2>5. QED BY <1>1, <2>2, <2>4 DEF IInv, TypeOK, CheckBinding
<1>2. IInv => OneSignatureLasts
  BY <1>1 DEF OneSignatureLasts, NoNeedToRepeat
<1>3. QED BY <1>2, Invariance, PTL
=============================================================================
