-------------------------- MODULE RelayerKey_proofs --------------------------
(***************************************************************************)
(* The systems that send with the relayer key: the relay of scores, and    *)
(* the script that deploys the contracts. In both nobody holds a nonce     *)
(* that the chain has not reached, so the node holds one transaction of    *)
(* the key at most.                                                        *)
(*                                                                         *)
(* First the registry alone: whatever is submitted, it only ever holds     *)
(* scores that were signed for the account they are stored under. Then     *)
(* the relay, which implements the registry's specification: whatever      *)
(* page, server, wallet, enclaves and visitors do, the registry goes       *)
(* through steps of CreditRegistry, so what is proved of it there holds    *)
(* here; the relayer key's transactions never wait behind one another; a   *)
(* late submission never puts an earlier score in a later one's place; and *)
(* the button refuses only what the registry holds.                        *)
(*                                                                         *)
(* Last the script: whatever is pointed at was deployed completely, for    *)
(* any number of its runs and of requests of the backend on the same key,  *)
(* and wherever they stop.                                                 *)
(***************************************************************************)
EXTENDS ScoreRelay, Deployment, TLAPS

\* The inductive invariant: the types say that a registered signer is a key,
\* which neither a missing signature nor a changed digest recovers to.
IInv == TypeOK /\ StoredScoresWereSigned /\ now \in 1..MaxTime

ScoreRecords == [score : 0..1000, expiry : Nat, codeHash : CodeHashes]

\* s becomes the score of account a, signed as it stands by the registered signer.
Accepts(a, s) ==
  /\ scores' = [scores EXCEPT ![a] = s]
  /\ teeSignerOf' = teeSignerOf /\ now' = now /\ signed' = signed
  /\ teeSignerOf[s.codeHash] \in Keys
  /\ s.expiry > now
  /\ \E sig \in signed : /\ sig.key = teeSignerOf[s.codeHash]
                         /\ SpeaksOf(sig.digest, a, s)

\* An accepted submission was signed, as it stands, by the registered signer.
LEMMA AcceptedWasSigned ==
  ASSUME TypeOK, Submission
  PROVE  \E a \in Accounts, s \in ScoreRecords : Accepts(a, s)
<1>1. PICK d \in {s.digest : s \in signed}, a \in Subjects :
        \E sig \in signed \cup {[key |-> NoKey, digest |-> [d EXCEPT !.subject = a]]} :
          SubmitScore(a, d.score, d.expiry, d.codeHash, sig)
  BY DEF Submission
<1>2. PICK sig \in signed \cup {[key |-> NoKey, digest |-> [d EXCEPT !.subject = a]]} :
        SubmitScore(a, d.score, d.expiry, d.codeHash, sig)
  BY <1>1
<1>3. d \in Digests
  BY DEF TypeOK
<1>4. a \in Accounts
  BY RegistryAssumption
<1> DEFINE s == [score |-> d.score, expiry |-> d.expiry, codeHash |-> d.codeHash]
<1>5. s \in ScoreRecords
  BY <1>2, <1>3 DEF SubmitScore, Acceptable, Digests, ScoreRecords
<1>6. teeSignerOf[d.codeHash] \in Keys
  BY <1>2, <1>3 DEF SubmitScore, Acceptable, TypeOK, Digests
<1>7. /\ sig.digest = Digest(a, d.score, d.expiry, d.codeHash)
      /\ sig.key = teeSignerOf[d.codeHash]
  BY <1>2, <1>6, RegistryAssumption DEF SubmitScore, Acceptable, Recover
<1>8. sig \in signed
  BY <1>6, <1>7, RegistryAssumption
<1>9. SpeaksOf(sig.digest, a, s)
  BY <1>7 DEF Digest, SpeaksOf
<1>10. scores' = [scores EXCEPT ![a] = s] /\ UNCHANGED <<teeSignerOf, now, signed>>
       /\ d.expiry > now
  BY <1>2 DEF SubmitScore, Acceptable
<1>11. s.codeHash = d.codeHash /\ s.expiry = d.expiry
  OBVIOUS
<1> HIDE DEF s
<1>12. teeSignerOf[s.codeHash] \in Keys /\ s.expiry > now
  BY <1>6, <1>10, <1>11
<1>13. sig.key = teeSignerOf[s.codeHash]
  BY <1>7, <1>11
<1>14. \E w \in signed : w.key = teeSignerOf[s.codeHash] /\ SpeaksOf(w.digest, a, s)
  BY <1>8, <1>9, <1>13
<1>15. Accepts(a, s)
  BY <1>10, <1>12, <1>14 DEF Accepts
<1>16. QED BY <1>4, <1>5, <1>15

\* The registry starts empty.
LEMMA InitIInv == Init => IInv
BY RegistryAssumption
   DEF Init, IInv, TypeOK, StoredScoresWereSigned, NoScore

\* Every step keeps the invariant.
LEMMA NextIInv == IInv /\ [Next]_registryVars => IInv'
<1> SUFFICES ASSUME IInv, [Next]_registryVars PROVE IInv'
  OBVIOUS
<1>1. CASE Registration
  <2>1. PICK h \in CodeHashes, k \in Keys \cup {NoKey} :
          teeSignerOf' = [teeSignerOf EXCEPT ![h] = k]
          /\ UNCHANGED <<scores, now, signed>>
    BY <1>1 DEF Registration, RegisterTeeSigner
  <2>2. TypeOK'
    BY <2>1 DEF IInv, TypeOK
  <2>3. StoredScoresWereSigned'
    BY <2>1 DEF IInv, StoredScoresWereSigned
  <2>4. QED BY <2>1, <2>2, <2>3 DEF IInv
<1>2. CASE EnclaveStep
  <2>1. PICK k \in Keys, a \in Subjects, v \in ScoreValues, h \in CodeHashes :
          EnclaveSigns(k, a, v, h)
    BY <1>2 DEF EnclaveStep
  <2>2. [key |-> k, digest |-> Digest(a, v, now + Validity, h)]
          \in [key : Keys, digest : Digests]
    BY RegistryAssumption DEF Digest, Digests, IInv, TypeOK
  <2>3. TypeOK'
    BY <2>1, <2>2 DEF EnclaveSigns, IInv, TypeOK
  <2>4. signed \subseteq signed' /\ scores' = scores
    BY <2>1 DEF EnclaveSigns
  <2>5. StoredScoresWereSigned'
    BY <2>4 DEF IInv, StoredScoresWereSigned
  <2>6. now' = now
    BY <2>1 DEF EnclaveSigns
  <2>7. QED BY <2>3, <2>5, <2>6 DEF IInv
<1>3. CASE Submission
  <2>1. PICK a \in Accounts, s \in ScoreRecords : Accepts(a, s)
    BY <1>3, AcceptedWasSigned DEF IInv
  <2>2. TypeOK'
    <3>1. /\ scores' = [scores EXCEPT ![a] = s]
          /\ teeSignerOf' = teeSignerOf /\ now' = now /\ signed' = signed
      BY <2>1 DEF Accepts
    <3> DEFINE Stored == [score : 0..1000, expiry : Nat, codeHash : CodeHashes \cup {NoHash}]
    <3>2. s \in Stored
      BY DEF ScoreRecords
    <3> HIDE DEF Stored
    <3>3. scores \in [Accounts -> Stored]
      BY DEF IInv, TypeOK, Stored
    <3>4. scores' \in [Accounts -> Stored]
      BY <3>1, <3>2, <3>3
    <3>5. QED BY <3>1, <3>4 DEF IInv, TypeOK, Stored
  <2>3. ASSUME NEW b \in Accounts, scores'[b] # NoScore
        PROVE  \E sig \in signed' : SpeaksOf(sig.digest, b, scores'[b])
    <3>1. CASE b = a
      BY <2>1, <3>1 DEF IInv, TypeOK, Accepts
    <3>2. CASE b # a
      BY <2>1, <2>3, <3>2 DEF IInv, TypeOK, StoredScoresWereSigned, Accepts
    <3>3. QED BY <3>1, <3>2
  <2>4. StoredScoresWereSigned'
    BY <2>3 DEF StoredScoresWereSigned
  <2>5. now' = now
    BY <2>1 DEF Accepts
  <2>6. QED BY <2>2, <2>4, <2>5 DEF IInv
<1>4. CASE Tick
  <2>1. TypeOK'
    BY <1>4 DEF Tick, IInv, TypeOK
  <2>2. StoredScoresWereSigned'
    BY <1>4 DEF Tick, IInv, StoredScoresWereSigned
  <2>3. now' \in 1..MaxTime
    BY <1>4, RegistryAssumption DEF Tick, IInv
  <2>4. QED BY <2>1, <2>2, <2>3 DEF IInv
<1>5. CASE UNCHANGED registryVars
  BY <1>5 DEF registryVars, IInv, TypeOK, StoredScoresWereSigned
<1>6. QED BY <1>1, <1>2, <1>3, <1>4, <1>5 DEF Next

\* Every reachable state of the registry satisfies the inductive invariant.
LEMMA Invariance == Spec => []IInv
BY InitIInv, NextIInv, PTL DEF Spec

\* Type correctness: a stored score is in 0..1000 and a signer is a key or none.
THEOREM TypeCorrect == Spec => []TypeOK
<1>1. IInv => TypeOK
  BY DEF IInv
<1>2. QED BY <1>1, Invariance, PTL

\* Every stored score was signed for the account that holds it, for any number
\* of accounts, keys and code hashes and any sequence of submissions.
THEOREM ScoresWereSigned == Spec => []StoredScoresWereSigned
<1>1. IInv => StoredScoresWereSigned
  BY DEF IInv
<1>2. QED BY <1>1, Invariance, PTL

\* What a step may do to a stored score.
LEMMA StepAccepts ==
  ASSUME TypeOK, Next, NEW a \in Accounts, scores'[a] # scores[a]
  PROVE  LET s == scores'[a] IN
         /\ teeSignerOf[s.codeHash] \in Keys
         /\ \E sig \in signed : /\ sig.key = teeSignerOf[s.codeHash]
                                /\ SpeaksOf(sig.digest, a, s)
         /\ s.expiry > now
<1>1. Submission
  BY DEF Next, Registration, RegisterTeeSigner, EnclaveStep, EnclaveSigns, Tick
<1>2. PICK b \in Accounts, s \in ScoreRecords : Accepts(b, s)
  BY <1>1, AcceptedWasSigned
<1>3. a = b /\ scores'[a] = s
  BY <1>2 DEF TypeOK, Accepts
<1>4. QED BY <1>2, <1>3 DEF Accepts

\* A score is accepted only from the signer registered at that moment.
THEOREM AcceptsOnlyAttested == Spec => AcceptedOnlyAttested
<1>1. ASSUME IInv, [Next]_registryVars
      PROVE  [AttestedStep]_registryVars
  BY <1>1, StepAccepts DEF IInv, AttestedStep
<1>2. QED BY <1>1, Invariance, PTL DEF Spec, AcceptedOnlyAttested

\* Time and the owner never bring a lapsed score back.
THEOREM LapsedStay == Spec => LapsedStaysLapsed
<1>1. ASSUME IInv, [Next]_registryVars
      PROVE  [NoRevivalStep]_registryVars
  <2>1. SUFFICES ASSUME Next, NEW a \in Accounts, GetScore(a) = NoScore,
                        scores'[a] = scores[a]
                 PROVE  GetScore(a)' = NoScore
    BY <1>1 DEF NoRevivalStep
  <2>2. now \in Nat /\ scores[a].expiry \in Nat /\ (now' = now \/ now' = now + 1)
    <3>1. now \in Nat /\ scores[a].expiry \in Nat
      BY <1>1 DEF IInv, TypeOK
    <3>2. CASE Tick
      BY <3>1, <3>2 DEF Tick
    <3>3. CASE Registration \/ EnclaveStep \/ Submission
      BY <3>1, <3>3 DEF Registration, RegisterTeeSigner, EnclaveStep, EnclaveSigns,
                        Submission, SubmitScore
    <3>4. QED BY <2>1, <3>1, <3>2, <3>3 DEF Next
  <2>3. CASE scores[a].expiry <= now
    BY <2>1, <2>2, <2>3 DEF GetScore
  <2>4. CASE scores[a].expiry > now
    BY <2>1, <2>2, <2>4 DEF GetScore
  <2>5. QED BY <2>2, <2>3, <2>4
<1>2. QED BY <1>1, Invariance, PTL DEF Spec, LapsedStaysLapsed
-----------------------------------------------------------------------------
Stages == {"idle", "scoring", "signed", "submitting", "nonce", "send", "waiting",
           "refreshing", "read", "ended", "refused"}
Kinds == {"none", "click", "instruct", "attest", "auto", "resubmit"}

USE DEF Stages, Kinds

\* The handlers, when `signatures` exist and the key's nonce is n.
CallRecords(signatures, n) ==
  [stage : Stages, kind : Kinds, sent : 0..MaxProofs,
   envelope : signatures \cup {NoEnvelope}, nonce : 0..n, seen : BOOLEAN]

\* The inductive invariant. A handler submits nothing but what was signed, and
\* holds no nonce that the chain has not reached: so a transaction it sends
\* takes the place of the one that waits, if one does.
RInv ==
  /\ IInv
  /\ \A s \in signed : s.digest.subject \in Subjects
  /\ enclave \in [key : Keys, codeHash : CodeHashes]
  /\ page \in [proofs : 0..MaxProofs, envelope : signed \cup {NoEnvelope},
               scoredFp : Int, scoreValid : BOOLEAN]
  /\ wallet \in Seq(Calls)
  /\ mined \in Nat
  /\ calls \in [Calls -> CallRecords(signed, mined)]
  /\ PendingIsNext
  /\ \A s, t \in mempool : s = t

\* The handlers keep their types, and forget nothing that was signed.
HandlersKept ==
  /\ calls' \in [Calls -> CallRecords(signed', mined')]
  /\ page' \in [proofs : 0..MaxProofs, envelope : signed' \cup {NoEnvelope},
                scoredFp : Int, scoreValid : BOOLEAN]
  /\ enclave' \in [key : Keys, codeHash : CodeHashes]
  /\ wallet' \in Seq(Calls)

\* The node's part of the invariant.
KeyKept ==
  /\ mined' \in Nat
  /\ PendingIsNext'
  /\ \A s, t \in mempool' : s = t

\* More signatures and more nonces allow what fewer did.
LEMMA RecordsGrow ==
  ASSUME NEW s, NEW t, s \subseteq t, NEW m \in Nat, NEW n \in Nat, m <= n
  PROVE  CallRecords(s, m) \subseteq CallRecords(t, n)
<1>1. 0..m \subseteq 0..n
  OBVIOUS
<1>2. QED BY <1>1 DEF CallRecords

\* Going on to another stage keeps the types.
LEMMA GoKeeps ==
  ASSUME RInv, NEW c \in Calls, NEW from, NEW to \in Stages, Go(c, from, to)
  PROVE  calls' \in [Calls -> CallRecords(signed, mined)]
<1> DEFINE r == [calls[c] EXCEPT !.stage = to, !.sent = 0, !.nonce = 0, !.seen = FALSE]
<1>1. calls[c] \in CallRecords(signed, mined) /\ 0 \in 0..MaxProofs /\ 0 \in 0..mined
  BY RelayAssumption DEF RInv
<1>2. r \in CallRecords(signed, mined)
  BY <1>1 DEF CallRecords
<1>3. calls' = [calls EXCEPT ![c] = r]
  BY DEF Go, Set
<1> HIDE DEF r
<1>4. QED BY <1>2, <1>3 DEF RInv

\* A handler's record replaced by another one.
LEMMA SetKeeps ==
  ASSUME RInv, NEW c \in Calls, NEW r \in CallRecords(signed, mined), Set(c, r)
  PROVE  calls' \in [Calls -> CallRecords(signed, mined)]
BY DEF RInv, Set

\* When nothing is signed and nothing mined, the types are those of before.
LEMMA QuietKeeps ==
  ASSUME RInv, signed' = signed, mined' = mined,
         calls' \in [Calls -> CallRecords(signed, mined)],
         page' \in [proofs : 0..MaxProofs, envelope : signed \cup {NoEnvelope},
                    scoredFp : Int, scoreValid : BOOLEAN],
         UNCHANGED <<enclave, wallet>>
  PROVE  HandlersKept
BY DEF RInv, HandlersKept
-----------------------------------------------------------------------------
\* The actions of the page, the server and the wallet that sign nothing and
\* mine nothing.
LEMMA ClickKeeps ==
  ASSUME RInv, NEW c \in Calls, Click(c) \/ Refuse(c) \/ Visit(c)
  PROVE  HandlersKept
<1> DEFINE r == calls[c]
<1>1. r \in CallRecords(signed, mined) /\ page.proofs \in 0..MaxProofs
  BY DEF RInv
<1>2. /\ UNCHANGED <<signed, mined, enclave, wallet, page>>
  BY DEF Click, Refuse, Visit, registryVars, keyVars
<1>3. calls' \in [Calls -> CallRecords(signed, mined)]
  <2>1. CASE Refuse(c)
    BY <2>1, GoKeeps DEF Refuse
  <2>2. CASE Click(c)
    <3>1. [r EXCEPT !.stage = "scoring", !.kind = "click", !.sent = page.proofs]
            \in CallRecords(signed, mined)
      BY <1>1 DEF CallRecords
    <3>2. [r EXCEPT !.stage = "nonce", !.kind = "instruct"] \in CallRecords(signed, mined)
      BY <1>1 DEF CallRecords
    <3>3. QED BY <2>2, <3>1, <3>2, SetKeeps DEF Click
  <2>3. CASE Visit(c)
    <3>1. [r EXCEPT !.stage = "nonce", !.kind = "attest"] \in CallRecords(signed, mined)
      BY <1>1 DEF CallRecords
    <3>2. [r EXCEPT !.stage = "scoring", !.kind = "auto"] \in CallRecords(signed, mined)
      BY <1>1 DEF CallRecords
    <3>3. \A e \in signed :
            [r EXCEPT !.stage = "submitting", !.kind = "resubmit", !.envelope = e]
              \in CallRecords(signed, mined)
      BY <1>1 DEF CallRecords
    <3>4. QED BY <2>3, <3>1, <3>2, <3>3, SetKeeps DEF Visit
  <2>4. QED BY <2>1, <2>2, <2>3
<1>4. page' \in [proofs : 0..MaxProofs, envelope : signed \cup {NoEnvelope},
                 scoredFp : Int, scoreValid : BOOLEAN]
  BY <1>2 DEF RInv
<1>5. QED BY <1>2, <1>3, <1>4, QuietKeeps

\* The signature is new, and the handler keeps it.
LEMMA SignKeeps ==
  ASSUME RInv, NEW c \in Calls, Sign(c)
  PROVE  HandlersKept /\ EnclaveStep /\ \A s \in signed' : s.digest.subject \in Subjects
<1>1. PICK subject \in SubjectOf(c), counted \in 0..calls[c].sent :
        /\ EnclaveSigns(enclave.key, subject, ScoreFor(counted, now), enclave.codeHash)
        /\ Set(c, [calls[c] EXCEPT !.stage = "signed", !.sent = 0,
             !.envelope = [key |-> enclave.key,
               digest |-> Digest(subject, ScoreFor(counted, now),
                                 now + Validity, enclave.codeHash)]])
  BY DEF Sign
<1>2. /\ subject \in Subjects /\ enclave.key \in Keys /\ enclave.codeHash \in CodeHashes
      /\ calls[c] \in CallRecords(signed, mined)
  BY RelayAssumption DEF SubjectOf, RInv
<1>3. ScoreFor(counted, now) \in ScoreValues
  <2>1. calls[c].sent \in 0..MaxProofs /\ now \in 1..MaxTime
    BY <1>2 DEF CallRecords, RInv, IInv
  <2>2. counted \in 0..MaxProofs
    BY <2>1, RelayAssumption
  <2>3. QED BY <2>1, <2>2, ScoreAssumption
<1>4. EnclaveStep
  BY <1>1, <1>2, <1>3 DEF EnclaveStep
<1> DEFINE e == [key |-> enclave.key,
                 digest |-> Digest(subject, ScoreFor(counted, now),
                                   now + Validity, enclave.codeHash)]
<1>5. signed' = signed \cup {e}
  BY <1>1 DEF EnclaveSigns
<1>6. e.digest.subject = subject
  BY DEF Digest
<1> HIDE DEF e
<1>7. UNCHANGED <<enclave, page, wallet, mined>>
  BY DEF Sign, keyVars
<1>8. calls' \in [Calls -> CallRecords(signed', mined')]
  <2>1. [calls[c] EXCEPT !.stage = "signed", !.sent = 0, !.envelope = e]
          \in CallRecords(signed', mined)
    <3>1. 0 \in 0..MaxProofs
      BY RelayAssumption
    <3>2. QED BY <1>2, <1>5, <3>1 DEF CallRecords
  <2>2. calls \in [Calls -> CallRecords(signed', mined)]
    <3>1. CallRecords(signed, mined) \subseteq CallRecords(signed', mined)
      BY <1>5, RecordsGrow DEF RInv
    <3>2. QED BY <3>1 DEF RInv
  <2>3. calls' = [calls EXCEPT ![c] = [calls[c] EXCEPT !.stage = "signed", !.sent = 0,
                                                       !.envelope = e]]
    BY <1>1 DEF Set, e
  <2>4. QED BY <1>7, <2>1, <2>2, <2>3
<1>9. HandlersKept
  BY <1>5, <1>7, <1>8 DEF HandlersKept, RInv
<1>10. QED BY <1>4, <1>5, <1>6, <1>9, <1>2 DEF RInv

\* The other steps of the handlers.
LEMMA HandlerKeeps ==
  ASSUME RInv, NEW c \in Calls,
         \/ Deliver(c) \/ ReadNonce(c) \/ SendRaw(c) \/ Registered(c) \/ Returns(c)
         \/ Fails(c) \/ SendFromWallet(c) \/ ReadScore(c) \/ ShowScore(c)
  PROVE  HandlersKept /\ UNCHANGED registryVars /\ mined' = mined
<1> DEFINE P == [proofs : 0..MaxProofs, envelope : signed \cup {NoEnvelope},
                 scoredFp : Int, scoreValid : BOOLEAN]
<1>1. /\ calls[c] \in CallRecords(signed, mined) /\ page \in P /\ page.proofs \in Int
      /\ mined \in Nat
  BY RelayAssumption DEF RInv
<1>2. UNCHANGED registryVars /\ mined' = mined /\ enclave' = enclave
  BY DEF Deliver, ReadNonce, SendRaw, Registered, Returns, Fails, SendFromWallet,
         ReadScore, ShowScore, keyVars, Send
<1>3. signed' = signed
  BY <1>2 DEF registryVars
<1>4. CASE Deliver(c)
  <2>1. calls[c].envelope \in signed \cup {NoEnvelope}
    BY <1>1 DEF CallRecords
  <2>2. page' \in P
    BY <1>1, <1>4, <2>1 DEF Deliver
  <2>3. calls' \in [Calls -> CallRecords(signed, mined)]
    BY <1>4, GoKeeps DEF Deliver
  <2>4. QED BY <1>2, <1>3, <1>4, <2>2, <2>3, QuietKeeps DEF Deliver
<1>5. CASE ReadNonce(c)
  <2>1. \A n \in 0..mined :
          [calls[c] EXCEPT !.stage = "send", !.nonce = n] \in CallRecords(signed, mined)
    BY <1>1 DEF CallRecords
  <2>2. \E n \in 0..mined : Set(c, [calls[c] EXCEPT !.stage = "send", !.nonce = n])
    <3>1. Set(c, [calls[c] EXCEPT !.stage = "send", !.nonce = mined])
      BY <1>5, Zenon DEF ReadNonce, TransactionCount
    <3>2. mined \in 0..mined
      BY <1>1
    <3>3. QED BY <3>1, <3>2, Zenon
  <2>3. calls' \in [Calls -> CallRecords(signed, mined)]
    BY <2>1, <2>2, SetKeeps
  <2>4. QED BY <1>1, <1>2, <1>3, <1>5, <2>3, QuietKeeps DEF ReadNonce
<1>6. CASE SendRaw(c)
  <2>1. calls' \in [Calls -> CallRecords(signed, mined)]
    BY <1>6, GoKeeps DEF SendRaw
  <2>2. QED BY <1>1, <1>2, <1>3, <1>6, <2>1, QuietKeeps DEF SendRaw
<1>7. CASE Registered(c)
  <2>1. calls' \in [Calls -> CallRecords(signed, mined)]
    BY <1>7, GoKeeps DEF Registered
  <2>2. page' \in P
    BY <1>1, <1>7 DEF Registered
  <2>3. QED BY <1>2, <1>3, <1>7, <2>1, <2>2, QuietKeeps DEF Registered
<1>8. CASE Returns(c) \/ Fails(c)
  <2>1. \E from : Go(c, from, "ended")
    BY <1>8 DEF Returns, Fails
  <2>2. calls' \in [Calls -> CallRecords(signed, mined)]
    BY <2>1, GoKeeps
  <2>3. QED BY <1>1, <1>2, <1>3, <1>8, <2>2, QuietKeeps DEF Returns, Fails
<1>9. CASE SendFromWallet(c)
  <2>1. calls' \in [Calls -> CallRecords(signed, mined)]
    BY <1>9, GoKeeps DEF SendFromWallet
  <2>2. page' \in P
    BY <1>1, <1>9 DEF SendFromWallet
  <2>3. wallet' \in Seq(Calls)
    BY <1>9 DEF SendFromWallet, RInv
  <2>4. QED BY <1>2, <1>3, <2>1, <2>2, <2>3 DEF HandlersKept, RInv
<1>10. CASE ReadScore(c)
  <2>1. [calls[c] EXCEPT !.stage = "read", !.seen = GetScore(Applicant) # NoScore]
          \in CallRecords(signed, mined)
    BY <1>1 DEF CallRecords
  <2>2. calls' \in [Calls -> CallRecords(signed, mined)]
    BY <1>10, <2>1, SetKeeps DEF ReadScore
  <2>3. QED BY <1>1, <1>2, <1>3, <1>10, <2>2, QuietKeeps DEF ReadScore
<1>11. CASE ShowScore(c)
  <2>1. \E from : Go(c, from, "ended")
    BY <1>11 DEF ShowScore
  <2>2. calls' \in [Calls -> CallRecords(signed, mined)]
    BY <2>1, GoKeeps
  <2>3. calls[c].seen \in BOOLEAN
    BY <1>1 DEF CallRecords
  <2>4. page' \in P
    BY <1>1, <1>11, <2>3 DEF ShowScore
  <2>5. QED BY <1>2, <1>3, <1>11, <2>2, <2>4, QuietKeeps DEF ShowScore
<1>12. QED BY <1>2, <1>4, <1>5, <1>6, <1>7, <1>8, <1>9, <1>10, <1>11
-----------------------------------------------------------------------------
\* A transaction sent with a nonce the chain has reached takes the only place.
LEMMA SendTakesPlace ==
  ASSUME RInv, NEW c \in Calls, SendRaw(c)
  PROVE  mempool' = {[id |-> c, nonce |-> mined]}
<1>1. mined \in Nat /\ calls[c].nonce \in 0..mined
  BY DEF RInv, CallRecords
<1>2. /\ calls[c].nonce >= mined
      /\ mempool' = {t \in mempool : t.nonce # calls[c].nonce}
                      \cup {[id |-> c, nonce |-> calls[c].nonce]}
  BY DEF SendRaw, Send
<1>3. calls[c].nonce = mined
  BY <1>1, <1>2
<1>4. QED BY <1>2, <1>3 DEF RInv, PendingIsNext

LEMMA SendKeepsKey ==
  ASSUME RInv, NEW c \in Calls, SendRaw(c) PROVE KeyKept
<1>1. mined \in Nat /\ mined' = mined
  BY DEF RInv, SendRaw, Send
<1>2. QED BY <1>1, SendTakesPlace DEF KeyKept, PendingIsNext

\* The transaction mined was the only one.
LEMMA MineKeepsKey ==
  ASSUME RInv, NEW c, NEW ok, Mine(c, ok)
  PROVE  KeyKept /\ mined' = mined + 1 /\ mempool' = {}
<1>1. /\ [id |-> c, nonce |-> mined] \in mempool
      /\ mempool' = mempool \ {[id |-> c, nonce |-> mined]}
      /\ mined' = mined + 1
  BY DEF Mine
<1>2. mempool' = {}
  BY <1>1 DEF RInv
<1>3. QED BY <1>1, <1>2 DEF KeyKept, PendingIsNext, RInv

\* A transaction of the relay is a submission of what was signed, or leaves the
\* registry alone.
LEMMA ExecutesSubmits ==
  ASSUME RInv, NEW c \in Calls, NEW ok \in BOOLEAN, Executes(c, ok)
  PROVE  Submission \/ UNCHANGED registryVars
<1> DEFINE e == calls[c].envelope
           d == e.digest
<1>1. CASE ~UNCHANGED registryVars
  <2>1. SubmitScore(d.subject, d.score, d.expiry, d.codeHash, e)
    BY <1>1 DEF Executes
  <2>2. d.expiry > now /\ now \in Nat
    BY <2>1 DEF SubmitScore, Acceptable, RInv, IInv, TypeOK
  <2>3. e \in signed \cup {NoEnvelope}
    BY DEF RInv, CallRecords
  <2>4. NoEnvelope.digest.expiry = 0
    BY DEF NoEnvelope, Digest
  <2> HIDE DEF e
  <2>5. e \in signed
    BY <2>2, <2>3, <2>4
  <2>6. d.subject \in Subjects
    BY <2>5 DEF RInv
  <2>7. QED BY <2>1, <2>5, <2>6 DEF Submission
<1>2. QED BY <1>1

\* The pieces of the invariant, put together after a step.
LEMMA Together ==
  ASSUME RInv, HandlersKept, KeyKept, [Next]_registryVars,
         \A s \in signed' : s.digest.subject \in Subjects
  PROVE  RInv'
<1>1. IInv'
  BY NextIInv DEF RInv
<1>2. QED BY <1>1 DEF HandlersKept, KeyKept, RInv

\* A step that leaves the key alone.
LEMMA KeyAlone == ASSUME RInv, UNCHANGED keyVars PROVE KeyKept
BY DEF RInv, KeyKept, keyVars, PendingIsNext

\* Steps of the registry that sign nothing leave the signatures alone.
LEMMA SignedStays ==
  ASSUME Submission \/ Registration \/ Tick \/ UNCHANGED registryVars
  PROVE  signed' = signed
BY DEF Submission, SubmitScore, Registration, RegisterTeeSigner, Tick, registryVars

\* Every step keeps the invariant and is a step of the registry or none.
LEMMA RelayStep ==
  ASSUME RInv, [RelayNext]_relayVars PROVE RInv' /\ [Next]_registryVars
<1> USE DEF Next
<1>1. ASSUME NEW c \in Calls, Click(c) \/ Refuse(c) \/ Visit(c)
      PROVE  RInv' /\ [Next]_registryVars
  <2>1. UNCHANGED registryVars /\ UNCHANGED keyVars
    BY <1>1 DEF Click, Refuse, Visit
  <2>2. signed' = signed
    BY <2>1, SignedStays
  <2>3. QED BY <1>1, <2>1, <2>2, ClickKeeps, KeyAlone, Together DEF RInv
<1>2. ASSUME NEW c \in Calls, HandlerStep(c) PROVE RInv' /\ [Next]_registryVars
  <2>1. CASE Sign(c)
    <3>1. UNCHANGED keyVars
      BY <2>1 DEF Sign
    <3>2. QED BY <2>1, <3>1, SignKeeps, KeyAlone, Together
  <2>2. CASE ~Sign(c)
    <3>1. HandlersKept /\ UNCHANGED registryVars
      BY <1>2, <2>2, HandlerKeeps DEF HandlerStep
    <3>2. KeyKept
      <4>1. CASE SendRaw(c)
        BY <4>1, SendKeepsKey
      <4>2. CASE ~SendRaw(c)
        <5>1. UNCHANGED keyVars
          BY <1>2, <2>2, <4>2 DEF HandlerStep, Deliver, ReadNonce, Registered, Returns,
                                  Fails, SendFromWallet, ReadScore, ShowScore
        <5>2. QED BY <5>1, KeyAlone
      <4>3. QED BY <4>1, <4>2
    <3>3. signed' = signed
      BY <3>1, SignedStays
    <3>4. QED BY <3>1, <3>2, <3>3, Together DEF RInv
  <2>3. QED BY <2>1, <2>2
<1>3. CASE ProofArrives \/ \E k \in Keys, h \in CodeHashes : Boot(k, h)
  <2>1. UNCHANGED registryVars /\ UNCHANGED keyVars /\ UNCHANGED <<calls, wallet>>
    BY <1>3 DEF ProofArrives, Boot
  <2>2. signed' = signed
    BY <2>1, SignedStays
  <2>3. HandlersKept
    <3>1. CASE ProofArrives
      <4>1. page.proofs + 1 \in 0..MaxProofs
        BY <3>1, RelayAssumption DEF ProofArrives, RInv
      <4>2. QED BY <2>1, <2>2, <3>1, <4>1 DEF ProofArrives, HandlersKept, RInv, keyVars
    <3>2. CASE \E k \in Keys, h \in CodeHashes : Boot(k, h)
      BY <2>1, <2>2, <3>2 DEF Boot, HandlersKept, RInv, keyVars
    <3>3. QED BY <1>3, <3>1, <3>2
  <2>4. QED BY <2>1, <2>2, <2>3, KeyAlone, Together DEF RInv
<1>4. CASE MineNext
  <2>1. PICK c \in Calls, ok \in BOOLEAN : Mine(c, ok) /\ Executes(c, ok)
    BY <1>4 DEF MineNext
  <2>2. Submission \/ UNCHANGED registryVars
    BY <2>1, ExecutesSubmits
  <2>3. KeyKept /\ mined' = mined + 1
    BY <2>1, MineKeepsKey
  <2>4. signed' = signed
    BY <2>2, SignedStays
  <2>5. HandlersKept
    <3>1. CallRecords(signed, mined) \subseteq CallRecords(signed', mined')
      BY <2>3, <2>4, RecordsGrow DEF RInv
    <3>2. UNCHANGED <<calls, page, wallet, enclave>>
      BY <1>4 DEF MineNext
    <3>3. QED BY <2>4, <3>1, <3>2 DEF HandlersKept, RInv
  <2>6. QED BY <2>2, <2>3, <2>4, <2>5, Together DEF RInv
<1>5. CASE MineWallet
  <2>1. PICK ok \in BOOLEAN : Executes(Head(wallet), ok)
    BY <1>5 DEF MineWallet
  <2>2. Head(wallet) \in Calls /\ wallet' \in Seq(Calls)
    BY <1>5 DEF MineWallet, RInv
  <2>3. Submission \/ UNCHANGED registryVars
    BY <2>1, <2>2, ExecutesSubmits
  <2>4. signed' = signed
    BY <2>3, SignedStays
  <2>5. HandlersKept
    BY <1>5, <2>2, <2>4 DEF MineWallet, HandlersKept, RInv, keyVars
  <2>6. UNCHANGED keyVars
    BY <1>5 DEF MineWallet
  <2>7. QED BY <2>3, <2>4, <2>5, <2>6, KeyAlone, Together DEF RInv
<1>6. CASE Register \/ Meddle \/ Passes
  <2>1. /\ Submission \/ Registration \/ Tick
        /\ UNCHANGED keyVars /\ UNCHANGED <<calls, page, wallet, enclave>>
    BY <1>6 DEF Register, Meddle, Passes
  <2>2. signed' = signed
    BY <2>1, SignedStays
  <2>3. HandlersKept
    BY <2>1, <2>2 DEF HandlersKept, RInv, keyVars
  <2>4. QED BY <2>1, <2>2, <2>3, KeyAlone, Together DEF RInv
<1>7. CASE UNCHANGED relayVars
  <2>1. UNCHANGED registryVars /\ UNCHANGED keyVars /\ UNCHANGED <<calls, page, wallet, enclave>>
    BY <1>7 DEF relayVars
  <2>2. signed' = signed
    BY <2>1, SignedStays
  <2>3. HandlersKept
    BY <2>1, <2>2 DEF HandlersKept, RInv, keyVars
  <2>4. QED BY <2>1, <2>2, <2>3, KeyAlone, Together DEF RInv
<1>8. QED BY <1>1, <1>2, <1>3, <1>4, <1>5, <1>6, <1>7 DEF RelayNext

\* Before the first click.
LEMMA RelayInitInv == RelayInit => RInv
<1> SUFFICES ASSUME RelayInit PROVE RInv
  OBVIOUS
<1>1. IInv /\ signed = {}
  BY InitIInv DEF RelayInit, Init
<1>2. mined = 0 /\ mempool = {} /\ PendingIsNext
  BY DEF RelayInit, KeyInit, PendingIsNext
<1>3. NewCall \in CallRecords(signed, mined)
  BY <1>1, <1>2, RelayAssumption DEF NewCall, CallRecords
<1>4. calls \in [Calls -> CallRecords(signed, mined)]
  BY <1>3 DEF RelayInit
<1>5. page \in [proofs : 0..MaxProofs, envelope : signed \cup {NoEnvelope},
                scoredFp : Int, scoreValid : BOOLEAN]
  BY RelayAssumption DEF RelayInit, NoFp
<1>6. QED BY <1>1, <1>2, <1>4, <1>5 DEF RelayInit, RInv

LEMMA RelayInvariance == RelaySpec => []RInv
<1>1. RInv /\ [RelayNext]_relayVars => RInv'
  BY RelayStep
<1>2. QED BY <1>1, RelayInitInv, PTL DEF RelaySpec

\* The relay implements the registry's specification, whatever the page, the
\* server and the wallet lose, repeat or reorder.
THEOREM RelayImplementsRegistry == RelaySpec => Spec
<1>1. RelayInit => Init
  BY DEF RelayInit
<1>2. RInv /\ [RelayNext]_relayVars => [Next]_registryVars
  BY RelayStep
<1>3. QED BY <1>1, <1>2, RelayInvariance, PTL DEF RelaySpec, Spec

\* So every score that the relay gets into the registry was signed for the
\* account that holds it.
THEOREM RelayedScoresWereSigned == RelaySpec => []StoredScoresWereSigned
BY RelayImplementsRegistry, ScoresWereSigned, PTL

\* And each was signed by the key registered when its transaction was mined.
THEOREM RelayedOnlyAttested == RelaySpec => AcceptedOnlyAttested
BY RelayImplementsRegistry, AcceptsOnlyAttested, PTL

\* No transaction of the relayer key ever waits behind a nonce that nobody
\* sends, for any number of calls.
THEOREM RelayPendingIsNext == RelaySpec => []PendingIsNext
<1>1. RInv => PendingIsNext
  BY DEF RInv
<1>2. QED BY <1>1, RelayInvariance, PTL
-----------------------------------------------------------------------------
\* Why a late submission does no harm. In a history without overlapping clicks
\* and without other senders of the applicant's envelopes, the envelopes of the
\* clicks are ordered by the time they were asked for, and what is in transit
\* is never behind what the registry holds.
Quiet == disturbed \cap {"overlap", "meddling"} = {}

PageClicks == {c \in Calls : calls[c].kind = "click"}
ScoreOf(c) == calls[c].envelope.digest.score
ExpiryOf(c) == calls[c].envelope.digest.expiry

\* The stages of a click that has its envelope, and of a call whose transaction
\* may be with the node or the wallet.
WithEnvelope == {"signed", "submitting", "send", "waiting", "refreshing", "read"}
Out == {"waiting", "refreshing", "read", "ended"}

\* Scores follow the order of the clicks as long as every proof sent counted.
Below(x, y) == "rejected" \notin disturbed => x <= y

\* d's envelope is no later than c's, and neither is what the registry holds.
NoLater(d, c) == Below(ScoreOf(d), ScoreOf(c)) /\ ExpiryOf(d) <= ExpiryOf(c)
HeldNoLater(c) == Below(Held.score, ScoreOf(c)) /\ Held.expiry <= ExpiryOf(c)

\* A call that has not begun has no envelope, a click is in one of its stages
\* and never asks for a nonce without a relayer, and only clicks have envelopes of
\* the applicant's, those resubmitted aside.
CallsShape ==
  \A c \in Calls :
    /\ At(c, "idle") => ScoreOf(c) = 0 /\ ExpiryOf(c) = 0
    /\ Is(c, {"click"}) => /\ calls[c].stage \in {"scoring", "ended"} \cup WithEnvelope
                           /\ calls[c].stage \in {"send", "waiting"} => hasRelayer
    /\ Is(c, {"auto"}) => calls[c].envelope.digest.subject # Applicant \/ ExpiryOf(c) = 0

\* One click at a time, and whichever has its envelope has the latest of all.
ClicksOrdered ==
  /\ \A c, d \in UnderWay : c = d
  /\ \A c \in PageClicks :
       /\ calls[c].sent <= page.proofs
       /\ ScoreOf(c) <= ScoreFor(page.proofs, now) /\ ExpiryOf(c) <= now + Validity
       /\ At(c, "scoring") => /\ Held.score <= ScoreFor(calls[c].sent, now)
                              /\ \A d \in PageClicks : ScoreOf(d) <= ScoreFor(calls[c].sent, now)
       /\ calls[c].stage \in WithEnvelope => HeldNoLater(c) /\ \A d \in PageClicks : NoLater(d, c)
  /\ Held.score <= ScoreFor(page.proofs, now) /\ Held.expiry <= now + Validity

\* What the node holds, and what the wallet holds.
NodeOrdered ==
  \A t \in mempool :
    /\ t.id \in Calls /\ calls[t.id].stage \in Out
    /\ t.id \in PageClicks => hasRelayer
    /\ t.id \in PageClicks /\ Quiet => HeldNoLater(t.id)

WalletOrdered ==
  \A i \in 1..Len(wallet) :
    /\ ~hasRelayer /\ wallet[i] \in PageClicks /\ calls[wallet[i]].stage \in Out
    /\ Quiet => HeldNoLater(wallet[i]) /\ \A j \in i..Len(wallet) : NoLater(wallet[i], wallet[j])

OrderInv ==
  /\ CallsShape /\ (Quiet => ClicksOrdered)
  /\ NodeOrdered /\ WalletOrdered

USE DEF WithEnvelope, Out

\* More proofs and more time give no less.
LEMMA ScoresGrow ==
  ASSUME NEW m \in 0..MaxProofs, NEW n \in 0..MaxProofs, m <= n,
         NEW u \in 1..MaxTime, NEW t \in 1..MaxTime, u <= t
  PROVE  /\ ScoreFor(m, u) <= ScoreFor(n, t)
         /\ ScoreFor(m, u) \in Nat /\ ScoreFor(n, t) \in Nat
<1>1. m \in 0..n /\ u \in 1..t
  OBVIOUS
<1>2. ScoreFor(m, u) \in ScoreValues /\ ScoreFor(n, t) \in ScoreValues
  BY ScoreAssumption
<1>3. QED BY <1>1, <1>2, ScoreAssumption, RegistryAssumption

\* What is compared are numbers.
LEMMA Numbers ==
  ASSUME RInv
  PROVE  /\ \A c \in Calls : /\ ScoreOf(c) \in Nat /\ ExpiryOf(c) \in Nat
                             /\ calls[c].sent \in Nat
         /\ Held.score \in Nat /\ Held.expiry \in Nat
         /\ page.proofs \in Nat /\ now \in Nat /\ Validity \in Nat
<1>1. TypeOK
  BY DEF RInv, IInv
<1>2. ASSUME NEW c \in Calls
      PROVE  ScoreOf(c) \in Nat /\ ExpiryOf(c) \in Nat /\ calls[c].sent \in Nat
  <2>1. calls[c].envelope \in signed \cup {NoEnvelope} /\ calls[c].sent \in 0..MaxProofs
    BY DEF RInv, CallRecords
  <2>2. NoEnvelope.digest.score = 0 /\ NoEnvelope.digest.expiry = 0
    BY DEF NoEnvelope, Digest
  <2>3. \A s \in signed : s.digest.score \in Nat /\ s.digest.expiry \in Nat
    BY <1>1 DEF TypeOK, Digests
  <2>4. QED BY <2>1, <2>2, <2>3, RelayAssumption DEF ScoreOf, ExpiryOf
<1>3. Applicant \in Accounts
  BY RelayAssumption, RegistryAssumption
<1>4. Held.score \in Nat /\ Held.expiry \in Nat
  <2>1. Held \in [score : 0..1000, expiry : Nat, codeHash : CodeHashes \cup {NoHash}]
    BY <1>1, <1>3 DEF TypeOK, Held
  <2>2. QED BY <2>1
<1>5. page.proofs \in Nat
  BY RelayAssumption DEF RInv
<1>6. QED BY <1>1, <1>2, <1>4, <1>5, RegistryAssumption DEF TypeOK

\* A handler that goes on with the same envelope, and what is in transit.
LEMMA MoveOrder ==
  ASSUME RInv, OrderInv, NEW c \in Calls, NEW r, calls' = [calls EXCEPT ![c] = r],
         UNCHANGED <<scores, now, hasRelayer>>, Quiet' = Quiet, page'.proofs = page.proofs,
         disturbed \subseteq disturbed',
         r.kind = calls[c].kind, r.envelope = calls[c].envelope,
         r.sent \in {calls[c].sent, 0}, r.stage \notin {"idle", "scoring"},
         r.stage \notin {"ended", "refused"} => calls[c].stage \notin {"idle", "ended", "refused"},
         calls[c].stage \in Out => r.stage \in Out,
         Is(c, {"click"}) /\ r.stage # "ended" =>
           r.stage \in WithEnvelope /\ calls[c].stage \in WithEnvelope,
         Is(c, {"click"}) /\ r.stage \in {"send", "waiting"} => hasRelayer
  PROVE  /\ CallsShape' /\ (Quiet => ClicksOrdered')
         /\ mempool' = mempool => NodeOrdered'
         /\ wallet' = wallet => WalletOrdered'
<1>1. calls \in [Calls -> CallRecords(signed, mined)]
  BY DEF RInv
<1>2. /\ calls'[c] = r
      /\ \A d \in Calls \ {c} : calls'[d] = calls[d]
      /\ \A d \in Calls : /\ calls'[d].kind = calls[d].kind
                          /\ calls'[d].envelope = calls[d].envelope
  BY <1>1
<1>3. /\ \A d \in Calls : ScoreOf(d)' = ScoreOf(d) /\ ExpiryOf(d)' = ExpiryOf(d)
      /\ PageClicks' = PageClicks /\ Held' = Held
  BY <1>2 DEF ScoreOf, ExpiryOf, PageClicks, Held
<1>4. /\ \A d \in Calls, e \in Calls : NoLater(d, e) => NoLater(d, e)'
      /\ \A d \in Calls : HeldNoLater(d) => HeldNoLater(d)'
  BY <1>3 DEF NoLater, HeldNoLater, Below
<1>5. CallsShape'
  BY <1>2, <1>3 DEF OrderInv, CallsShape, At, Is
<1>6. ASSUME Quiet PROVE ClicksOrdered'
  <2>1. ClicksOrdered
    BY <1>6 DEF OrderInv
  <2>2. UnderWay' \subseteq UnderWay
    BY <1>2 DEF UnderWay, Is
  <2>3. ASSUME NEW d \in PageClicks
        PROVE  /\ calls'[d].sent <= page'.proofs
               /\ ScoreOf(d)' <= ScoreFor(page'.proofs, now') /\ ExpiryOf(d)' <= now' + Validity
               /\ At(d, "scoring")' => calls'[d] = calls[d]
               /\ calls'[d].stage \in WithEnvelope => calls[d].stage \in WithEnvelope
    <3>1. d \in Calls /\ 0 <= page.proofs
      BY Numbers DEF PageClicks
    <3>2. calls'[d].sent \in {calls[d].sent, 0}
      BY <1>2, <3>1
    <3>3. QED BY <1>2, <1>3, <2>1, <3>1, <3>2 DEF ClicksOrdered, At, Is, PageClicks
  <2>4. PageClicks \subseteq Calls
    BY DEF PageClicks
  <2>5. ASSUME NEW d \in PageClicks, At(d, "scoring")'
        PROVE  /\ Held'.score <= ScoreFor(calls'[d].sent, now')
               /\ \A e \in PageClicks' : ScoreOf(e)' <= ScoreFor(calls'[d].sent, now')
    <3>1. calls'[d] = calls[d] /\ At(d, "scoring")
      BY <2>3, <2>5 DEF At
    <3>2. QED BY <1>3, <2>1, <2>4, <3>1 DEF ClicksOrdered
  <2>6. ASSUME NEW d \in PageClicks, calls'[d].stage \in WithEnvelope
        PROVE  HeldNoLater(d)' /\ \A e \in PageClicks' : NoLater(e, d)'
    <3>1. calls[d].stage \in WithEnvelope
      BY <2>3, <2>6
    <3>2. HeldNoLater(d) /\ \A e \in PageClicks : NoLater(e, d)
      BY <2>1, <3>1 DEF ClicksOrdered
    <3>3. HeldNoLater(d)'
      BY <1>4, <2>4, <3>2
    <3>4. \A e \in PageClicks : NoLater(e, d)'
      BY <1>4, <2>4, <3>2
    <3>5. QED BY <1>3, <3>3, <3>4
  <2>7. Held'.score <= ScoreFor(page'.proofs, now') /\ Held'.expiry <= now' + Validity
    BY <1>3, <2>1 DEF ClicksOrdered
  <2>8. QED BY <1>3, <2>1, <2>2, <2>3, <2>5, <2>6, <2>7 DEF ClicksOrdered
<1>7. ASSUME mempool' = mempool PROVE NodeOrdered'
  <2>1. \A t \in mempool : t.id \in Calls /\ calls[t.id].stage \in Out
    BY DEF OrderInv, NodeOrdered
  <2>2. \A t \in mempool : calls'[t.id].stage \in Out
    BY <1>2, <2>1
  <2>3. \A t \in mempool : HeldNoLater(t.id) => HeldNoLater(t.id)'
    BY <1>4, <2>1
  <2>4. QED BY <1>3, <1>7, <2>1, <2>2, <2>3 DEF OrderInv, NodeOrdered
<1>8. ASSUME wallet' = wallet PROVE WalletOrdered'
  <2>1. \A i \in 1..Len(wallet) : wallet[i] \in Calls /\ calls[wallet[i]].stage \in Out
    BY DEF RInv, OrderInv, WalletOrdered
  <2>2. ASSUME NEW x \in Calls, NEW y \in Calls, x \in PageClicks, calls[x].stage \in Out
        PROVE  /\ x \in PageClicks' /\ calls'[x].stage \in Out
               /\ HeldNoLater(x) => HeldNoLater(x)'
               /\ NoLater(x, y) => NoLater(x, y)'
    BY <1>2, <1>3, <1>4, <2>2
  <2>3. ASSUME NEW i \in 1..Len(wallet), NEW x \in Calls, x = wallet[i]
        PROVE  /\ ~hasRelayer' /\ x \in PageClicks' /\ calls'[x].stage \in Out
               /\ Quiet' => HeldNoLater(x)'
    BY <2>1, <2>2, <2>3 DEF OrderInv, WalletOrdered
  <2>4. ASSUME NEW i \in 1..Len(wallet), NEW j \in i..Len(wallet), NEW x \in Calls,
               NEW y \in Calls, x = wallet[i], y = wallet[j], Quiet'
        PROVE  NoLater(x, y)'
    <3>1. NoLater(x, y)
      BY <2>4 DEF OrderInv, WalletOrdered
    <3>2. QED BY <1>4, <3>1
  <2>5. Len(wallet) \in Nat
    BY DEF RInv
  <2>6. QED BY <1>8, <2>1, <2>3, <2>4, <2>5 DEF WalletOrdered, NoLater, HeldNoLater, ScoreOf, ExpiryOf
<1>9. QED BY <1>5, <1>6, <1>7, <1>8

\* What Go makes of a call.
LEMMA GoOrder ==
  ASSUME RInv, OrderInv, NEW c \in Calls, NEW from, NEW to, Go(c, from, to),
         UNCHANGED <<scores, now, hasRelayer>>, Quiet' = Quiet, page'.proofs = page.proofs,
         disturbed \subseteq disturbed',
         to \notin {"idle", "scoring"},
         to \notin {"ended", "refused"} => from \notin {"idle", "ended", "refused"},
         from \in Out => to \in Out,
         Is(c, {"click"}) /\ to # "ended" => to \in WithEnvelope /\ from \in WithEnvelope,
         Is(c, {"click"}) /\ to \in {"send", "waiting"} => hasRelayer
  PROVE  /\ CallsShape' /\ (Quiet => ClicksOrdered')
         /\ mempool' = mempool => NodeOrdered'
         /\ wallet' = wallet => WalletOrdered'
<1> DEFINE r == [calls[c] EXCEPT !.stage = to, !.sent = 0, !.nonce = 0, !.seen = FALSE]
<1>1. calls[c] \in CallRecords(signed, mined) /\ calls[c].stage = from
  BY DEF RInv, Go, At
<1>2. /\ r.stage = to /\ r.kind = calls[c].kind /\ r.envelope = calls[c].envelope /\ r.sent = 0
  BY <1>1 DEF CallRecords
<1>3. calls' = [calls EXCEPT ![c] = r]
  BY DEF Go, Set
<1> HIDE DEF r
<1>4. QED BY <1>1, <1>2, <1>3, MoveOrder

\* A step of a call whose transaction is not in transit.
LEMMA TransitFrame ==
  ASSUME RInv, OrderInv, NEW c \in Calls, calls[c].stage \notin Out,
         \A d \in Calls \ {c} : calls'[d] = calls[d],
         UNCHANGED <<scores, hasRelayer, mempool, wallet>>, Quiet' => Quiet,
         disturbed \subseteq disturbed'
  PROVE  NodeOrdered' /\ WalletOrdered'
<1>1. ASSUME NEW d \in Calls, calls[d].stage \in Out
      PROVE  /\ calls'[d] = calls[d] /\ ScoreOf(d)' = ScoreOf(d) /\ ExpiryOf(d)' = ExpiryOf(d)
             /\ d \in PageClicks <=> d \in PageClicks'
             /\ HeldNoLater(d) => HeldNoLater(d)'
  <2>1. calls'[d] = calls[d]
    BY <1>1
  <2>2. QED BY <2>1 DEF ScoreOf, ExpiryOf, PageClicks, HeldNoLater, Held, Below
<1>2. NodeOrdered'
  BY <1>1 DEF OrderInv, NodeOrdered
<1>3. \A i \in 1..Len(wallet) : wallet[i] \in Calls /\ calls[wallet[i]].stage \in Out
  BY DEF RInv, OrderInv, WalletOrdered
<1>4. WalletOrdered'
  <2> SUFFICES ASSUME NEW i \in 1..Len(wallet)
               PROVE  /\ ~hasRelayer /\ wallet[i] \in PageClicks'
                      /\ calls'[wallet[i]].stage \in Out
                      /\ Quiet' => /\ HeldNoLater(wallet[i])'
                                   /\ \A j \in i..Len(wallet) : NoLater(wallet[i], wallet[j])'
    BY DEF WalletOrdered
  <2>1. /\ ~hasRelayer /\ wallet[i] \in PageClicks
        /\ Quiet => HeldNoLater(wallet[i]) /\ \A j \in i..Len(wallet) : NoLater(wallet[i], wallet[j])
    BY DEF OrderInv, WalletOrdered
  <2>2. ASSUME NEW j \in i..Len(wallet), NoLater(wallet[i], wallet[j])
        PROVE  NoLater(wallet[i], wallet[j])'
    <3>1. j \in 1..Len(wallet)
      BY DEF RInv
    <3>2. /\ ScoreOf(wallet[i])' = ScoreOf(wallet[i]) /\ ExpiryOf(wallet[i])' = ExpiryOf(wallet[i])
          /\ ScoreOf(wallet[j])' = ScoreOf(wallet[j]) /\ ExpiryOf(wallet[j])' = ExpiryOf(wallet[j])
      BY <1>1, <1>3, <3>1
    <3>3. QED BY <2>2, <3>2 DEF NoLater, Below
  <2>3. QED BY <1>1, <1>3, <2>1, <2>2
<1>5. QED BY <1>2, <1>4

\* A click begins when none is under way; what others begin is none of the page.
LEMMA BeginOrder ==
  ASSUME RInv, OrderInv, NEW c \in Calls, Click(c) \/ Visit(c)
  PROVE  OrderInv'
<1>1. /\ At(c, "idle") /\ ~Is(c, {"click"}) /\ c \notin UnderWay
      /\ calls \in [Calls -> CallRecords(signed, mined)]
  <2>1. At(c, "idle")
    BY Zenon DEF Click, Visit
  <2>2. QED BY <2>1 DEF OrderInv, CallsShape, At, Is, UnderWay, RInv
<1>2. UNCHANGED <<scores, now, hasRelayer, mempool, wallet, page>>
  BY Zenon DEF Click, Visit, registryVars, keyVars
<1>3. calls[c] \in CallRecords(signed, mined)
  BY <1>1
<1> DEFINE Begins(r) == /\ calls' = [calls EXCEPT ![c] = r]
                        /\ r.stage # "idle" /\ r.kind # "none"
                        /\ r.kind \in {"click", "instruct"} => Click(c)
                        /\ r.kind = "click" => r.stage = "scoring" /\ r.sent = page.proofs
                        /\ r.kind # "resubmit" => r.envelope = calls[c].envelope
<1>4. PICK r : Begins(r)
  <2>1. CASE Click(c)
    <3> DEFINE r1 == [calls[c] EXCEPT !.stage = "scoring", !.kind = "click",
                                      !.sent = page.proofs]
               r2 == [calls[c] EXCEPT !.stage = "nonce", !.kind = "instruct"]
    <3>1. Set(c, r1) \/ Set(c, r2)
      BY <2>1, Zenon DEF Click
    <3>2. /\ r1.stage = "scoring" /\ r1.kind = "click" /\ r1.sent = page.proofs
          /\ r1.envelope = calls[c].envelope
      BY <1>3 DEF CallRecords
    <3>3. r2.stage = "nonce" /\ r2.kind = "instruct" /\ r2.envelope = calls[c].envelope
      BY <1>3 DEF CallRecords
    <3> HIDE DEF r1, r2
    <3>4. ASSUME Set(c, r1) PROVE Begins(r1)
      BY <2>1, <3>2, <3>4 DEF Set
    <3>5. ASSUME Set(c, r2) PROVE Begins(r2)
      BY <2>1, <3>3, <3>5 DEF Set
    <3> HIDE DEF Begins
    <3>6. QED BY <3>1, <3>4, <3>5
  <2>2. CASE Visit(c)
    <3> DEFINE r3 == [calls[c] EXCEPT !.stage = "nonce", !.kind = "attest"]
               r4 == [calls[c] EXCEPT !.stage = "scoring", !.kind = "auto"]
               r5(e) == [calls[c] EXCEPT !.stage = "submitting", !.kind = "resubmit",
                                         !.envelope = e]
    <3>1. Set(c, r3) \/ Set(c, r4) \/ \E e \in signed : Set(c, r5(e))
      BY <2>2, Zenon DEF Visit
    <3>2. r3.stage = "nonce" /\ r3.kind = "attest" /\ r3.envelope = calls[c].envelope
      BY <1>3 DEF CallRecords
    <3>3. r4.stage = "scoring" /\ r4.kind = "auto" /\ r4.envelope = calls[c].envelope
      BY <1>3 DEF CallRecords
    <3>4. \A e \in signed : r5(e).stage = "submitting" /\ r5(e).kind = "resubmit"
      BY <1>3 DEF CallRecords
    <3> HIDE DEF r3, r4, r5
    <3>5. ASSUME Set(c, r3) PROVE Begins(r3)
      BY <3>2, <3>5 DEF Set
    <3>6. ASSUME Set(c, r4) PROVE Begins(r4)
      BY <3>3, <3>6 DEF Set
    <3>7. ASSUME NEW e \in signed, Set(c, r5(e)) PROVE Begins(r5(e))
      BY <3>4, <3>7 DEF Set
    <3> HIDE DEF Begins
    <3>8. QED BY <3>1, <3>5, <3>6, <3>7
  <2>3. QED BY <2>1, <2>2
<1>5. calls'[c] = r /\ \A d \in Calls \ {c} : calls'[d] = calls[d]
  BY <1>1, <1>4
<1>6. \A d \in Calls \ {c} : /\ ScoreOf(d)' = ScoreOf(d) /\ ExpiryOf(d)' = ExpiryOf(d)
                             /\ d \in PageClicks' <=> d \in PageClicks
                             /\ d \in UnderWay' <=> d \in UnderWay
  BY <1>5 DEF ScoreOf, ExpiryOf, PageClicks, UnderWay, Is
<1>7. r.kind # "resubmit" => ScoreOf(c)' = 0 /\ ExpiryOf(c)' = 0
  BY <1>1, <1>4, <1>5 DEF OrderInv, CallsShape, ScoreOf, ExpiryOf
<1>8. CallsShape'
  <2> SUFFICES ASSUME NEW d \in Calls
               PROVE  /\ At(d, "idle")' => ScoreOf(d)' = 0 /\ ExpiryOf(d)' = 0
                      /\ Is(d, {"click"})' =>
                           /\ calls'[d].stage \in {"scoring", "ended"} \cup WithEnvelope
                           /\ calls'[d].stage \in {"send", "waiting"} => hasRelayer'
                      /\ Is(d, {"auto"})' =>
                           calls'[d].envelope.digest.subject # Applicant \/ ExpiryOf(d)' = 0
    BY DEF CallsShape
  <2>1. CASE d = c
    BY <1>4, <1>5, <1>7, <2>1 DEF At, Is
  <2>2. CASE d # c
    BY <1>2, <1>5, <1>6, <2>2 DEF OrderInv, CallsShape, At, Is
  <2>3. QED BY <2>1, <2>2
<1>9. /\ Quiet' => Quiet /\ (r.kind \in {"click", "instruct"} => UnderWay = {})
      /\ disturbed \subseteq disturbed'
  <2>1. disturbed \subseteq disturbed' /\ (Click(c) /\ Quiet' => UnderWay = {})
    BY DEF Quiet, Click, Visit
  <2>2. QED BY <1>4, <2>1 DEF Quiet
<1>10. ASSUME Quiet' PROVE ClicksOrdered'
  <2>1. Quiet /\ ClicksOrdered /\ Held' = Held
    BY <1>2, <1>9, <1>10 DEF OrderInv, Held
  <2>2. c \in UnderWay' => UnderWay' = {c}
    <3>1. c \in UnderWay' => r.kind \in {"click", "instruct"}
      BY <1>5 DEF UnderWay, Is
    <3>2. UnderWay' \subseteq Calls
      BY DEF UnderWay
    <3>3. QED BY <1>6, <1>9, <1>10, <3>1, <3>2
  <2>3. \A d, e \in UnderWay' : d = e
    <3>1. UnderWay' \subseteq Calls /\ UnderWay \subseteq Calls
      BY DEF UnderWay
    <3>2. QED BY <1>6, <2>1, <2>2, <3>1 DEF ClicksOrdered
  <2>4. CASE r.kind = "click"
    <3>1. PageClicks' = PageClicks \cup {c} /\ PageClicks \subseteq Calls \ {c}
      <4>1. c \in PageClicks' /\ c \notin PageClicks
        BY <1>1, <1>5, <2>4 DEF PageClicks, Is
      <4>2. PageClicks \subseteq Calls /\ PageClicks' \subseteq Calls
        BY DEF PageClicks
      <4>3. QED BY <1>6, <4>1, <4>2
    <3>2. \A d \in PageClicks : calls[d].stage = "ended"
      BY <1>9, <1>10, <2>4, <3>1 DEF OrderInv, CallsShape, UnderWay, PageClicks, Is
    <3>3. \A d \in PageClicks : /\ calls'[d] = calls[d] /\ ScoreOf(d)' = ScoreOf(d)
                                /\ ExpiryOf(d)' = ExpiryOf(d)
      BY <1>5, <1>6, <3>1
    <3>4. calls'[c].stage = "scoring" /\ calls'[c].sent = page.proofs
          /\ ScoreOf(c)' = 0 /\ ExpiryOf(c)' = 0
      BY <1>4, <1>5, <1>7, <2>4
    <3>5. 0 <= ScoreFor(page.proofs, now) /\ 0 <= now + Validity /\ page.proofs <= page.proofs
      <4>1. page.proofs \in 0..MaxProofs /\ now \in 1..MaxTime
        BY DEF RInv, IInv
      <4>2. ScoreFor(page.proofs, now) \in Nat
        BY <4>1, ScoresGrow
      <4>3. QED BY <4>2, Numbers
    <3>6. ASSUME NEW d \in PageClicks'
          PROVE  /\ calls'[d].sent <= page'.proofs
                 /\ ScoreOf(d)' <= ScoreFor(page'.proofs, now') /\ ExpiryOf(d)' <= now' + Validity
                 /\ d = c \/ calls'[d].stage = "ended"
      BY <1>2, <2>1, <3>1, <3>2, <3>3, <3>4, <3>5 DEF ClicksOrdered
    <3>7. QED BY <1>2, <2>1, <2>3, <3>4, <3>6 DEF ClicksOrdered, At
  <2>5. CASE r.kind # "click"
    <3>1. PageClicks' = PageClicks /\ PageClicks \subseteq Calls \ {c}
      <4>1. c \notin PageClicks' /\ c \notin PageClicks
        BY <1>1, <1>5, <2>5 DEF PageClicks, Is
      <4>2. PageClicks \subseteq Calls /\ PageClicks' \subseteq Calls
        BY DEF PageClicks
      <4>3. QED BY <1>6, <4>1, <4>2
    <3>2. \A d \in PageClicks : /\ calls'[d] = calls[d] /\ ScoreOf(d)' = ScoreOf(d)
                                /\ ExpiryOf(d)' = ExpiryOf(d)
      BY <1>5, <1>6, <3>1
    <3>3. \A d, e \in PageClicks : /\ NoLater(d, e) => NoLater(d, e)'
                                   /\ HeldNoLater(d) => HeldNoLater(d)'
      BY <1>9, <2>1, <3>2 DEF NoLater, HeldNoLater, Below
    <3>4. QED BY <1>2, <2>1, <2>3, <3>1, <3>2, <3>3 DEF ClicksOrdered, At
  <2>6. QED BY <2>4, <2>5
<1>11. NodeOrdered' /\ WalletOrdered'
  BY <1>1, <1>2, <1>5, <1>9, TransitFrame DEF At
<1>12. QED BY <1>8, <1>10, <1>11 DEF OrderInv

\* A click that is signed gets the latest envelope of all; nobody else gets one
\* of the applicant's.
LEMMA SignOrder ==
  ASSUME RInv, OrderInv, NEW c \in Calls, Sign(c)
  PROVE  OrderInv'
<1> DEFINE e(subject, n) == [key |-> enclave.key,
                             digest |-> Digest(subject, ScoreFor(n, now),
                                               now + Validity, enclave.codeHash)]
           r(subject, n) == [calls[c] EXCEPT !.stage = "signed", !.sent = 0,
                                             !.envelope = e(subject, n)]
<1>1. PICK subject \in SubjectOf(c), counted \in 0..calls[c].sent :
        /\ At(c, "scoring") /\ Set(c, r(subject, counted))
        /\ disturbed' = disturbed \cup IF counted = calls[c].sent THEN {} ELSE {"rejected"}
  BY Zenon DEF Sign
<1>2. /\ UNCHANGED <<scores, now, hasRelayer, mempool, wallet, page>>
      /\ Quiet' = Quiet /\ disturbed \subseteq disturbed'
  <2>1. UNCHANGED <<scores, now, hasRelayer, mempool, wallet, page>>
    BY Zenon DEF Sign, EnclaveSigns, keyVars
  <2>2. QED BY <1>1, <2>1 DEF Quiet
<1>3. /\ calls \in [Calls -> CallRecords(signed, mined)]
      /\ calls[c] \in CallRecords(signed, mined)
  BY DEF RInv
<1>4. /\ e(subject, counted).digest.score = ScoreFor(counted, now)
      /\ e(subject, counted).digest.expiry = now + Validity
      /\ e(subject, counted).digest.subject = subject
  BY DEF Digest
<1> HIDE DEF e
<1>5. /\ r(subject, counted).stage = "signed" /\ r(subject, counted).sent = 0
      /\ r(subject, counted).kind = calls[c].kind /\ r(subject, counted).envelope = e(subject, counted)
  BY <1>3 DEF CallRecords
<1> HIDE DEF r
<1>6. calls'[c] = r(subject, counted) /\ \A d \in Calls \ {c} : calls'[d] = calls[d]
  BY <1>1, <1>3 DEF Set
<1>7. /\ ScoreOf(c)' = ScoreFor(counted, now) /\ ExpiryOf(c)' = now + Validity
      /\ calls'[c].stage = "signed" /\ calls'[c].sent = 0 /\ calls'[c].kind = calls[c].kind
      /\ calls'[c].envelope.digest.subject = subject
  BY <1>4, <1>5, <1>6 DEF ScoreOf, ExpiryOf
<1>8. \A d \in Calls \ {c} : ScoreOf(d)' = ScoreOf(d) /\ ExpiryOf(d)' = ExpiryOf(d)
  BY <1>6 DEF ScoreOf, ExpiryOf
<1>9. /\ Held' = Held /\ Quiet' = Quiet
      /\ PageClicks' = PageClicks /\ PageClicks \subseteq Calls
      /\ UnderWay' = UnderWay /\ UnderWay \subseteq Calls
  BY <1>1, <1>2, <1>6, <1>7 DEF Held, PageClicks, UnderWay, Is, At
<1>10. CallsShape'
  <2> SUFFICES ASSUME NEW d \in Calls
               PROVE  /\ At(d, "idle")' => ScoreOf(d)' = 0 /\ ExpiryOf(d)' = 0
                      /\ Is(d, {"click"})' =>
                           /\ calls'[d].stage \in {"scoring", "ended"} \cup WithEnvelope
                           /\ calls'[d].stage \in {"send", "waiting"} => hasRelayer'
                      /\ Is(d, {"auto"})' =>
                           calls'[d].envelope.digest.subject # Applicant \/ ExpiryOf(d)' = 0
    BY DEF CallsShape
  <2>1. CASE d = c
    BY <1>7, <2>1 DEF At, Is, SubjectOf
  <2>2. CASE d # c
    BY <1>2, <1>6, <1>8, <2>2 DEF OrderInv, CallsShape, At, Is
  <2>3. QED BY <2>1, <2>2
<1>11. ASSUME Quiet PROVE ClicksOrdered'
  <2>1. ClicksOrdered
    BY <1>11 DEF OrderInv
  <2>2. CASE c \in PageClicks
    <3>1. c \in UnderWay
      BY <1>1, <2>2 DEF UnderWay, PageClicks, At, Is
    <3>2. \A d \in PageClicks \ {c} : calls'[d] = calls[d] /\ calls[d].stage = "ended"
      <4>1. ASSUME NEW d \in PageClicks \ {c} PROVE d \notin UnderWay
        BY <2>1, <3>1 DEF ClicksOrdered
      <4>2. QED BY <1>6, <1>9, <4>1 DEF OrderInv, CallsShape, UnderWay, PageClicks, Is
    <3>3. /\ calls[c].sent <= page.proofs /\ calls[c].sent \in Nat
          /\ page.proofs \in Nat /\ now \in Nat /\ Validity \in Nat
          /\ Held.score <= ScoreFor(calls[c].sent, now) /\ Held.expiry <= now + Validity
          /\ \A d \in PageClicks : /\ ScoreOf(d) <= ScoreFor(calls[c].sent, now)
                                   /\ ExpiryOf(d) <= now + Validity
      BY <1>1, <2>1, <2>2, Numbers DEF ClicksOrdered
    <3>4. /\ ScoreFor(counted, now) <= ScoreFor(page.proofs, now)
          /\ ScoreFor(counted, now) \in Int /\ now + Validity \in Int
      <4>1. counted \in 0..MaxProofs /\ page.proofs \in 0..MaxProofs /\ counted <= page.proofs
            /\ now \in 1..MaxTime
        <5>1. calls[c].sent \in 0..MaxProofs /\ page.proofs \in 0..MaxProofs
              /\ now \in 1..MaxTime
          BY <1>3 DEF RInv, IInv, CallRecords
        <5>2. QED BY <3>3, <5>1, RelayAssumption
      <4>2. QED BY <3>3, <4>1, ScoresGrow
    <3>5. HeldNoLater(c)' /\ \A d \in PageClicks : NoLater(d, c)'
      <4>1. "rejected" \notin disturbed' => ScoreOf(c)' = ScoreFor(calls[c].sent, now)
        BY <1>1, <1>7
      <4>2. ExpiryOf(c)' = now + Validity /\ Held'.score = Held.score /\ Held'.expiry = Held.expiry
        BY <1>7, <1>9
      <4>3. "rejected" \notin disturbed' =>
              /\ Held'.score <= ScoreOf(c)'
              /\ \A d \in PageClicks : ScoreOf(d)' <= ScoreOf(c)'
        <5>1. SUFFICES ASSUME "rejected" \notin disturbed'
                       PROVE  /\ Held'.score <= ScoreOf(c)'
                              /\ \A d \in PageClicks : ScoreOf(d)' <= ScoreOf(c)'
          OBVIOUS
        <5>2. ScoreOf(c)' = ScoreFor(calls[c].sent, now) /\ counted = calls[c].sent
          BY <1>1, <4>1, <5>1
        <5>3. \A d \in PageClicks : d = c \/ ScoreOf(d)' = ScoreOf(d)
          BY <1>8, <1>9
        <5>4. ScoreOf(c)' <= ScoreOf(c)'
          BY <3>4, <5>2
        <5>5. QED BY <3>3, <4>2, <5>2, <5>3, <5>4
      <4>4. \A d \in PageClicks : ExpiryOf(d)' <= ExpiryOf(c)'
        BY <1>8, <1>9, <3>3, <3>4, <4>2
      <4>5. QED BY <3>3, <4>2, <4>3, <4>4 DEF HeldNoLater, NoLater, Below
    <3>6. ASSUME NEW d \in PageClicks
          PROVE  /\ calls'[d].sent <= page'.proofs
                 /\ ScoreOf(d)' <= ScoreFor(page'.proofs, now') /\ ExpiryOf(d)' <= now' + Validity
                 /\ ~At(d, "scoring")'
                 /\ calls'[d].stage \in WithEnvelope => d = c
      <4>1. CASE d = c
        BY <1>2, <1>7, <3>3, <3>4, <4>1 DEF At
      <4>2. CASE d # c
        BY <1>2, <1>8, <1>9, <2>1, <3>2, <4>2 DEF At, ClicksOrdered
      <4>3. QED BY <4>1, <4>2
    <3>7. QED BY <1>2, <1>9, <2>1, <3>5, <3>6 DEF ClicksOrdered
  <2>3. CASE c \notin PageClicks
    <3>1. \A d \in PageClicks : /\ calls'[d] = calls[d] /\ ScoreOf(d)' = ScoreOf(d)
                                /\ ExpiryOf(d)' = ExpiryOf(d)
      BY <1>6, <1>8, <1>9, <2>3
    <3>2. \A d, f \in PageClicks : /\ NoLater(d, f) => NoLater(d, f)'
                                   /\ HeldNoLater(d) => HeldNoLater(d)'
      BY <1>2, <1>9, <3>1 DEF NoLater, HeldNoLater, Below
    <3>3. QED BY <1>2, <1>9, <2>1, <3>1, <3>2 DEF ClicksOrdered, At
  <2>4. QED BY <2>2, <2>3
<1>12. NodeOrdered' /\ WalletOrdered'
  BY <1>1, <1>2, <1>6, <1>9, TransitFrame DEF At
<1>13. QED BY <1>9, <1>10, <1>11, <1>12 DEF OrderInv

\* The node is sent the latest envelope, in place of any that waits there.
LEMMA SendOrder ==
  ASSUME RInv, OrderInv, NEW c \in Calls, SendRaw(c)
  PROVE  OrderInv'
<1>1. PICK to \in {"waiting", "ended"} : Go(c, "send", to)
  BY DEF SendRaw
<1>2. /\ UNCHANGED <<scores, now, hasRelayer, page, wallet>> /\ Quiet' = Quiet /\ At(c, "send")
      /\ disturbed \subseteq disturbed'
  BY <1>1 DEF SendRaw, registryVars, Go, Failure, Quiet
<1>3. CallsShape' /\ (Quiet => ClicksOrdered') /\ WalletOrdered'
  <2>1. Is(c, {"click"}) => hasRelayer
    BY <1>2 DEF OrderInv, CallsShape, At
  <2>2. QED BY <1>1, <1>2, <2>1, GoOrder
<1>4. mempool' = {[id |-> c, nonce |-> mined]}
  BY SendTakesPlace
<1>5. PageClicks' \subseteq PageClicks /\ calls'[c].stage \in Out
  BY <1>1, <1>2 DEF PageClicks, Go, Set, RInv, CallRecords, Is
<1>6. ASSUME c \in PageClicks PROVE hasRelayer /\ (Quiet => HeldNoLater(c)')
  <2>1. hasRelayer
    BY <1>2, <1>6 DEF OrderInv, CallsShape, At, PageClicks, Is
  <2>2. ASSUME Quiet PROVE HeldNoLater(c)'
    <3>1. HeldNoLater(c)
      BY <1>2, <1>6, <2>2 DEF OrderInv, ClicksOrdered, At
    <3>2. Held' = Held /\ ScoreOf(c)' = ScoreOf(c) /\ ExpiryOf(c)' = ExpiryOf(c)
      BY <1>1, <1>2 DEF Held, ScoreOf, ExpiryOf, Go, Set, RInv, CallRecords
    <3>3. QED BY <1>2, <3>1, <3>2 DEF HeldNoLater, Below
  <2>3. QED BY <2>1, <2>2
<1>7. NodeOrdered'
  BY <1>2, <1>4, <1>5, <1>6 DEF NodeOrdered
<1>8. QED BY <1>2, <1>3, <1>7 DEF OrderInv

\* The wallet is sent the latest envelope, behind those that wait there.
LEMMA WalletOrder ==
  ASSUME RInv, OrderInv, NEW c \in Calls, SendFromWallet(c)
  PROVE  OrderInv'
<1>1. /\ Go(c, "submitting", "refreshing") /\ Is(c, {"click"}) /\ ~hasRelayer
      /\ wallet' = Append(wallet, c) /\ At(c, "submitting")
      /\ UNCHANGED <<scores, now, hasRelayer, disturbed, mempool>>
      /\ page' = [page EXCEPT !.scoredFp = page.proofs]
  BY DEF SendFromWallet, registryVars, keyVars, Go
<1>2. page'.proofs = page.proofs
  BY <1>1 DEF RInv
<1>3. CallsShape' /\ (Quiet => ClicksOrdered') /\ NodeOrdered'
  BY <1>1, <1>2, GoOrder DEF Quiet
<1>4. /\ Quiet' = Quiet /\ Held' = Held /\ PageClicks' = PageClicks
      /\ \A d \in Calls : ScoreOf(d)' = ScoreOf(d) /\ ExpiryOf(d)' = ExpiryOf(d)
      /\ \A d \in Calls \ {c} : calls'[d] = calls[d]
      /\ calls'[c].stage = "refreshing"
  BY <1>1 DEF Quiet, Held, PageClicks, ScoreOf, ExpiryOf, Go, Set, RInv, CallRecords, Is
<1>5. wallet \in Seq(Calls) /\ c \in PageClicks
  BY <1>1 DEF RInv, PageClicks, Is
<1>6. \A i \in 1..Len(wallet) : /\ wallet[i] \in PageClicks /\ wallet[i] \in Calls
                                /\ calls[wallet[i]].stage \in Out
  BY <1>5 DEF OrderInv, WalletOrdered
<1>7. ASSUME Quiet
      PROVE  HeldNoLater(c) /\ \A d \in PageClicks : NoLater(d, c)
  BY <1>1, <1>5, <1>7 DEF OrderInv, ClicksOrdered, At
<1>8. WalletOrdered'
  <2> SUFFICES ASSUME NEW i \in 1..Len(wallet')
               PROVE  /\ ~hasRelayer' /\ wallet'[i] \in PageClicks'
                      /\ calls'[wallet'[i]].stage \in Out
                      /\ Quiet' => /\ HeldNoLater(wallet[i])'
                                   /\ \A j \in i..Len(wallet') : NoLater(wallet[i], wallet[j])'
    BY DEF WalletOrdered
  <2>1. Len(wallet') = Len(wallet) + 1 /\ wallet'[Len(wallet) + 1] = c
        /\ \A j \in 1..Len(wallet) : wallet'[j] = wallet[j]
    BY <1>1, <1>5
  <2>2. wallet'[i] \in PageClicks /\ wallet'[i] \in Calls /\ calls'[wallet'[i]].stage \in Out
    BY <1>4, <1>5, <1>6, <2>1
  <2>3. ASSUME Quiet
        PROVE  /\ HeldNoLater(wallet'[i])
               /\ \A j \in i..Len(wallet') : wallet'[j] \in Calls /\ NoLater(wallet'[i], wallet'[j])
    <3>1. CASE i = Len(wallet) + 1
      BY <1>5, <1>7, <2>1, <2>3, <3>1
    <3>2. CASE i \in 1..Len(wallet)
      <4>1. HeldNoLater(wallet[i]) /\ \A j \in i..Len(wallet) : NoLater(wallet[i], wallet[j])
        BY <2>3, <3>2 DEF OrderInv, WalletOrdered
      <4>2. ASSUME NEW j \in i..Len(wallet')
            PROVE  wallet'[j] \in Calls /\ NoLater(wallet[i], wallet'[j])
        <5>1. CASE j = Len(wallet) + 1
          BY <1>6, <1>7, <2>1, <2>3, <3>2, <5>1
        <5>2. CASE j \in i..Len(wallet)
          BY <1>6, <2>1, <3>2, <4>1, <5>2
        <5>3. QED BY <2>1, <3>2, <4>2, <5>1, <5>2
      <4>3. QED BY <2>1, <3>2, <4>1, <4>2
    <3>3. QED BY <1>5, <2>1, <3>1, <3>2
  <2>4. QED BY <1>1, <1>4, <2>2, <2>3 DEF NoLater, HeldNoLater, Below, ScoreOf, ExpiryOf
<1>9. QED BY <1>3, <1>4, <1>8 DEF OrderInv

\* The other steps of a handler.
LEMMA HandlerOrder ==
  ASSUME RInv, OrderInv, NEW c \in Calls, HandlerStep(c) \/ Refuse(c)
  PROVE  OrderInv'
<1>1. CASE Sign(c)
  BY <1>1, SignOrder
<1>2. CASE SendRaw(c)
  BY <1>2, SendOrder
<1>3. CASE SendFromWallet(c)
  BY <1>3, WalletOrder
<1>4. CASE Deliver(c) \/ Registered(c) \/ Returns(c) \/ Fails(c) \/ ShowScore(c) \/ Refuse(c)
  <2>1. /\ UNCHANGED <<scores, now, hasRelayer, mempool, wallet>>
        /\ Quiet' = Quiet /\ page'.proofs = page.proofs /\ disturbed \subseteq disturbed'
    <3>1. /\ UNCHANGED <<registryVars, keyVars, hasRelayer, wallet>>
          /\ disturbed' = disturbed \/ disturbed' = disturbed \cup Failure(c)
      BY <1>4, Zenon DEF Deliver, Registered, Returns, Fails, ShowScore, Refuse
    <3>2. \/ \E x : page' = [page EXCEPT !.envelope = x]
          \/ \E x : page' = [page EXCEPT !.scoredFp = x]
          \/ \E x : page' = [page EXCEPT !.scoreValid = x]
          \/ page' = page
      BY <1>4, Zenon DEF Deliver, Registered, Returns, Fails, ShowScore, Refuse
    <3>3. page'.proofs = page.proofs
      BY <3>2 DEF RInv
    <3>4. QED BY <3>1, <3>3 DEF registryVars, keyVars, Quiet, Failure
  <2>2. PICK from, to :
          /\ Go(c, from, to)
          /\ \/ from = "signed" /\ to = "submitting"
             \/ from = "waiting" /\ to = "refreshing"
             \/ from # "idle" /\ to = "ended"
             \/ from = "idle" /\ to = "refused"
    BY <1>4 DEF Deliver, Registered, Returns, Fails, ShowScore, Refuse
  <2>3. Is(c, {"click"}) => from # "idle"
    BY <2>2 DEF OrderInv, CallsShape, Go, At
  <2>4. (Quiet => ClicksOrdered') /\ CallsShape' /\ NodeOrdered' /\ WalletOrdered'
    BY <2>1, <2>2, <2>3, GoOrder
  <2>5. QED BY <2>1, <2>4 DEF OrderInv
<1>5. CASE ReadNonce(c) \/ ReadScore(c)
  <2> DEFINE r1 == [calls[c] EXCEPT !.stage = "send", !.nonce = TransactionCount]
             r2 == [calls[c] EXCEPT !.stage = "read", !.seen = GetScore(Applicant) # NoScore]
  <2>1. UNCHANGED <<scores, now, hasRelayer, disturbed, mempool, wallet, page>>
    BY <1>5, Zenon DEF ReadNonce, ReadScore, registryVars, keyVars
  <2>2. \/ Set(c, r1) /\ hasRelayer /\ Ready(c)
        \/ Set(c, r2) /\ At(c, "refreshing")
    BY <1>5, Zenon DEF ReadNonce, ReadScore
  <2>3. calls[c] \in CallRecords(signed, mined)
    BY DEF RInv
  <2>4. /\ r1.stage = "send" /\ r1.kind = calls[c].kind /\ r1.envelope = calls[c].envelope
        /\ r1.sent = calls[c].sent
    BY <2>3 DEF CallRecords
  <2>5. /\ r2.stage = "read" /\ r2.kind = calls[c].kind /\ r2.envelope = calls[c].envelope
        /\ r2.sent = calls[c].sent
    BY <2>3 DEF CallRecords
  <2> HIDE DEF r1, r2
  <2>6. Ready(c) => /\ calls[c].stage \in {"nonce", "submitting", "signed"}
                    /\ Is(c, {"click"}) => calls[c].stage \in WithEnvelope
    BY DEF Ready, At, OrderInv, CallsShape
  <2>7. PICK r : /\ calls' = [calls EXCEPT ![c] = r]
                 /\ r.kind = calls[c].kind /\ r.envelope = calls[c].envelope
                 /\ r.sent = calls[c].sent
                 /\ \/ /\ r.stage = "send" /\ hasRelayer
                       /\ calls[c].stage \in {"nonce", "submitting", "signed"}
                       /\ Is(c, {"click"}) => calls[c].stage \in WithEnvelope
                    \/ r.stage = "read" /\ calls[c].stage = "refreshing"
    BY <2>2, <2>4, <2>5, <2>6 DEF Set, At
  <2>8. (Quiet => ClicksOrdered') /\ CallsShape' /\ NodeOrdered' /\ WalletOrdered'
    BY <2>1, <2>7, MoveOrder DEF Quiet
  <2>9. QED BY <2>1, <2>8 DEF OrderInv, Quiet
<1>6. QED BY <1>1, <1>2, <1>3, <1>4, <1>5 DEF HandlerStep

\* The world moves on and leaves the calls and the applicant's score alone.
LEMMA WorldOrder ==
  ASSUME RInv, RInv', OrderInv, UNCHANGED <<calls, hasRelayer>>, mempool' \subseteq mempool,
         Held' = Held, now' >= now, page'.proofs >= page.proofs, Quiet' => Quiet,
         disturbed \subseteq disturbed'
  PROVE  /\ CallsShape' /\ (Quiet' => ClicksOrdered') /\ NodeOrdered'
         /\ wallet' = wallet => WalletOrdered'
<1>1. /\ PageClicks' = PageClicks /\ PageClicks \subseteq Calls
      /\ \A c \in Calls : ScoreOf(c)' = ScoreOf(c) /\ ExpiryOf(c)' = ExpiryOf(c)
      /\ \A c \in Calls : HeldNoLater(c) => HeldNoLater(c)'
      /\ \A c, d \in Calls : NoLater(c, d) => NoLater(c, d)'
      /\ UnderWay' = UnderWay
  BY DEF PageClicks, ScoreOf, ExpiryOf, HeldNoLater, NoLater, Below, UnderWay, Is
<1>2. CallsShape'
  BY <1>1 DEF OrderInv, CallsShape, At, Is
<1>3. ASSUME Quiet' PROVE ClicksOrdered'
  <2>1. ClicksOrdered
    BY <1>3 DEF OrderInv
  <2>2. /\ page.proofs \in Nat /\ page'.proofs \in Nat /\ now \in Nat /\ now' \in Nat
        /\ Validity \in Nat /\ Held.score \in Nat /\ Held.expiry \in Nat
        /\ \A c \in Calls : ScoreOf(c) \in Nat /\ ExpiryOf(c) \in Nat /\ calls[c].sent \in Nat
    <3>1. page'.proofs \in 0..MaxProofs
      BY DEF RInv
    <3>2. now' \in Nat
      BY DEF RInv, IInv, TypeOK
    <3>3. QED BY <3>1, <3>2, Numbers, RelayAssumption
  <2>3. /\ ScoreFor(page.proofs, now) <= ScoreFor(page'.proofs, now')
        /\ now + Validity <= now' + Validity
        /\ ScoreFor(page.proofs, now) \in Int /\ ScoreFor(page'.proofs, now') \in Int
        /\ \A c \in PageClicks : /\ ScoreFor(calls[c].sent, now) <= ScoreFor(calls[c].sent, now')
                                 /\ ScoreFor(calls[c].sent, now) \in Int
                                 /\ ScoreFor(calls[c].sent, now') \in Int
    <3>1. /\ page.proofs \in 0..MaxProofs /\ page'.proofs \in 0..MaxProofs
          /\ now \in 1..MaxTime /\ now' \in 1..MaxTime
      BY DEF RInv, IInv
    <3>2. \A c \in PageClicks : calls[c].sent \in 0..MaxProofs
      BY <1>1 DEF RInv, CallRecords
    <3>3. page.proofs <= page'.proofs /\ now <= now' /\ now + Validity <= now' + Validity
      <4>1. page.proofs <= page'.proofs /\ now <= now'
        BY <2>2
      <4>2. now \in Nat /\ now' \in Nat /\ Validity \in Nat
        BY <2>2
      <4>3. \A a, b, v \in Nat : a <= b => a + v <= b + v
        OBVIOUS
      <4>4. QED BY <4>1, <4>2, <4>3
    <3>4. /\ ScoreFor(page.proofs, now) <= ScoreFor(page'.proofs, now')
          /\ ScoreFor(page.proofs, now) \in Int /\ ScoreFor(page'.proofs, now') \in Int
      BY <3>1, <3>3, ScoresGrow
    <3>5. ASSUME NEW c \in PageClicks
          PROVE  /\ ScoreFor(calls[c].sent, now) <= ScoreFor(calls[c].sent, now')
                 /\ ScoreFor(calls[c].sent, now) \in Int
                 /\ ScoreFor(calls[c].sent, now') \in Int
      BY <3>1, <3>2, <3>3, ScoresGrow
    <3>6. QED BY <3>3, <3>4, <3>5
  <2>4. Held.score <= ScoreFor(page'.proofs, now') /\ Held.expiry <= now' + Validity
    BY <2>1, <2>2, <2>3 DEF ClicksOrdered
  <2>5. \A c \in PageClicks : /\ calls[c].sent <= page'.proofs
                              /\ ScoreOf(c) <= ScoreFor(page'.proofs, now')
                              /\ ExpiryOf(c) <= now' + Validity
    BY <1>1, <2>1, <2>2, <2>3 DEF ClicksOrdered
  <2>6. \A c \in PageClicks : At(c, "scoring") =>
          /\ Held.score <= ScoreFor(calls[c].sent, now')
          /\ \A d \in PageClicks : ScoreOf(d) <= ScoreFor(calls[c].sent, now')
    BY <1>1, <2>1, <2>2, <2>3 DEF ClicksOrdered
  <2>7. QED BY <1>1, <2>1, <2>4, <2>5, <2>6 DEF ClicksOrdered, At
<1>4. NodeOrdered'
  BY <1>1 DEF OrderInv, NodeOrdered
<1>5. ASSUME wallet' = wallet PROVE WalletOrdered'
  <2>1. \A i \in 1..Len(wallet) : wallet[i] \in Calls
    BY DEF RInv
  <2>2. QED BY <1>1, <1>5, <2>1 DEF OrderInv, WalletOrdered
<1>6. QED BY <1>2, <1>3, <1>4, <1>5

\* A transaction that changes the applicant's score is a click's, or the
\* envelope was sent by somebody else.
LEMMA ExecutesHeld ==
  ASSUME RInv, OrderInv, NEW c \in Calls, NEW ok, Executes(c, ok), Held' # Held
  PROVE  /\ Is(c, {"click"}) \/ Is(c, {"resubmit"})
         /\ Held'.score = ScoreOf(c) /\ Held'.expiry = ExpiryOf(c)
         /\ now' = now
<1> DEFINE d == calls[c].envelope.digest
<1>1. /\ Is(c, {"click", "auto", "resubmit"})
      /\ SubmitScore(d.subject, d.score, d.expiry, d.codeHash, calls[c].envelope)
  BY DEF Executes, registryVars, Held
<1>2. /\ d.expiry > now /\ now' = now
      /\ scores' = [scores EXCEPT ![d.subject] =
                      [score |-> d.score, expiry |-> d.expiry, codeHash |-> d.codeHash]]
  BY <1>1 DEF SubmitScore, Acceptable
<1>3. scores \in [Accounts -> [score : 0..1000, expiry : Nat, codeHash : CodeHashes \cup {NoHash}]]
      /\ Applicant \in Accounts /\ now \in Nat
  BY RelayAssumption, RegistryAssumption DEF RInv, IInv, TypeOK
<1>4. d.subject = Applicant
  BY <1>2, <1>3 DEF Held
<1>5. Held' = [score |-> d.score, expiry |-> d.expiry, codeHash |-> d.codeHash]
  BY <1>2, <1>3, <1>4 DEF Held
<1>6. ~Is(c, {"auto"})
  <2>1. ExpiryOf(c) # 0
    BY <1>2, <1>3 DEF ExpiryOf
  <2>2. QED BY <1>4, <2>1 DEF OrderInv, CallsShape
<1>7. QED BY <1>1, <1>2, <1>5, <1>6 DEF Is, ScoreOf, ExpiryOf

\* The score of a click whose transaction was in transit takes over.
LEMMA HeldBecomes ==
  ASSUME RInv, OrderInv, Quiet, NEW c \in PageClicks,
         UNCHANGED <<calls, page, now, disturbed>>,
         Held'.score = ScoreOf(c), Held'.expiry = ExpiryOf(c)
  PROVE  ClicksOrdered'
<1>1. /\ PageClicks' = PageClicks /\ PageClicks \subseteq Calls
      /\ \A d \in Calls : ScoreOf(d)' = ScoreOf(d) /\ ExpiryOf(d)' = ExpiryOf(d)
      /\ \A d, e \in Calls : NoLater(d, e)' = NoLater(d, e)
      /\ UnderWay' = UnderWay
  BY DEF PageClicks, ScoreOf, ExpiryOf, NoLater, Below, UnderWay, Is
<1>2. ClicksOrdered
  BY DEF OrderInv
<1>3. \A d \in PageClicks : calls[d].stage \in WithEnvelope => HeldNoLater(d)'
  <2>1. \A d \in PageClicks : calls[d].stage \in WithEnvelope => NoLater(c, d)
    BY <1>2 DEF ClicksOrdered
  <2>2. QED BY <1>1, <2>1 DEF NoLater, HeldNoLater, Below
<1>4. /\ Held'.score <= ScoreFor(page.proofs, now) /\ Held'.expiry <= now + Validity
      /\ \A d \in PageClicks : At(d, "scoring") => Held'.score <= ScoreFor(calls[d].sent, now)
  BY <1>2 DEF ClicksOrdered
<1>5. QED BY <1>1, <1>2, <1>3, <1>4 DEF ClicksOrdered, At

\* A transaction of the relayer key is mined.
LEMMA MineOrder ==
  ASSUME RInv, RInv', OrderInv, MineNext
  PROVE  OrderInv' /\ NewestStep
<1>1. PICK c \in Calls, ok \in BOOLEAN :
        Mine(c, ok) /\ Executes(c, ok) /\ disturbed' = disturbed \cup Meddling(c)
  BY DEF MineNext
<1>2. UNCHANGED <<hasRelayer, calls, page, wallet>> /\ mempool' = {}
  BY <1>1, MineKeepsKey DEF MineNext
<1>3. [id |-> c, nonce |-> mined] \in mempool
  BY <1>1 DEF Mine
<1>4. NodeOrdered'
  BY <1>2 DEF NodeOrdered
<1>5. Quiet' => Quiet /\ ~Is(c, {"resubmit"})
  BY <1>1 DEF Quiet, Meddling
<1>6. now' = now
  BY <1>1 DEF Executes, SubmitScore, registryVars
<1>7. CASE Held' = Held
  <2>1. page'.proofs >= page.proofs /\ now' >= now
    BY <1>2, <1>6, Numbers
  <2>2. disturbed \subseteq disturbed'
    BY <1>1
  <2>3. QED BY <1>2, <1>5, <1>7, <2>1, <2>2, WorldOrder DEF OrderInv, NewestStep
<1>8. CASE Held' # Held
  <2>1. /\ Is(c, {"click"}) \/ Is(c, {"resubmit"})
        /\ Held'.score = ScoreOf(c) /\ Held'.expiry = ExpiryOf(c)
    BY <1>1, <1>8, ExecutesHeld
  <2>2. CallsShape'
    BY <1>2 DEF OrderInv, CallsShape, At, Is, ScoreOf, ExpiryOf
  <2>3. CASE Quiet'
    <3>1. c \in PageClicks /\ Quiet /\ disturbed' = disturbed
      BY <1>1, <1>5, <2>1, <2>3 DEF PageClicks, Is, Meddling
    <3>2. hasRelayer /\ HeldNoLater(c)
      BY <1>3, <3>1 DEF OrderInv, NodeOrdered
    <3>3. ClicksOrdered'
      BY <1>2, <1>6, <2>1, <3>1, HeldBecomes
    <3>4. WalletOrdered'
      BY <1>2, <3>2 DEF OrderInv, WalletOrdered
    <3>5. NewestStep
      BY <2>1, <3>1, <3>2, Numbers DEF NewestStep, HeldNoLater, Below, PageClicks
    <3>6. QED BY <1>4, <2>2, <3>3, <3>4, <3>5 DEF OrderInv
  <2>4. CASE ~Quiet'
    <3>1. WalletOrdered'
      BY <1>2, <2>4 DEF OrderInv, WalletOrdered, PageClicks, Is
    <3>2. QED BY <1>4, <2>2, <2>4, <3>1 DEF OrderInv, NewestStep, Quiet
  <2>5. QED BY <2>3, <2>4
<1>9. QED BY <1>7, <1>8

\* The first of the wallet's transactions is mined.
LEMMA MineWalletOrder ==
  ASSUME RInv, RInv', OrderInv, MineWallet
  PROVE  OrderInv' /\ NewestStep
<1> DEFINE c == Head(wallet)
<1>1. PICK ok \in BOOLEAN : Executes(c, ok)
  BY DEF MineWallet
<1>2. /\ UNCHANGED <<hasRelayer, calls, page, disturbed, mempool>>
      /\ wallet' = Tail(wallet) /\ wallet # <<>>
  BY DEF MineWallet, keyVars
<1>3. wallet \in Seq(Calls) /\ 1 \in 1..Len(wallet) /\ c = wallet[1] /\ c \in Calls
  BY <1>2 DEF RInv
<1>4. /\ Len(wallet') = Len(wallet) - 1
      /\ \A i \in 1..Len(wallet') : wallet'[i] = wallet[i + 1] /\ i + 1 \in 1..Len(wallet)
  BY <1>2, <1>3
<1> HIDE DEF c
<1>5. now' = now /\ Quiet' = Quiet
  BY <1>1, <1>2 DEF Executes, SubmitScore, registryVars, Quiet
<1>6. ~hasRelayer /\ c \in PageClicks
  BY <1>3 DEF OrderInv, WalletOrdered
<1>7. ASSUME Quiet
      PROVE  /\ HeldNoLater(c)
             /\ \A i \in 1..Len(wallet) : NoLater(c, wallet[i])
  BY <1>3, <1>7 DEF OrderInv, WalletOrdered
<1>8. /\ Held' = Held \/ (Held'.score = ScoreOf(c) /\ Held'.expiry = ExpiryOf(c))
  BY <1>1, <1>3, ExecutesHeld
<1>9. CallsShape' /\ (Quiet' => ClicksOrdered')
  <2>1. CASE Held' = Held
    <3>1. page'.proofs >= page.proofs /\ now' >= now
      BY <1>2, <1>5, Numbers
    <3>2. QED BY <1>2, <1>5, <2>1, <3>1, WorldOrder
  <2>2. CASE Held' # Held
    <3>1. CallsShape'
      BY <1>2 DEF OrderInv, CallsShape, At, Is, ScoreOf, ExpiryOf
    <3>2. QED BY <1>2, <1>5, <1>6, <1>8, <2>2, <3>1, HeldBecomes
  <2>3. QED BY <2>1, <2>2
<1>10. NodeOrdered'
  BY <1>2, <1>6 DEF OrderInv, NodeOrdered, PageClicks, Is
<1>11. ASSUME NEW i \in 1..Len(wallet'), Quiet
       PROVE  HeldNoLater(wallet[i])'
  <2>1. HeldNoLater(wallet'[i]) /\ NoLater(c, wallet'[i])
    BY <1>4, <1>7, <1>11 DEF OrderInv, WalletOrdered
  <2>2. QED BY <1>2, <1>8, <2>1 DEF HeldNoLater, NoLater, Below, ScoreOf, ExpiryOf
<1>12. WalletOrdered'
  <2> SUFFICES ASSUME NEW i \in 1..Len(wallet')
               PROVE  /\ ~hasRelayer' /\ wallet'[i] \in PageClicks'
                      /\ calls'[wallet'[i]].stage \in Out
                      /\ Quiet' => /\ HeldNoLater(wallet[i])'
                                   /\ \A j \in i..Len(wallet') : NoLater(wallet[i], wallet[j])'
    BY DEF WalletOrdered
  <2>1. /\ wallet'[i] \in PageClicks /\ calls[wallet'[i]].stage \in Out
        /\ Quiet => \A j \in (i + 1)..Len(wallet) : NoLater(wallet'[i], wallet[j])
    BY <1>4 DEF OrderInv, WalletOrdered
  <2>2. Quiet => \A j \in i..Len(wallet') : NoLater(wallet'[i], wallet'[j])
    <3> SUFFICES ASSUME Quiet, NEW j \in i..Len(wallet')
                 PROVE  NoLater(wallet'[i], wallet'[j])
      OBVIOUS
    <3>1. j \in 1..Len(wallet') /\ j + 1 \in (i + 1)..Len(wallet)
      BY <1>3, <1>4
    <3>2. wallet'[j] = wallet[j + 1]
      BY <1>4, <3>1
    <3>3. NoLater(wallet'[i], wallet[j + 1])
      BY <2>1, <3>1
    <3>4. QED BY <3>2, <3>3
  <2>3. Quiet => \A j \in i..Len(wallet') : NoLater(wallet[i], wallet[j])'
    BY <1>2, <2>2 DEF NoLater, Below, ScoreOf, ExpiryOf
  <2>4. QED BY <1>2, <1>5, <1>6, <1>11, <2>1, <2>3 DEF PageClicks, Is
<1>13. NewestStep
  BY <1>2, <1>3, <1>5, <1>7, <1>8, Numbers DEF NewestStep, HeldNoLater, Below, Quiet
<1>14. QED BY <1>5, <1>9, <1>10, <1>12 , <1>13 DEF OrderInv

\* Every step keeps the order, and none puts an earlier score in place of a
\* later one.
LEMMA OrderStep ==
  ASSUME RInv, RInv', OrderInv, [RelayNext]_relayVars
  PROVE  OrderInv' /\ NewestStep
<1>1. ASSUME NEW c \in Calls, Click(c) \/ Refuse(c) \/ Visit(c) \/ HandlerStep(c)
      PROVE  OrderInv' /\ NewestStep
  <2>1. scores' = scores
    <3>1. CASE Click(c) \/ Refuse(c) \/ Visit(c)
      BY <3>1, Zenon DEF Click, Refuse, Visit, registryVars
    <3>2. CASE HandlerStep(c)
      <4>1. CASE Sign(c)
        BY <4>1, Zenon DEF Sign, EnclaveSigns
      <4>2. CASE ~Sign(c)
        BY <3>2, <4>2, HandlerKeeps DEF HandlerStep, registryVars
      <4>3. QED BY <4>1, <4>2
    <3>3. QED BY <1>1, <3>1, <3>2
  <2>2. NewestStep
    BY <2>1 DEF NewestStep, Held
  <2>3. QED BY <1>1, <2>2, BeginOrder, HandlerOrder
<1>2. CASE MineNext
  BY <1>2, MineOrder
<1>3. CASE MineWallet
  BY <1>3, MineWalletOrder
<1>4. CASE Meddle
  <2>1. ~Quiet' /\ UNCHANGED <<calls, hasRelayer, mempool, wallet>>
    BY <1>4 DEF Meddle, Quiet, keyVars
  <2>2. CallsShape' /\ NodeOrdered' /\ WalletOrdered'
    BY <2>1 DEF OrderInv, CallsShape, NodeOrdered, WalletOrdered, At, Is, ScoreOf, ExpiryOf,
                PageClicks
  <2>3. QED BY <2>1, <2>2 DEF OrderInv, NewestStep, Quiet
<1>5. CASE \/ ProofArrives \/ Register \/ Passes \/ UNCHANGED relayVars
           \/ \E k \in Keys, h \in CodeHashes : Boot(k, h)
  <2>1. /\ UNCHANGED <<scores, calls, hasRelayer, mempool, wallet>>
        /\ disturbed \subseteq disturbed'
    BY <1>5 DEF ProofArrives, Register, Passes, Boot, relayVars, registryVars, keyVars,
                Registration, RegisterTeeSigner, Tick
  <2>2. now' >= now
    BY <1>5, Numbers DEF ProofArrives, Register, Passes, Boot, relayVars, registryVars,
                         Registration, RegisterTeeSigner, Tick
  <2>3. page'.proofs >= page.proofs
    <3>1. CASE ProofArrives
      <4>1. page'.proofs = page.proofs + 1
        BY <3>1 DEF ProofArrives, RInv
      <4>2. QED BY <4>1, Numbers
    <3>2. CASE ~ProofArrives
      <4>1. page' = page
        BY <1>5, <3>2 DEF Register, Passes, Boot, relayVars
      <4>2. QED BY <4>1, Numbers
    <3>3. QED BY <3>1, <3>2
  <2>4. Held' = Held /\ (Quiet' => Quiet)
    BY <2>1 DEF Held, Quiet
  <2>5. QED BY <2>1, <2>2, <2>3, <2>4, WorldOrder DEF OrderInv, NewestStep
<1>6. QED BY <1>1, <1>2, <1>3, <1>4, <1>5 DEF RelayNext

\* Before the first click there is nothing to put in order.
LEMMA OrderInit == ASSUME RelayInit PROVE OrderInv
<1>1. /\ mempool = {} /\ wallet = <<>> /\ page.proofs = 0 /\ now = 1
      /\ scores = [a \in Accounts |-> NoScore]
  BY DEF RelayInit, Init, KeyInit
<1>2. calls = [c \in Calls |-> NewCall]
  BY DEF RelayInit
<1>3. Held.score = 0 /\ Held.expiry = 0
  BY <1>1, RelayAssumption, RegistryAssumption DEF Held, NoScore
<1>4. \A c \in Calls : /\ calls[c].stage = "idle" /\ calls[c].kind = "none"
                       /\ ScoreOf(c) = 0 /\ ExpiryOf(c) = 0
  BY <1>2 DEF NewCall, NoEnvelope, Digest, ScoreOf, ExpiryOf
<1>5. CallsShape
  BY <1>4 DEF CallsShape, At, Is
<1>6. ClicksOrdered
  <2>1. ScoreFor(0, 1) \in Nat
    BY ScoresGrow, RelayAssumption, RegistryAssumption
  <2>2. QED BY <1>1, <1>3, <1>4, <2>1, RegistryAssumption
               DEF ClicksOrdered, UnderWay, PageClicks, Is
<1>7. NodeOrdered /\ WalletOrdered
  BY <1>1 DEF NodeOrdered, WalletOrdered
<1>8. QED BY <1>5, <1>6, <1>7 DEF OrderInv

\* As long as the user waits for a click to end and nobody else sends the
\* applicant's envelopes, no submission, however late it is mined, puts an
\* earlier score in the place of a later one: for any number of clicks.
THEOREM NewestScoreIsKept == RelaySpec => NewestScoreStays
<1>1. RInv /\ RInv' /\ OrderInv /\ [RelayNext]_relayVars => OrderInv'
  BY OrderStep
<1>2. RelaySpec => []OrderInv
  BY <1>1, OrderInit, RelayInvariance, PTL DEF RelaySpec
<1>3. RInv /\ RInv' /\ OrderInv /\ [RelayNext]_relayVars => [NewestStep]_relayVars
  BY OrderStep
<1>4. QED BY <1>2, <1>3, RelayInvariance, PTL DEF RelaySpec, NewestScoreStays
-----------------------------------------------------------------------------
\* Why a click is refused only for what is registered. In a history that the
\* page expects, with every transaction in a block having succeeded, a click
\* that ends after its envelope was delivered ends with that envelope in the
\* registry.
Calm == hasRelayer /\ disturbed = {} /\ \A r \in receipts : r.ok

\* The click of c has delivered its envelope and waits for the submission.
Sending == {"submitting", "send", "waiting"}
Submits(c) == Is(c, {"click"}) /\ calls[c].stage \in Sending

\* A click under way counts the page's proofs, and once it has delivered its
\* envelope that is the page's; when its transaction is in a block, the registry
\* holds it.
CallSettled(c) ==
  Is(c, {"click"}) =>
    /\ At(c, "scoring") => calls[c].sent = page.proofs
    /\ calls[c].stage \in {"signed"} \cup Sending =>
         /\ ScoreOf(c) = ScoreFor(page.proofs, ExpiryOf(c) - Validity)
         /\ calls[c].envelope.digest.subject = Applicant
    /\ calls[c].stage \in Sending => page.envelope = calls[c].envelope
    /\ (\E t \in mempool : t.id = c) => At(c, "waiting")
    /\ At(c, "waiting") /\ (\E r \in receipts : r.id = c) =>
         Held.score = ScoreOf(c) /\ Held.expiry = ExpiryOf(c)

\* Between the clicks, the registry holds the page's envelope, of the proofs
\* the page has noted.
PageSettled ==
  page.envelope # NoEnvelope /\ (\A c \in Calls : ~Submits(c)) =>
    /\ Held.score = page.envelope.digest.score
    /\ Held.expiry = page.envelope.digest.expiry
    /\ Held.score = ScoreFor(page.scoredFp, Held.expiry - Validity)

\* Receipts are of calls that sent a transaction, none of which waits again.
ReceiptsShape ==
  \A r \in receipts : /\ r.id \in Calls /\ calls[r.id].stage \in Out
                      /\ \A t \in mempool : t.id # r.id

SettledInv ==
  /\ ReceiptsShape
  /\ Calm => PageSettled /\ \A c \in Calls : CallSettled(c)

USE DEF Sending

\* What becomes of the calls' records.
LEMMA SetCall ==
  ASSUME RInv, NEW c \in Calls, NEW r, Set(c, r)
  PROVE  calls'[c] = r /\ \A d \in Calls \ {c} : calls'[d] = calls[d]
BY DEF RInv, Set

LEMMA GoCall ==
  ASSUME RInv, NEW c \in Calls, NEW from, NEW to, Go(c, from, to)
  PROVE  /\ calls[c].stage = from /\ calls'[c].stage = to
         /\ calls'[c].kind = calls[c].kind /\ calls'[c].envelope = calls[c].envelope
         /\ \A d \in Calls \ {c} : calls'[d] = calls[d]
<1> DEFINE r == [calls[c] EXCEPT !.stage = to, !.sent = 0, !.nonce = 0, !.seen = FALSE]
<1>1. calls[c] \in CallRecords(signed, mined) /\ calls[c].stage = from
  BY DEF RInv, Go, At
<1>2. r.stage = to /\ r.kind = calls[c].kind /\ r.envelope = calls[c].envelope
  BY <1>1 DEF CallRecords
<1>3. Set(c, r)
  BY DEF Go
<1> HIDE DEF r
<1>4. QED BY <1>1, <1>2, <1>3, SetCall

\* The handlers: only one call changes, and what was sent stays sent.
LEMMA OneCall ==
  ASSUME RInv, NEW c \in Calls, Click(c) \/ Visit(c) \/ Refuse(c) \/ HandlerStep(c)
  PROVE  /\ \A d \in Calls \ {c} : calls'[d] = calls[d]
         /\ calls[c].stage \in Out => calls'[c].stage \in Out
         /\ UNCHANGED <<scores, receipts, hasRelayer>> /\ disturbed \subseteq disturbed'
         /\ page'.proofs = page.proofs
         /\ SendRaw(c) \/ mempool' = mempool
<1>1. /\ UNCHANGED <<scores, receipts, hasRelayer>> /\ disturbed \subseteq disturbed'
      /\ SendRaw(c) \/ mempool' = mempool
  <2>1. CASE Click(c) \/ Visit(c) \/ Refuse(c)
    BY <2>1, Zenon DEF Click, Visit, Refuse, registryVars, keyVars
  <2>2. CASE Sign(c)
    BY <2>2, Zenon DEF Sign, EnclaveSigns, keyVars
  <2>3. CASE SendRaw(c)
    BY <2>3, Zenon DEF SendRaw, Send, registryVars
  <2>4. CASE ~Sign(c) /\ ~SendRaw(c) /\ HandlerStep(c)
    BY <2>4, Zenon DEF HandlerStep, Deliver, ReadNonce, Registered, Returns, Fails,
                       SendFromWallet, ReadScore, ShowScore, registryVars, keyVars
  <2>5. QED BY <2>1, <2>2, <2>3, <2>4
<1>2. page'.proofs = page.proofs
  <2>1. \/ page' = page
        \/ \E x : page' = [page EXCEPT !.envelope = x]
        \/ \E x : page' = [page EXCEPT !.scoredFp = x]
        \/ \E x : page' = [page EXCEPT !.scoreValid = x]
    BY Zenon DEF Click, Visit, Refuse, HandlerStep, Sign, Deliver, ReadNonce, SendRaw,
             Registered, Returns, Fails, SendFromWallet, ReadScore, ShowScore
  <2>2. QED BY <2>1 DEF RInv
<1>3. /\ \A d \in Calls \ {c} : calls'[d] = calls[d]
      /\ calls[c].stage \in Out => calls'[c].stage \in Out
  <2>1. CASE \E from, to : Go(c, from, to) /\ (from \in Out => to \in Out)
    BY <2>1, GoCall
  <2>2. CASE \E r : /\ Set(c, r)
                    /\ calls[c].stage \notin Out \/ r.stage \in Out
    BY <2>2, SetCall
  <2>3. CASE Refuse(c) \/ (HandlerStep(c) /\ ~Sign(c) /\ ~ReadNonce(c) /\ ~ReadScore(c))
    BY <2>1, <2>3 DEF Refuse, HandlerStep, Deliver, SendRaw, Registered, Returns, Fails,
                      SendFromWallet, ShowScore
  <2>4. CASE Click(c) \/ Visit(c) \/ Sign(c) \/ ReadNonce(c)
    <3>1. calls[c].stage \in {"idle", "scoring", "nonce", "submitting", "signed"}
      BY <2>4, Zenon DEF Click, Visit, Sign, ReadNonce, Ready, At
    <3>2. \E r : Set(c, r)
      BY <2>4, Zenon DEF Click, Visit, Sign, ReadNonce
    <3>3. QED BY <2>2, <3>1, <3>2
  <2>5. CASE ReadScore(c)
    <3> DEFINE r == [calls[c] EXCEPT !.stage = "read", !.seen = GetScore(Applicant) # NoScore]
    <3>1. Set(c, r)
      BY <2>5, Zenon DEF ReadScore
    <3>2. r.stage = "read"
      BY DEF RInv, CallRecords
    <3> HIDE DEF r
    <3>3. QED BY <2>2, <3>1, <3>2
  <2>6. QED BY <2>3, <2>4, <2>5
<1>4. QED BY <1>1, <1>2, <1>3

\* A call that does not move stays settled.
LEMMA StaysSettled ==
  ASSUME NEW d \in Calls, CallSettled(d), calls'[d] = calls[d], Held' = Held,
         calls[d].stage \in {"scoring", "signed"} \cup Sending /\ Is(d, {"click"})
           => page'.proofs = page.proofs,
         Submits(d) => page'.envelope = page.envelope,
         \A r \in receipts' : r.id = d => r \in receipts,
         \A t \in mempool' : t.id = d => t \in mempool
  PROVE  CallSettled(d)'
BY DEF CallSettled, Submits, At, Is, ScoreOf, ExpiryOf

\* And so does the page, if no submission comes to an end.
LEMMA PageStaysSettled ==
  ASSUME PageSettled, Held' = Held, page'.envelope = page.envelope,
         page'.scoredFp = page.scoredFp, \A d \in Calls : Submits(d) => Submits(d)'
  PROVE  PageSettled'
BY DEF PageSettled

\* The receipts keep their shape when a call moves.
LEMMA ReceiptsMove ==
  ASSUME RInv, SettledInv, NEW c \in Calls,
         Click(c) \/ Visit(c) \/ Refuse(c) \/ HandlerStep(c)
  PROVE  ReceiptsShape'
<1>1. \A d \in Calls : calls[d].stage \in Out => calls'[d].stage \in Out
  BY OneCall
<1>2. receipts' = receipts
  BY OneCall
<1>3. \A r \in receipts : r.id \in Calls /\ calls'[r.id].stage \in Out
  BY <1>1 DEF SettledInv, ReceiptsShape
<1>4. \A r \in receipts, t \in mempool' : t.id # r.id
  <2>1. CASE SendRaw(c)
    <3>1. mempool' = {[id |-> c, nonce |-> mined]}
      BY <2>1, SendTakesPlace
    <3>2. calls[c].stage = "send"
      BY <2>1 DEF SendRaw, Go, At
    <3>3. \A r \in receipts : r.id # c
      BY <3>2 DEF SettledInv, ReceiptsShape
    <3>4. QED BY <3>1, <3>3
  <2>2. CASE mempool' = mempool
    BY <2>2 DEF SettledInv, ReceiptsShape
  <2>3. QED BY <2>1, <2>2, OneCall
<1>5. QED BY <1>2, <1>3, <1>4 DEF ReceiptsShape

\* What the expected history leaves of the steps of a call: the others stay as
\* they are, and a call that has sent nothing is not with the node.
LEMMA OthersSettled ==
  ASSUME RInv, OrderInv, SettledInv, NEW c \in Calls, Calm',
         Click(c) \/ Visit(c) \/ Refuse(c) \/ HandlerStep(c),
         page'.envelope = page.envelope \/ c \in UnderWay
  PROVE  /\ Calm /\ PageSettled /\ CallSettled(c) /\ Held' = Held
         /\ \A d \in Calls \ {c} : CallSettled(d)'
         /\ calls[c].stage \notin Out =>
              (\A t \in mempool : t.id # c) /\ (\A r \in receipts' : r.id # c)
<1>1. Calm
  BY OneCall DEF Calm
<1>2. Quiet /\ ClicksOrdered
  BY <1>1 DEF Calm, Quiet, OrderInv
<1>3. Held' = Held /\ receipts' = receipts
  BY OneCall DEF Held
<1>4. \A t \in mempool' : t.id = c \/ t \in mempool
  <2>1. CASE SendRaw(c)
    BY <2>1, SendTakesPlace
  <2>2. QED BY <2>1, OneCall
<1>5. ASSUME NEW d \in Calls \ {c} PROVE CallSettled(d)'
  <2>1. Submits(d) => page'.envelope = page.envelope
    <3>1. Submits(d) => d \in UnderWay
      BY DEF Submits, UnderWay, Is
    <3>2. QED BY <1>2, <1>5, <3>1 DEF ClicksOrdered
  <2>2. CallSettled(d)
    BY <1>1 DEF SettledInv
  <2>3. calls'[d] = calls[d] /\ page'.proofs = page.proofs
    BY OneCall
  <2>4. QED BY <1>3, <1>4, <1>5, <2>1, <2>2, <2>3, StaysSettled
<1>6. calls[c].stage \notin Out =>
        (\A t \in mempool : t.id # c) /\ (\A r \in receipts' : r.id # c)
  BY <1>3 DEF OrderInv, NodeOrdered, SettledInv, ReceiptsShape
<1>7. QED BY <1>1, <1>3, <1>5, <1>6 DEF SettledInv

\* A click begins, with the proofs of the moment; a visit is none.
LEMMA BeginSettled ==
  ASSUME RInv, OrderInv, SettledInv, NEW c \in Calls, Click(c) \/ Visit(c), Calm'
  PROVE  PageSettled' /\ \A d \in Calls : CallSettled(d)'
<1>1. page' = page /\ mempool' = mempool /\ At(c, "idle")
  BY Zenon DEF Click, Visit, keyVars
<1>2. /\ PageSettled /\ Held' = Held /\ \A d \in Calls \ {c} : CallSettled(d)'
      /\ \A t \in mempool' : t.id # c
  BY <1>1, OthersSettled DEF At
<1>3. Is(c, {"click"})' => calls'[c].stage = "scoring" /\ calls'[c].sent = page.proofs
  <2>1. calls[c] \in CallRecords(signed, mined)
    BY DEF RInv
  <2>2. CASE Click(c)
    <3> DEFINE r1 == [calls[c] EXCEPT !.stage = "scoring", !.kind = "click",
                                      !.sent = page.proofs]
               r2 == [calls[c] EXCEPT !.stage = "nonce", !.kind = "instruct"]
    <3>1. Set(c, r1) \/ Set(c, r2)
      BY <2>2, Zenon DEF Click
    <3>2. r1.stage = "scoring" /\ r1.sent = page.proofs /\ r2.kind # "click"
      BY <2>1 DEF CallRecords
    <3> HIDE DEF r1, r2
    <3>3. QED BY <3>1, <3>2, SetCall DEF Is
  <2>3. CASE Visit(c)
    <3> DEFINE r3 == [calls[c] EXCEPT !.stage = "nonce", !.kind = "attest"]
               r4 == [calls[c] EXCEPT !.stage = "scoring", !.kind = "auto"]
               r5(e) == [calls[c] EXCEPT !.stage = "submitting", !.kind = "resubmit",
                                         !.envelope = e]
    <3>1. Set(c, r3) \/ Set(c, r4) \/ \E e \in signed : Set(c, r5(e))
      BY <2>3, Zenon DEF Visit
    <3>2. r3.kind # "click" /\ r4.kind # "click" /\ \A e \in signed : r5(e).kind # "click"
      BY <2>1 DEF CallRecords
    <3> HIDE DEF r3, r4, r5
    <3>3. QED BY <3>1, <3>2, SetCall DEF Is
  <2>4. QED BY <2>2, <2>3
<1>4. CallSettled(c)'
  BY <1>1, <1>2, <1>3 DEF CallSettled, At, Is
<1>5. \A d \in Calls : Submits(d) => Submits(d)'
  <2>1. ~Submits(c)
    BY <1>1 DEF Submits, At
  <2>2. QED BY <2>1, OneCall DEF Submits, Is
<1>6. QED BY <1>1, <1>2, <1>4, <1>5, PageStaysSettled

\* The enclave signs the score of those proofs.
LEMMA SignSettled ==
  ASSUME RInv, OrderInv, SettledInv, NEW c \in Calls, Sign(c), Calm'
  PROVE  PageSettled' /\ \A d \in Calls : CallSettled(d)'
<1> DEFINE e(subject, n) == [key |-> enclave.key,
                             digest |-> Digest(subject, ScoreFor(n, now),
                                               now + Validity, enclave.codeHash)]
           r(subject, n) == [calls[c] EXCEPT !.stage = "signed", !.sent = 0,
                                             !.envelope = e(subject, n)]
<1>0. PICK subject \in SubjectOf(c), counted \in 0..calls[c].sent :
        /\ At(c, "scoring") /\ Set(c, r(subject, counted))
        /\ disturbed' = disturbed \cup IF counted = calls[c].sent THEN {} ELSE {"rejected"}
  BY Zenon DEF Sign
<1>1. At(c, "scoring") /\ Set(c, r(subject, calls[c].sent))
  <2>1. counted = calls[c].sent
    BY <1>0 DEF Calm
  <2>2. QED BY <1>0, <2>1
<1>2. page' = page /\ mempool' = mempool /\ HandlerStep(c)
  BY Zenon DEF Sign, keyVars, HandlerStep
<1>3. /\ PageSettled /\ CallSettled(c) /\ Held' = Held /\ \A d \in Calls \ {c} : CallSettled(d)'
      /\ \A t \in mempool' : t.id # c
  BY <1>1, <1>2, OthersSettled DEF At
<1>4. /\ e(subject, calls[c].sent).digest.score = ScoreFor(calls[c].sent, e(subject, calls[c].sent).digest.expiry - Validity)
      /\ e(subject, calls[c].sent).digest.subject = subject
  <2>1. /\ e(subject, calls[c].sent).digest.score = ScoreFor(calls[c].sent, now)
        /\ e(subject, calls[c].sent).digest.expiry = now + Validity /\ e(subject, calls[c].sent).digest.subject = subject
    BY DEF Digest
  <2>2. (now + Validity) - Validity = now
    BY Numbers
  <2>3. QED BY <2>1, <2>2
<1> HIDE DEF e
<1>5. /\ r(subject, calls[c].sent).stage = "signed" /\ r(subject, calls[c].sent).kind = calls[c].kind
      /\ r(subject, calls[c].sent).envelope = e(subject, calls[c].sent)
  BY DEF RInv, CallRecords
<1> HIDE DEF r
<1>6. /\ calls'[c].stage = "signed" /\ calls'[c].kind = calls[c].kind
      /\ calls'[c].envelope = e(subject, calls[c].sent)
  BY <1>1, <1>5, SetCall
<1>7. CallSettled(c)'
  <2>1. Is(c, {"click"}) => subject = Applicant /\ calls[c].sent = page.proofs
    BY <1>1, <1>3 DEF SubjectOf, CallSettled
  <2>2. QED BY <1>2, <1>3, <1>4, <1>6, <2>1 DEF CallSettled, At, Is, ScoreOf, ExpiryOf
<1>8. \A d \in Calls : Submits(d) => Submits(d)'
  <2>1. ~Submits(c)
    BY <1>1 DEF Submits, At
  <2>2. QED BY <1>2, <2>1, OneCall DEF Submits, Is
<1>9. QED BY <1>2, <1>3, <1>7, <1>8, PageStaysSettled

\* The page takes the envelope over.
LEMMA DeliverSettled ==
  ASSUME RInv, OrderInv, SettledInv, NEW c \in Calls, Deliver(c), Calm'
  PROVE  PageSettled' /\ \A d \in Calls : CallSettled(d)'
<1>1. /\ Go(c, "signed", "submitting") /\ Is(c, {"click"}) /\ mempool' = mempool
      /\ page' = [page EXCEPT !.envelope = calls[c].envelope] /\ HandlerStep(c)
  BY Zenon DEF Deliver, keyVars, HandlerStep
<1>2. page'.envelope = calls[c].envelope /\ page'.proofs = page.proofs
  BY <1>1 DEF RInv
<1>3. /\ calls[c].stage = "signed" /\ calls'[c].stage = "submitting"
      /\ calls'[c].kind = calls[c].kind /\ calls'[c].envelope = calls[c].envelope
  BY <1>1, GoCall
<1>4. c \in UnderWay
  BY <1>1, <1>3 DEF UnderWay, Is
<1>5. /\ CallSettled(c) /\ \A d \in Calls \ {c} : CallSettled(d)'
      /\ \A t \in mempool' : t.id # c
  BY <1>1, <1>3, <1>4, OthersSettled
<1>6. CallSettled(c)'
  BY <1>1, <1>2, <1>3, <1>5 DEF CallSettled, At, Is, ScoreOf, ExpiryOf
<1>7. Submits(c)'
  BY <1>1, <1>3 DEF Submits, Is
<1>8. QED BY <1>5, <1>6, <1>7 DEF PageSettled

\* The submission goes on.
LEMMA SubmissionSettled ==
  ASSUME RInv, OrderInv, SettledInv, NEW c \in Calls, ReadNonce(c) \/ SendRaw(c), Calm'
  PROVE  PageSettled' /\ \A d \in Calls : CallSettled(d)'
<1>1. page' = page /\ HandlerStep(c)
  BY Zenon DEF ReadNonce, SendRaw, HandlerStep
<1>2. /\ PageSettled /\ CallSettled(c) /\ Held' = Held /\ \A d \in Calls \ {c} : CallSettled(d)'
      /\ calls[c].stage \notin Out =>
           (\A t \in mempool : t.id # c) /\ (\A r \in receipts' : r.id # c)
  BY <1>1, OthersSettled
<1>3. /\ calls'[c].kind = calls[c].kind /\ calls'[c].envelope = calls[c].envelope
      /\ Is(c, {"click"}) =>
           \/ calls[c].stage = "submitting" /\ calls'[c].stage = "send" /\ mempool' = mempool
           \/ calls[c].stage = "send" /\ calls'[c].stage = "waiting"
  <2>1. CASE ReadNonce(c)
    <3> DEFINE r == [calls[c] EXCEPT !.stage = "send", !.nonce = TransactionCount]
    <3>1. Set(c, r) /\ Ready(c) /\ mempool' = mempool
      BY <2>1, Zenon DEF ReadNonce, keyVars
    <3>2. r.stage = "send" /\ r.kind = calls[c].kind /\ r.envelope = calls[c].envelope
      BY DEF RInv, CallRecords
    <3> HIDE DEF r
    <3>3. Is(c, {"click"}) => calls[c].stage = "submitting"
      BY <3>1 DEF Ready, At, Is, OrderInv, CallsShape
    <3>4. QED BY <3>1, <3>2, <3>3, SetCall
  <2>2. CASE SendRaw(c)
    <3>1. CASE Go(c, "send", "waiting")
      BY <3>1, GoCall
    <3>2. CASE Go(c, "send", "ended") /\ disturbed' = disturbed \cup Failure(c)
      <4>1. ~Is(c, {"click"})
        BY <3>2 DEF Calm, Failure
      <4>2. QED BY <3>2, <4>1, GoCall
    <3>3. QED BY <2>2, <3>1, <3>2 DEF SendRaw
  <2>3. QED BY <2>1, <2>2
<1>4. CallSettled(c)'
  BY <1>1, <1>2, <1>3 DEF CallSettled, At, Is, ScoreOf, ExpiryOf
<1>5. \A d \in Calls : Submits(d) => Submits(d)'
  <2>1. Submits(c) => Submits(c)'
    BY <1>3 DEF Submits, Is
  <2>2. QED BY <1>1, <2>1, OneCall DEF Submits, Is
<1>6. QED BY <1>1, <1>2, <1>4, <1>5, PageStaysSettled

\* A submission ends with its receipt, the registry's score being the envelope's;
\* what ends a click in another way ends it before or after its submission.
LEMMA EndSettled ==
  ASSUME RInv, OrderInv, SettledInv, NEW c \in Calls,
         Registered(c) \/ Returns(c) \/ Fails(c) \/ ReadScore(c) \/ ShowScore(c) \/ Refuse(c),
         Calm'
  PROVE  PageSettled' /\ \A d \in Calls : CallSettled(d)'
<1>1. /\ mempool' = mempool /\ page'.envelope = page.envelope
      /\ HandlerStep(c) \/ Refuse(c)
  <2>1. \/ page' = page
        \/ \E x : page' = [page EXCEPT !.scoredFp = x]
        \/ \E x : page' = [page EXCEPT !.scoreValid = x]
    BY Zenon DEF Registered, Returns, Fails, ReadScore, ShowScore, Refuse
  <2>2. page'.envelope = page.envelope
    BY <2>1 DEF RInv
  <2>3. mempool' = mempool
    BY Zenon DEF Registered, Returns, Fails, ReadScore, ShowScore, Refuse, keyVars
  <2>4. QED BY <2>2, <2>3 DEF HandlerStep
<1>2. /\ PageSettled /\ CallSettled(c) /\ Held' = Held /\ \A d \in Calls \ {c} : CallSettled(d)'
      /\ calls[c].stage \notin Out =>
           (\A t \in mempool : t.id # c) /\ (\A r \in receipts' : r.id # c)
  BY <1>1, OthersSettled
<1>3. /\ calls'[c].kind = calls[c].kind /\ calls'[c].envelope = calls[c].envelope
      /\ calls'[c].stage \in {"refreshing", "read", "ended", "refused"}
  <2>1. CASE ReadScore(c)
    <3> DEFINE r == [calls[c] EXCEPT !.stage = "read", !.seen = GetScore(Applicant) # NoScore]
    <3>1. Set(c, r)
      BY <2>1, Zenon DEF ReadScore
    <3>2. r.stage = "read" /\ r.kind = calls[c].kind /\ r.envelope = calls[c].envelope
      BY DEF RInv, CallRecords
    <3> HIDE DEF r
    <3>3. QED BY <3>1, <3>2, SetCall
  <2>2. CASE ~ReadScore(c)
    <3>1. \E from : \E to \in {"refreshing", "ended", "refused"} : Go(c, from, to)
      BY <2>2 DEF Registered, Returns, Fails, ShowScore, Refuse
    <3>2. QED BY <3>1, GoCall
  <2>3. QED BY <2>1, <2>2
<1>4. ~Registered(c) => ~Submits(c) /\ page'.scoredFp = page.scoredFp
  <2>1. CASE ReadScore(c)
    BY <2>1, Zenon DEF ReadScore, Submits, At
  <2>2. CASE Returns(c)
    BY <2>2, Zenon DEF Returns, Submits
  <2>3. CASE ShowScore(c)
    <3>1. calls[c].stage \in {"refreshing", "read"}
      BY <2>3 DEF ShowScore, Go, At
    <3>2. page'.scoredFp = page.scoredFp
      BY <2>3 DEF ShowScore, RInv
    <3>3. QED BY <3>1, <3>2 DEF Submits
  <2>4. CASE Refuse(c)
    BY <2>4 DEF Refuse, Go, At, Submits
  <2>5. CASE Fails(c)
    <3>1. CASE \E from \in {"scoring", "signed", "nonce"} : Go(c, from, "ended")
      BY <2>5, <3>1 DEF Fails, Go, At, Submits
    <3>2. CASE disturbed' = disturbed \cup Failure(c)
      BY <2>5, <3>2 DEF Fails, Failure, Calm, Submits
    <3>3. QED BY <2>5, <3>1, <3>2 DEF Fails
  <2>6. QED BY <2>1, <2>2, <2>3, <2>4, <2>5
<1>5. Is(c, {"click"}) => \A t \in mempool' : t.id # c
  <2>1. ASSUME Is(c, {"click"}), At(c, "waiting") PROVE \A t \in mempool : t.id # c
    <3>1. Registered(c)
      BY <1>4, <2>1 DEF At, Submits
    <3>2. \E r \in receipts : r.id = c
      BY <3>1 DEF Registered, HasReceipt
    <3>3. QED BY <3>2 DEF SettledInv, ReceiptsShape
  <2>2. QED BY <1>1, <1>2, <2>1 DEF CallSettled
<1>6. CallSettled(c)'
  BY <1>3, <1>5 DEF CallSettled, At, Is
<1>7. PageSettled'
  <2>1. CASE Registered(c)
    <3>1. /\ Is(c, {"click"}) /\ At(c, "waiting") /\ \E r \in receipts : r.id = c
          /\ page' = [page EXCEPT !.scoredFp = page.proofs]
      BY <2>1 DEF Registered, HasReceipt, Go
    <3>2. /\ Held.score = ScoreOf(c) /\ Held.expiry = ExpiryOf(c)
          /\ ScoreOf(c) = ScoreFor(page.proofs, ExpiryOf(c) - Validity)
          /\ page.envelope = calls[c].envelope
      BY <1>2, <3>1 DEF CallSettled, At
    <3>3. page'.scoredFp = page.proofs
      BY <3>1 DEF RInv
    <3>4. QED BY <1>1, <1>2, <3>2, <3>3 DEF PageSettled, ScoreOf, ExpiryOf
  <2>2. CASE ~Registered(c)
    <3>1. \A d \in Calls : Submits(d) => Submits(d)'
      BY <1>1, <1>4, <2>2, OneCall DEF Submits, Is
    <3>2. QED BY <1>1, <1>2, <1>4, <2>2, <3>1, PageStaysSettled
  <2>3. QED BY <2>1, <2>2
<1>8. QED BY <1>2, <1>6, <1>7

\* All the steps of the calls.
LEMMA HandlerSettled ==
  ASSUME RInv, OrderInv, SettledInv, NEW c \in Calls,
         Click(c) \/ Visit(c) \/ Refuse(c) \/ HandlerStep(c)
  PROVE  SettledInv'
<1>1. ASSUME Calm' PROVE PageSettled' /\ \A d \in Calls : CallSettled(d)'
  <2>1. CASE Click(c) \/ Visit(c)
    BY <1>1, <2>1, BeginSettled
  <2>2. CASE Sign(c)
    BY <1>1, <2>2, SignSettled
  <2>3. CASE Deliver(c)
    BY <1>1, <2>3, DeliverSettled
  <2>4. CASE ReadNonce(c) \/ SendRaw(c)
    BY <1>1, <2>4, SubmissionSettled
  <2>5. CASE SendFromWallet(c)
    BY <1>1, <2>5 DEF SendFromWallet, Calm
  <2>6. CASE Registered(c) \/ Returns(c) \/ Fails(c) \/ ReadScore(c) \/ ShowScore(c) \/ Refuse(c)
    BY <1>1, <2>6, EndSettled
  <2>7. QED BY <2>1, <2>2, <2>3, <2>4, <2>5, <2>6 DEF HandlerStep
<1>2. QED BY <1>1, ReceiptsMove DEF SettledInv

\* A transaction of the key is mined: the click's, which waits for it, or one
\* that leaves the applicant's score alone.
LEMMA MineSettled ==
  ASSUME RInv, OrderInv, SettledInv, MineNext
  PROVE  SettledInv'
<1>1. PICK c \in Calls, ok \in BOOLEAN :
        Mine(c, ok) /\ Executes(c, ok) /\ disturbed' = disturbed \cup Meddling(c)
  BY DEF MineNext
<1>2. /\ UNCHANGED <<hasRelayer, calls, page>> /\ mempool' = {}
      /\ receipts' = receipts \cup {[id |-> c, ok |-> ok]}
  BY <1>1, MineKeepsKey DEF MineNext, Mine
<1>3. \E t \in mempool : t.id = c
  BY <1>1 DEF Mine
<1>4. ReceiptsShape'
  BY <1>2, <1>3 DEF SettledInv, ReceiptsShape, OrderInv, NodeOrdered
<1>5. ASSUME Calm' PROVE PageSettled' /\ \A d \in Calls : CallSettled(d)'
  <2>1. /\ Calm /\ ok /\ ~Is(c, {"resubmit"})
        /\ PageSettled /\ \A d \in Calls : CallSettled(d)
    <3>1. disturbed = {} /\ ~Is(c, {"resubmit"})
      BY <1>1, <1>5 DEF Calm, Meddling
    <3>2. [id |-> c, ok |-> ok] \in receipts' /\ receipts \subseteq receipts'
      BY <1>2
    <3>3. [id |-> c, ok |-> ok].ok /\ \A r \in receipts : r.ok
      BY <1>5, <3>2, Zenon DEF Calm
    <3>4. ok
      BY <3>3
    <3>5. Calm
      BY <1>2, <1>5, <3>1, <3>3, Zenon DEF Calm
    <3>6. QED BY <3>1, <3>4, <3>5 DEF SettledInv
  <2>2. ASSUME NEW d \in Calls, d # c, ~(Is(c, {"click"}) /\ Submits(d)),
               Held' = Held \/ Is(c, {"click"})
        PROVE  CallSettled(d)'
    BY <1>2, <2>1, <2>2 DEF CallSettled, Submits, At, Is, ScoreOf, ExpiryOf
  <2>3. CASE Is(c, {"click"})
    <3>1. At(c, "waiting") /\ Submits(c) /\ calls[c].envelope.digest.subject = Applicant
      BY <1>3, <2>1, <2>3 DEF CallSettled, Submits, At
    <3>2. Held'.score = ScoreOf(c) /\ Held'.expiry = ExpiryOf(c)
      <4> DEFINE d == calls[c].envelope.digest
      <4>1. SubmitScore(d.subject, d.score, d.expiry, d.codeHash, calls[c].envelope)
        BY <1>1, <2>1, <2>3 DEF Executes, Is
      <4>2. scores' = [scores EXCEPT ![Applicant] =
                         [score |-> d.score, expiry |-> d.expiry, codeHash |-> d.codeHash]]
        BY <3>1, <4>1 DEF SubmitScore
      <4>3. Applicant \in DOMAIN scores
        BY RelayAssumption, RegistryAssumption DEF RInv, IInv, TypeOK
      <4>4. QED BY <4>2, <4>3 DEF Held, ScoreOf, ExpiryOf
    <3>3. CallSettled(c)'
      BY <1>2, <2>1, <3>1, <3>2 DEF CallSettled, At, Is, ScoreOf, ExpiryOf
    <3>4. \A d \in Calls : Submits(d) => d = c
      <4>1. \A d \in Calls : Submits(d) => d \in UnderWay
        BY DEF Submits, UnderWay, Is
      <4>2. \A d, e \in UnderWay : d = e
        BY <2>1 DEF Calm, Quiet, OrderInv, ClicksOrdered
      <4>3. QED BY <3>1, <4>1, <4>2
    <3>5. PageSettled'
      BY <1>2, <3>1 DEF PageSettled, Submits, Is
    <3>6. QED BY <2>2, <2>3, <3>3, <3>4, <3>5
  <2>4. CASE ~Is(c, {"click"})
    <3>1. Held' = Held
      BY <1>1, <2>1, <2>4, ExecutesHeld
    <3>2. PageSettled'
      BY <1>2, <2>1, <3>1 DEF PageSettled, Submits, Is
    <3>3. CallSettled(c)'
      BY <1>2, <2>4 DEF CallSettled, Is
    <3>4. QED BY <2>2, <2>4, <3>1, <3>2, <3>3
  <2>5. QED BY <2>3, <2>4
<1>6. QED BY <1>4, <1>5 DEF SettledInv

\* What happens outside the calls and the node.
LEMMA WorldSettled ==
  ASSUME RInv, SettledInv, UNCHANGED <<calls, hasRelayer, mempool, receipts, disturbed>>,
         Held' = Held,
         page' = page \/ (UnderWay = {} /\ \E n : page' = [page EXCEPT !.proofs = n])
  PROVE  SettledInv'
<1>1. Calm' = Calm /\ ReceiptsShape'
  BY DEF Calm, SettledInv, ReceiptsShape
<1>2. page'.envelope = page.envelope /\ page'.scoredFp = page.scoredFp
  BY DEF RInv
<1>3. ASSUME Calm, NEW d \in Calls PROVE CallSettled(d)'
  <2>1. CallSettled(d) /\ (page' = page \/ d \notin UnderWay)
    BY <1>3 DEF SettledInv
  <2>2. d \notin UnderWay /\ Is(d, {"click"}) => calls[d].stage \notin {"scoring", "signed"} \cup Sending
    BY DEF UnderWay, Is
  <2>3. QED BY <1>2, <2>1, <2>2, StaysSettled DEF Submits
<1>4. Calm => PageSettled'
  BY <1>2, PageStaysSettled DEF SettledInv, Submits, Is
<1>5. QED BY <1>1, <1>3, <1>4 DEF SettledInv

\* Every step keeps it.
LEMMA SettledStep ==
  ASSUME RInv, OrderInv, SettledInv, [RelayNext]_relayVars
  PROVE  SettledInv'
<1>1. CASE \E c \in Calls : Click(c) \/ Refuse(c) \/ Visit(c) \/ HandlerStep(c)
  BY <1>1, HandlerSettled
<1>2. CASE MineNext
  BY <1>2, MineSettled
<1>3. CASE MineWallet
  <2>1. wallet # <<>> /\ wallet \in Seq(Calls) /\ UNCHANGED <<calls, hasRelayer, keyVars>>
    BY <1>3 DEF MineWallet, RInv
  <2>2. 1 \in 1..Len(wallet)
    BY <2>1
  <2>3. ~Calm'
    BY <2>1, <2>2 DEF OrderInv, WalletOrdered, Calm
  <2>4. ReceiptsShape'
    BY <2>1 DEF SettledInv, ReceiptsShape, keyVars
  <2>5. QED BY <2>3, <2>4 DEF SettledInv
<1>4. CASE Meddle \/ (ProofArrives /\ UnderWay # {})
  <2>1. ~Calm' /\ UNCHANGED <<calls, keyVars>>
    BY <1>4 DEF Meddle, ProofArrives, Calm
  <2>2. ReceiptsShape'
    BY <2>1 DEF SettledInv, ReceiptsShape, keyVars
  <2>3. QED BY <2>1, <2>2 DEF SettledInv
<1>5. CASE \/ ProofArrives /\ UnderWay = {}
           \/ Register \/ Passes \/ UNCHANGED relayVars
           \/ \E k \in Keys, h \in CodeHashes : Boot(k, h)
  <2>1. UNCHANGED <<scores, calls, hasRelayer, mempool, receipts>> /\ disturbed' = disturbed
    BY <1>5 DEF ProofArrives, Register, Passes, Boot, relayVars, registryVars, keyVars,
                Registration, RegisterTeeSigner, Tick
  <2>2. page' = page \/ (UnderWay = {} /\ \E n : page' = [page EXCEPT !.proofs = n])
    BY <1>5 DEF ProofArrives, Register, Passes, Boot, relayVars
  <2>3. QED BY <2>1, <2>2, WorldSettled DEF Held
<1>6. QED BY <1>1, <1>2, <1>3, <1>4, <1>5 DEF RelayNext

LEMMA SettledInit == ASSUME RelayInit PROVE SettledInv
<1>1. receipts = {} /\ mempool = {} /\ page.envelope = NoEnvelope
      /\ calls = [c \in Calls |-> NewCall]
  BY DEF RelayInit, KeyInit
<1>2. \A c \in Calls : ~Is(c, {"click"})
  BY <1>1 DEF Is, NewCall
<1>3. QED BY <1>1, <1>2 DEF SettledInv, ReceiptsShape, PageSettled, CallSettled

\* A refused click finds in the registry what the page says of it.
LEMMA RefusalSettled ==
  ASSUME RInv, SettledInv, [RelayNext]_relayVars
  PROVE  RefusedStep
<1> SUFFICES ASSUME NEW c \in Calls, Refuses(c), Calm, UnderWay = {}
             PROVE  HeldIsCurrent
  BY DEF RefusedStep, Calm
<1>1. Refuse(c)
  <2>1. calls[c].stage = "idle" /\ calls'[c].stage = "refused"
    BY DEF Refuses, At
  <2>2. ~UNCHANGED calls
    BY <2>1
  <2>3. PICK d \in Calls : Click(d) \/ Visit(d) \/ Refuse(d) \/ HandlerStep(d)
    BY <2>2, Zenon DEF RelayNext, relayVars, ProofArrives, MineNext, MineWallet, Register,
                       Meddle, Passes, Boot
  <2>4. d = c
    BY <2>1, <2>3, OneCall
  <2>5. CASE Click(c) \/ Visit(c)
    <3>1. \E r : Set(c, r) /\ r.stage # "refused"
      <4>1. calls[c] \in CallRecords(signed, mined)
        BY DEF RInv
      <4> DEFINE r1 == [calls[c] EXCEPT !.stage = "scoring", !.kind = "click",
                                        !.sent = page.proofs]
                 r2 == [calls[c] EXCEPT !.stage = "nonce", !.kind = "instruct"]
                 r3 == [calls[c] EXCEPT !.stage = "nonce", !.kind = "attest"]
                 r4 == [calls[c] EXCEPT !.stage = "scoring", !.kind = "auto"]
                 r5(e) == [calls[c] EXCEPT !.stage = "submitting", !.kind = "resubmit",
                                           !.envelope = e]
      <4>2. \/ Set(c, r1) \/ Set(c, r2) \/ Set(c, r3) \/ Set(c, r4)
            \/ \E e \in signed : Set(c, r5(e))
        BY <2>5, Zenon DEF Click, Visit
      <4>3. /\ r1.stage = "scoring" /\ r2.stage = "nonce" /\ r3.stage = "nonce"
            /\ r4.stage = "scoring" /\ \A e \in signed : r5(e).stage = "submitting"
        BY <4>1 DEF CallRecords
      <4> HIDE DEF r1, r2, r3, r4, r5
      <4>4. QED BY <4>2, <4>3
    <3>2. QED BY <2>1, <3>1, SetCall
  <2>6. CASE HandlerStep(c)
    <3>1. ~At(c, "idle") \/ Ready(c)
      BY <2>6, Zenon DEF HandlerStep, Sign, Deliver, ReadNonce, SendRaw, Registered, Returns,
               Fails, SendFromWallet, ReadScore, ShowScore, Go, At
    <3>2. QED BY <2>1, <3>1 DEF Ready, At
  <2>7. QED BY <2>3, <2>4, <2>5, <2>6
<1>2. Barred
  BY <1>1, Zenon DEF Refuse
<1>3. \A d \in Calls : ~Submits(d)
  BY DEF Submits, UnderWay, Is
<1>4. /\ Held.score = ScoreFor(page.proofs, Held.expiry - Validity)
      /\ Held.expiry = page.envelope.digest.expiry
  BY <1>2, <1>3 DEF SettledInv, PageSettled, Barred
<1>5. now <= Held.expiry
  BY <1>2, <1>4 DEF Barred
<1>6. Held.expiry >= now
  BY <1>5, Numbers
<1>7. QED BY <1>4, <1>6 DEF HeldIsCurrent

\* With a relayer key a click is refused only for what the registry holds, as long
\* as nothing failed, reverted, was left out by the enclave, overlapped or grew
\* under a click: for any number of clicks.
THEOREM RefusalNeedsRegistration == RelaySpec => RefusedOnlyWhenRegistered
<1>1. RelaySpec => [](RInv /\ OrderInv)
  <2>1. RInv /\ RInv' /\ OrderInv /\ [RelayNext]_relayVars => OrderInv'
    BY OrderStep
  <2>2. QED BY <2>1, OrderInit, RelayInvariance, PTL DEF RelaySpec
<1>2. RInv /\ OrderInv /\ SettledInv /\ [RelayNext]_relayVars => SettledInv'
  BY SettledStep
<1>3. RelaySpec => []SettledInv
  BY <1>1, <1>2, SettledInit, PTL DEF RelaySpec
<1>4. RInv /\ SettledInv /\ [RelayNext]_relayVars => [RefusedStep]_relayVars
  BY RefusalSettled
<1>5. QED BY <1>1, <1>3, <1>4, PTL DEF RelaySpec, RefusedOnlyWhenRegistered
-----------------------------------------------------------------------------
HIDE DEF Stages, Kinds, WithEnvelope, Out, Sending

RunStages == {"idle", "ready", "waiting", "writing", "truncated", "done", "failed"}
RequestStages == {"idle", "send", "sent"}
Transactions == [run : Runs, step : Steps]
Ids == Requests \cup Transactions

\* A transaction that the node knows of, mined or not.
Known(id) == (\E t \in mempool : t.id = id) \/ (\E x \in receipts : x.id = id)

\* The key: nobody holds a nonce that the chain has not reached, so the node
\* holds one transaction at most.
KeyInv ==
  /\ mined \in Nat
  /\ mempool \subseteq [id : Ids, nonce : Nat]
  /\ receipts \subseteq [id : Ids, ok : BOOLEAN]
  /\ PendingIsNext
  /\ \A s, t \in mempool : s = t

Places(n) == [stage : RunStages, step : Steps, nonce : 0..n]

Typed ==
  /\ runs \in [Runs -> Places(mined)]
  /\ requests \in [Requests -> [stage : RequestStages, nonce : 0..mined]]

\* A run knows of its own transactions: those of the steps before succeeded,
\* that of its step was sent with the nonce it has counted, and none later was.
RunInv(r) ==
  /\ \A k \in Steps : Known(Tx(r, k)) =>
       k <= runs[r].step /\ (runs[r].stage \in {"idle", "ready"} => k < runs[r].step)
  /\ \A t \in mempool : t.id = Tx(r, runs[r].step) => runs[r].nonce = mined
  /\ \A x \in receipts : x.id = Tx(r, runs[r].step) => runs[r].nonce < mined
  /\ \A k \in Steps : k < runs[r].step => HasReceipt(Tx(r, k), TRUE)
  /\ runs[r].stage \in {"writing", "truncated", "done"} => Whole(r)

DInv == KeyInv /\ Typed /\ (\A r \in Runs : RunInv(r)) /\ PointedAtIsWhole

USE DEF RunStages, RequestStages

\* Transactions of different runs and steps, and requests, are told apart.
LEMMA TxApart ==
  /\ \A r, s \in Runs, j, k \in Steps : Tx(r, j) = Tx(s, k) => r = s /\ j = k
  /\ \A r \in Runs, k \in Steps : Tx(r, k) \in Ids /\ Tx(r, k) \in Transactions
  /\ \A q \in Requests, r \in Runs, k \in Steps : q # Tx(r, k) /\ q \in Ids
<1>1. \A r \in Runs, k \in Steps : Tx(r, k) \in Transactions
  BY DEF Tx, Transactions
<1>2. \A r, s \in Runs, j, k \in Steps : Tx(r, j) = Tx(s, k) => r = s /\ j = k
  BY DEF Tx
<1>3. QED BY <1>1, <1>2, StackAssumption DEF Transactions, Ids

\* A transaction sent with a nonce not above the chain's takes the only place.
LEMMA SentTakesPlace ==
  ASSUME KeyInv, NEW id \in Ids, NEW nonce \in 0..mined, Send(id, nonce)
  PROVE  /\ nonce = mined
         /\ mempool' = {[id |-> id, nonce |-> mined]}
         /\ UNCHANGED <<mined, receipts>>
         /\ KeyInv'
<1>1. nonce = mined /\ mined \in Nat
  BY DEF KeyInv, Send
<1>2. mempool' = {[id |-> id, nonce |-> mined]}
  BY <1>1 DEF Send, KeyInv, PendingIsNext
<1>3. mined' = mined /\ receipts' = receipts
  BY DEF Send
<1>4. QED BY <1>1, <1>2, <1>3 DEF KeyInv, PendingIsNext

\* The transaction that gets into a block leaves the node with none.
LEMMA MineEmpties ==
  ASSUME KeyInv, NEW id \in Ids, NEW ok \in BOOLEAN, Mine(id, ok)
  PROVE  /\ [id |-> id, nonce |-> mined] \in mempool
         /\ mempool' = {} /\ mined' = mined + 1
         /\ receipts' = receipts \cup {[id |-> id, ok |-> ok]}
         /\ KeyInv'
<1>1. /\ [id |-> id, nonce |-> mined] \in mempool
      /\ mempool' = mempool \ {[id |-> id, nonce |-> mined]}
      /\ mined' = mined + 1
      /\ receipts' = receipts \cup {[id |-> id, ok |-> ok]}
  BY DEF Mine
<1>2. mempool' = {}
  BY <1>1 DEF KeyInv
<1>3. QED BY <1>1, <1>2 DEF KeyInv, PendingIsNext

\* What was mined well stays so.
LEMMA WholeStays ==
  ASSUME receipts \subseteq receipts', NEW r, Whole(r) PROVE Whole(r)'
BY DEF Whole, HasReceipt

\* Runs that a step of the key or of another run does not touch.
LEMMA RunUntouched ==
  ASSUME NEW r \in Runs, RunInv(r), runs[r] \in Places(mined),
         mined \in Nat, runs'[r] = runs[r], receipts' = receipts, mined' = mined,
         \A t \in mempool' : t \in mempool \/ (\A k \in Steps : t.id # Tx(r, k))
  PROVE  RunInv(r)'
<1>1. \A k \in Steps : Known(Tx(r, k))' => Known(Tx(r, k))
  BY DEF Known
<1>2. runs[r].step \in Steps
  BY DEF Places
<1>3. \A k \in Steps : HasReceipt(Tx(r, k), TRUE)' <=> HasReceipt(Tx(r, k), TRUE)
  BY DEF HasReceipt
<1>4. Whole(r)' <=> Whole(r)
  BY <1>3 DEF Whole
<1>5. \A t \in mempool' : t.id = Tx(r, runs[r].step) => t \in mempool
  BY <1>2
<1>6. QED BY <1>1, <1>3, <1>4, <1>5 DEF RunInv
-----------------------------------------------------------------------------
\* What a step may leave as it was: the key and what points at stacks.
KeyUntouched == UNCHANGED <<mined, mempool, receipts>>
PointersAlone == UNCHANGED <<env, server, pageConfig>>

\* The key's part, when no transaction is sent or mined.
LEMMA KeyUntouchedKeeps == ASSUME KeyInv, KeyUntouched PROVE KeyInv'
BY DEF KeyInv, KeyUntouched, PendingIsNext

\* Pointers that stay, or move to a stack that is whole, are right.
LEMMA PointersKeep ==
  ASSUME PointedAtIsWhole, receipts \subseteq receipts',
         \A r \in Runs : r \in {env', server', pageConfig'}
                           => r \in {env, server, pageConfig} \/ Whole(r)
  PROVE  PointedAtIsWhole'
BY WholeStays DEF PointedAtIsWhole

\* Begin, Receipt, RunFails, Truncate, WriteEnv: a run goes on by itself.
LEMMA RunAloneKeeps ==
  ASSUME DInv, NEW r \in Runs, KeyUntouched, requests' = requests,
         runs' \in [Runs -> Places(mined)],
         \A s \in Runs : s # r => runs'[s] = runs[s],
         RunInv(r)',
         \A s \in Runs : s \in {env', server', pageConfig'}
                           => s \in {env, server, pageConfig} \/ Whole(s)
  PROVE  DInv'
<1>1. KeyInv' /\ mined' = mined /\ receipts' = receipts
  BY KeyUntouchedKeeps DEF DInv, KeyUntouched
<1>2. Typed'
  BY <1>1 DEF DInv, Typed
<1>3. ASSUME NEW s \in Runs, s # r PROVE RunInv(s)'
  <2>1. runs'[s] = runs[s] /\ runs[s] \in Places(mined)
    BY <1>3 DEF DInv, Typed
  <2>2. RunInv(s) /\ mined \in Nat /\ mempool' = mempool
    BY DEF DInv, KeyInv, KeyUntouched
  <2>3. QED BY <1>1, <2>1, <2>2, RunUntouched
<1>4. PointedAtIsWhole'
  <2>1. receipts \subseteq receipts' /\ PointedAtIsWhole
    BY <1>1 DEF DInv
  <2>2. QED BY <2>1, PointersKeep
<1>5. \A s \in Runs : RunInv(s)'
  BY <1>3, Zenon
<1>6. QED BY <1>1, <1>2, <1>4, <1>5, Zenon DEF DInv

\* The parts of the invariant that speak of one run.
LEMMA RunTypes ==
  ASSUME DInv, NEW r \in Runs
  PROVE  /\ runs[r] \in Places(mined)
         /\ runs[r].stage \in RunStages /\ runs[r].step \in Steps
         /\ runs[r].nonce \in 0..mined /\ mined \in Nat
         /\ RunInv(r)
BY DEF DInv, Typed, KeyInv, Places

LEMMA BeginKeeps == ASSUME DInv, NEW r \in Runs, Begin(r) PROVE DInv'
<1>1. /\ KeyUntouched /\ requests' = requests /\ PointersAlone /\ runs[r].stage = "idle"
      /\ runs' = [runs EXCEPT ![r].stage = "ready", ![r].nonce = mined]
  BY DEF Begin, KeyUntouched, PointersAlone, keyVars, RunAt, TransactionCount
<1>2. /\ runs \in [Runs -> Places(mined)] /\ mined \in 0..mined
      /\ RunInv(r) /\ runs[r].step \in Steps
  BY RunTypes DEF DInv, Typed
<1>3. /\ runs' \in [Runs -> Places(mined)]
      /\ \A s \in Runs : s # r => runs'[s] = runs[s]
      /\ runs'[r].stage = "ready" /\ runs'[r].step = runs[r].step /\ runs'[r].nonce = mined
  BY <1>1, <1>2 DEF Places
<1>4. RunInv(r)'
  <2>1. mempool' = mempool /\ receipts' = receipts /\ mined' = mined
    BY <1>1 DEF KeyUntouched
  <2>2. \A k \in Steps : Known(Tx(r, k)) => k <= runs[r].step /\ k < runs[r].step
    BY <1>1, <1>2 DEF RunInv
  <2>3. ~Known(Tx(r, runs[r].step))
    BY <1>2, <2>2 DEF Steps
  <2>4. /\ \A t \in mempool' : t.id # Tx(r, runs[r].step)
        /\ \A x \in receipts' : x.id # Tx(r, runs[r].step)
    BY <2>1, <2>3 DEF Known
  <2>5. \A k \in Steps : k < runs[r].step => HasReceipt(Tx(r, k), TRUE)
    BY <1>2 DEF RunInv
  <2>6. QED BY <1>3, <2>1, <2>2, <2>4, <2>5 DEF RunInv, Known, HasReceipt, Tx
<1>5. QED BY <1>1, <1>3, <1>4, RunAloneKeeps DEF PointersAlone

\* The receipt says that the step's transaction is mined: its nonce is used.
LEMMA ReceiptKeeps == ASSUME DInv, NEW r \in Runs, Receipt(r) PROVE DInv'
<1> DEFINE step == runs[r].step
           new == IF step = 6 THEN [runs[r] EXCEPT !.stage = "writing"]
                  ELSE [stage |-> "ready", step |-> step + 1, nonce |-> runs[r].nonce + 1]
<1>1. /\ HasReceipt(Tx(r, step), TRUE) /\ KeyUntouched /\ requests' = requests /\ PointersAlone
      /\ runs' = [runs EXCEPT ![r] = new]
  BY DEF Receipt, KeyUntouched, PointersAlone, keyVars, Becomes
<1>2. /\ runs \in [Runs -> Places(mined)] /\ mined \in Nat /\ runs[r].nonce \in 0..mined
      /\ RunInv(r) /\ step \in Steps /\ runs[r] \in Places(mined)
  BY RunTypes DEF DInv, Typed
<1>3. runs[r].nonce < mined
  <2>1. [id |-> Tx(r, step), ok |-> TRUE] \in receipts
    BY <1>1 DEF HasReceipt
  <2>2. QED BY <1>2, <2>1 DEF RunInv
<1>4. new \in Places(mined)
  BY <1>2, <1>3 DEF Steps, Places
<1>5. /\ runs' \in [Runs -> Places(mined)] /\ runs'[r] = new
      /\ \A s \in Runs : s # r => runs'[s] = runs[s]
  BY <1>1, <1>2, <1>4, Zenon
<1>6. mempool' = mempool /\ receipts' = receipts /\ mined' = mined
  BY <1>1 DEF KeyUntouched
<1>7. \A k \in Steps : k <= step => HasReceipt(Tx(r, k), TRUE)
  <2>1. \A k \in Steps : k < step => HasReceipt(Tx(r, k), TRUE)
    BY <1>2 DEF RunInv
  <2>2. \A k \in Steps : k <= step => k < step \/ k = step
    BY <1>2 DEF Steps
  <2>3. QED BY <1>1, <2>1, <2>2
<1>8. \A k \in Steps : Known(Tx(r, k)) => k <= step
  BY <1>2 DEF RunInv
<1>9. RunInv(r)'
  <2>1. CASE step = 6
    <3>1. new.stage = "writing" /\ new.step = step /\ new.nonce = runs[r].nonce
      BY <1>2, <2>1 DEF Places
    <3>2. \A k \in Steps : k <= step
      BY <2>1 DEF Steps
    <3>3. Whole(r)
      BY <1>7, <3>2 DEF Whole
    <3> HIDE DEF new
    <3>4. runs[r].stage \notin {"idle", "ready"} => TRUE
      OBVIOUS
    <3>5. QED BY <1>2, <1>5, <1>6, <1>8, <3>1, <3>3 DEF RunInv, Known, HasReceipt, Whole, Tx
  <2>2. CASE step # 6
    <3>1. new.stage = "ready" /\ new.step = step + 1 /\ new.step \in Steps
      BY <1>2, <2>2 DEF Steps
    <3>2. \A k \in Steps : k <= step => k <= new.step /\ k < new.step
      BY <1>2, <3>1 DEF Steps
    <3>3. \A k \in Steps : k < new.step => k <= step
      BY <1>2, <3>1 DEF Steps
    <3>4. ~(new.step <= step)
      BY <1>2, <3>1 DEF Steps
    <3> HIDE DEF new
    <3>5. ~Known(Tx(r, new.step))
      BY <1>8, <3>1, <3>4
    <3>6. /\ \A t \in mempool : t.id # Tx(r, new.step)
          /\ \A x \in receipts : x.id # Tx(r, new.step)
      BY <3>5 DEF Known
    <3>7. \A k \in Steps : k < new.step => HasReceipt(Tx(r, k), TRUE)
      BY <1>7, <3>3
    <3>8. \A k \in Steps : Known(Tx(r, k)) => k <= new.step /\ k < new.step
      BY <1>8, <3>2
    <3>9. QED BY <1>5, <1>6, <3>1, <3>6, <3>7, <3>8 DEF RunInv, Known, HasReceipt, Tx
  <2>3. QED BY <2>1, <2>2
<1>10. QED BY <1>1, <1>5, <1>9, RunAloneKeeps DEF PointersAlone

\* RunFails, Truncate and WriteEnv change nothing but the stage, and what .env
\* names.
LEMMA StageKeeps ==
  ASSUME DInv, NEW r \in Runs, RunFails(r) \/ Truncate(r) \/ WriteEnv(r) PROVE DInv'
<1>1. PICK stage \in {"failed", "truncated", "done"} :
        /\ runs' = [runs EXCEPT ![r].stage = stage]
        /\ stage # "failed" => runs[r].stage \in {"writing", "truncated"}
  BY DEF RunFails, Truncate, WriteEnv, RunAt, Becomes
<1>2. KeyUntouched /\ requests' = requests /\ UNCHANGED <<server, pageConfig>>
  BY DEF RunFails, Truncate, WriteEnv, KeyUntouched, keyVars
<1>3. env' = env \/ env' = NoStack \/ (env' = r /\ runs[r].stage = "truncated")
  BY DEF RunFails, Truncate, WriteEnv, RunAt
<1>4. /\ runs \in [Runs -> Places(mined)] /\ runs[r] \in Places(mined)
      /\ RunInv(r) /\ runs[r].step \in Steps
  BY RunTypes DEF DInv, Typed
<1>5. /\ runs' \in [Runs -> Places(mined)]
      /\ \A s \in Runs : s # r => runs'[s] = runs[s]
      /\ runs'[r].stage = stage /\ runs'[r].step = runs[r].step
      /\ runs'[r].nonce = runs[r].nonce
  BY <1>1, <1>4 DEF Places
<1>6. RunInv(r)'
  <2>1. mined' = mined /\ mempool' = mempool /\ receipts' = receipts
    BY <1>2 DEF KeyUntouched
  <2>2. stage \in {"truncated", "done"} => Whole(r)
    BY <1>1, <1>4 DEF RunInv
  <2>3. stage \notin {"idle", "ready", "writing"}
    OBVIOUS
  <2>4. QED BY <1>4, <1>5, <2>1, <2>2, <2>3 DEF RunInv, Known, HasReceipt, Whole, Tx
<1>7. ASSUME NEW s \in Runs, s \in {env', server', pageConfig'}
      PROVE  s \in {env, server, pageConfig} \/ Whole(s)
  <2>1. runs[r].stage = "truncated" => Whole(r)
    BY <1>4 DEF RunInv
  <2>2. s # NoStack
    BY StackAssumption
  <2>3. QED BY <1>2, <1>3, <1>7, <2>1, <2>2
<1>8. QED BY <1>2, <1>5, <1>6, <1>7, RunAloneKeeps

\* A step that sends: the run, and no other, knows of one transaction more.
LEMMA SendStepKeeps == ASSUME DInv, NEW r \in Runs, SendStep(r) PROVE DInv'
<1> DEFINE step == runs[r].step
<1>1. /\ Send(Tx(r, step), runs[r].nonce) /\ runs[r].stage = "ready"
      /\ requests' = requests /\ PointersAlone
      /\ \E stage \in {"waiting", "failed"} : runs' = [runs EXCEPT ![r].stage = stage]
  BY DEF SendStep, RunAt, Becomes, PointersAlone
<1>2. /\ runs \in [Runs -> Places(mined)] /\ runs[r] \in Places(mined) /\ mined \in Nat
      /\ RunInv(r) /\ step \in Steps /\ runs[r].nonce \in 0..mined /\ KeyInv
  BY RunTypes DEF DInv, Typed
<1>3. Tx(r, step) \in Ids
  BY <1>2, TxApart
<1>4. /\ runs[r].nonce = mined /\ mempool' = {[id |-> Tx(r, step), nonce |-> mined]}
      /\ mined' = mined /\ receipts' = receipts /\ KeyInv'
  BY <1>1, <1>2, <1>3, SentTakesPlace, Zenon
<1>5. /\ runs' \in [Runs -> Places(mined)]
      /\ \A s \in Runs : s # r => runs'[s] = runs[s]
      /\ runs'[r].stage \in {"waiting", "failed"} /\ runs'[r].step = step
      /\ runs'[r].nonce = runs[r].nonce
  BY <1>1, <1>2 DEF Places
<1>6. RunInv(r)'
  <2>1. \A k \in Steps : Known(Tx(r, k)) => k < step
    BY <1>1, <1>2 DEF RunInv
  <2>2. \A k \in Steps : k < step => k <= step
    BY <1>2 DEF Steps
  <2>3. step <= step /\ ~(step < step)
    BY <1>2 DEF Steps
  <2>4. \A x \in receipts : x.id # Tx(r, step)
    BY <1>2, <2>1, <2>3 DEF Known
  <2>5. \A k \in Steps, j \in Steps : Tx(r, k) = Tx(r, j) => k = j
    BY TxApart
  <2>6. \A k \in Steps : Known(Tx(r, k))' => Known(Tx(r, k)) \/ k = step
    <3>1. SUFFICES ASSUME NEW k \in Steps, Known(Tx(r, k))'
                   PROVE  Known(Tx(r, k)) \/ k = step
      OBVIOUS
    <3>2. (\E x \in receipts : x.id = Tx(r, k)) \/ Tx(r, step) = Tx(r, k)
      BY <1>4, <3>1 DEF Known, Tx
    <3>3. QED BY <1>2, <2>5, <3>2 DEF Known
  <2>7. \A k \in Steps : Known(Tx(r, k))' => k <= step
    BY <2>1, <2>2, <2>3, <2>6
  <2>8. \A k \in Steps : k < step => HasReceipt(Tx(r, k), TRUE)
    BY <1>2 DEF RunInv
  <2> HIDE DEF step
  <2>9. QED BY <1>4, <1>5, <2>4, <2>7, <2>8 DEF RunInv, HasReceipt, Tx
<1>7. ASSUME NEW s \in Runs, s # r PROVE RunInv(s)'
  <2>1. RunInv(s) /\ runs[s] \in Places(mined) /\ runs'[s] = runs[s]
    BY <1>5, <1>7, RunTypes
  <2>2. \A k \in Steps : Tx(r, step) # Tx(s, k)
    BY <1>2, <1>7, TxApart
  <2>3. \A t \in mempool' : \A k \in Steps : t.id # Tx(s, k)
    BY <1>4, <2>2
  <2> HIDE DEF step
  <2>4. QED BY <1>2, <1>4, <2>1, <2>3, RunUntouched
<1>8. Typed'
  BY <1>1, <1>4, <1>5 DEF DInv, Typed
<1>9. PointedAtIsWhole'
  BY <1>1, <1>4, PointersKeep DEF DInv, PointersAlone
<1>10. \A s \in Runs : RunInv(s)'
  BY <1>6, <1>7, Zenon
<1>11. QED BY <1>4, <1>8, <1>9, <1>10, Zenon DEF DInv

\* A step in which no run moves and none of its transactions is sent or mined.
LEMMA RunsAlone ==
  ASSUME DInv, runs' = runs, mined' = mined, receipts' = receipts,
         \A t \in mempool' : t \in mempool \/ t.id \in Requests
  PROVE  \A r \in Runs : RunInv(r)'
<1>1. SUFFICES ASSUME NEW r \in Runs PROVE RunInv(r)'
  OBVIOUS
<1>2. RunInv(r) /\ runs[r] \in Places(mined) /\ mined \in Nat
  BY RunTypes
<1>3. \A t \in mempool' : t \in mempool \/ (\A k \in Steps : t.id # Tx(r, k))
  BY TxApart
<1>4. QED BY <1>2, <1>3, RunUntouched

\* Restart and LoadPage hand on what .env or the settings name.
LEMMA PointersMove == ASSUME DInv, Restart \/ LoadPage PROVE DInv'
<1>1. /\ KeyUntouched /\ runs' = runs /\ requests' = requests
      /\ \A r \in Runs : r \in {env', server', pageConfig'} => r \in {env, server, pageConfig}
  BY StackAssumption DEF Restart, LoadPage, Settings, KeyUntouched, keyVars
<1>2. KeyInv' /\ mined' = mined /\ receipts' = receipts /\ mempool' = mempool
  BY <1>1, KeyUntouchedKeeps DEF DInv, KeyUntouched
<1>3. Typed'
  BY <1>1, <1>2 DEF DInv, Typed
<1>4. PointedAtIsWhole'
  BY <1>1, <1>2, PointersKeep DEF DInv
<1>5. \A r \in Runs : RunInv(r)'
  BY <1>1, <1>2, RunsAlone
<1>6. QED BY <1>2, <1>3, <1>4, <1>5, Zenon DEF DInv

LEMMA RequestNonceKeeps == ASSUME DInv, NEW q \in Requests, RequestNonce(q) PROVE DInv'
<1>1. /\ KeyUntouched /\ runs' = runs /\ server' \in {env, server}
      /\ env' = env /\ pageConfig' = pageConfig
      /\ requests' = [requests EXCEPT ![q] = [stage |-> "send", nonce |-> mined]]
  BY DEF RequestNonce, Settings, KeyUntouched, keyVars, TransactionCount
<1>2. KeyInv' /\ mined' = mined /\ receipts' = receipts /\ mempool' = mempool /\ mined \in Nat
  BY <1>1, KeyUntouchedKeeps DEF DInv, KeyUntouched, KeyInv
<1>3. Typed'
  BY <1>1, <1>2 DEF DInv, Typed
<1>4. PointedAtIsWhole'
  BY <1>1, <1>2, PointersKeep DEF DInv
<1>5. \A r \in Runs : RunInv(r)'
  BY <1>1, <1>2, RunsAlone
<1>6. QED BY <1>2, <1>3, <1>4, <1>5, Zenon DEF DInv

LEMMA SendRequestKeeps == ASSUME DInv, NEW q \in Requests, SendRequest(q) PROVE DInv'
<1>1. /\ Send(q, requests[q].nonce) /\ runs' = runs /\ PointersAlone
      /\ requests' = [requests EXCEPT ![q].stage = "sent"]
  BY DEF SendRequest, PointersAlone
<1>2. /\ requests \in [Requests -> [stage : RequestStages, nonce : 0..mined]]
      /\ KeyInv /\ q \in Ids
  BY TxApart DEF DInv, Typed, Ids
<1>3. requests[q].nonce \in 0..mined
  BY <1>2
<1>4. /\ mempool' = {[id |-> q, nonce |-> mined]}
      /\ mined' = mined /\ receipts' = receipts /\ KeyInv'
  BY <1>1, <1>2, <1>3, SentTakesPlace, Zenon
<1>5. Typed'
  BY <1>1, <1>2, <1>4 DEF DInv, Typed
<1>6. PointedAtIsWhole'
  BY <1>1, <1>4, PointersKeep DEF DInv, PointersAlone
<1>7. \A r \in Runs : RunInv(r)'
  BY <1>1, <1>4, RunsAlone
<1>8. QED BY <1>4, <1>5, <1>6, <1>7, Zenon DEF DInv

\* A receipt more: what it is of was known, and its nonce is used from now on.
LEMMA MineKeeps == ASSUME DInv, MineAny PROVE DInv'
<1>1. PICK id \in Ids, ok \in BOOLEAN : Mine(id, ok)
  BY TxApart DEF MineAny, Ids
<1>2. UNCHANGED <<runs, requests, env, server, pageConfig>>
  BY DEF MineAny
<1>3. /\ [id |-> id, nonce |-> mined] \in mempool /\ mempool' = {} /\ mined' = mined + 1
      /\ receipts' = receipts \cup {[id |-> id, ok |-> ok]} /\ KeyInv' /\ mined \in Nat
  <2>1. KeyInv
    BY DEF DInv
  <2>2. QED BY <1>1, <2>1, MineEmpties DEF KeyInv
<1>4. Typed'
  <2>1. 0..mined \subseteq 0..(mined + 1)
    BY <1>3
  <2>2. Places(mined) \subseteq Places(mined + 1)
    BY <2>1 DEF Places
  <2>3. [stage : RequestStages, nonce : 0..mined] \subseteq [stage : RequestStages, nonce : 0..(mined + 1)]
    BY <2>1
  <2>4. runs \in [Runs -> Places(mined + 1)]
    BY <2>2 DEF DInv, Typed
  <2>5. requests \in [Requests -> [stage : RequestStages, nonce : 0..(mined + 1)]]
    BY <2>3 DEF DInv, Typed
  <2>6. QED BY <1>2, <1>3, <2>4, <2>5 DEF Typed
<1>5. ASSUME NEW r \in Runs PROVE RunInv(r)'
  <2>1. RunInv(r) /\ runs'[r] = runs[r] /\ runs[r].step \in Steps /\ runs[r].nonce \in 0..mined
    BY <1>2, RunTypes
  <2>2. \A k \in Steps : Known(Tx(r, k))' => Known(Tx(r, k))
    <3>1. SUFFICES ASSUME NEW k \in Steps, Known(Tx(r, k))' PROVE Known(Tx(r, k))
      OBVIOUS
    <3>2. (\E x \in receipts : x.id = Tx(r, k)) \/ id = Tx(r, k)
      BY <1>3, <3>1 DEF Known, Tx
    <3>3. QED BY <1>3, <3>2 DEF Known
  <2>3. \A k \in Steps : HasReceipt(Tx(r, k), TRUE) => HasReceipt(Tx(r, k), TRUE)'
    BY <1>3 DEF HasReceipt, Tx
  <2>4. \A x \in receipts' : x.id = Tx(r, runs[r].step) => runs[r].nonce < mined'
    <3>1. SUFFICES ASSUME NEW x \in receipts', x.id = Tx(r, runs[r].step)
                   PROVE  runs[r].nonce < mined + 1
      BY <1>3
    <3>2. CASE x \in receipts
      <4>1. runs[r].nonce < mined
        BY <2>1, <3>1, <3>2 DEF RunInv
      <4>2. QED BY <1>3, <2>1, <4>1
    <3>3. CASE id = Tx(r, runs[r].step)
      <4>1. runs[r].nonce = mined
        BY <1>3, <2>1, <3>3 DEF RunInv
      <4>2. QED BY <1>3, <4>1
    <3>4. QED BY <1>3, <3>1, <3>2, <3>3
  <2>5. Whole(r) => Whole(r)'
    BY <1>3 DEF Whole, HasReceipt, Tx
  <2>6. \A k \in Steps : k < runs[r].step => HasReceipt(Tx(r, k), TRUE)'
    BY <2>1, <2>3 DEF RunInv
  <2>7. \A k \in Steps : Known(Tx(r, k))' =>
          k <= runs[r].step /\ (runs[r].stage \in {"idle", "ready"} => k < runs[r].step)
    BY <2>1, <2>2 DEF RunInv
  <2>8. runs[r].stage \in {"writing", "truncated", "done"} => Whole(r)'
    BY <2>1, <2>5 DEF RunInv
  <2>9. QED BY <1>3, <2>1, <2>4, <2>6, <2>7, <2>8 DEF RunInv, Known, HasReceipt, Whole, Tx
<1>6. PointedAtIsWhole'
  <2>1. receipts \subseteq receipts' /\ PointedAtIsWhole
    BY <1>3 DEF DInv
  <2>2. QED BY <1>2, <2>1, PointersKeep
<1>7. \A r \in Runs : RunInv(r)'
  BY <1>5, Zenon
<1>8. QED BY <1>3, <1>4, <1>6, <1>7, Zenon DEF DInv
-----------------------------------------------------------------------------
LEMMA StutterKeeps == ASSUME DInv, UNCHANGED deployVars PROVE DInv'
<1>1. KeyUntouched /\ UNCHANGED <<runs, requests, env, server, pageConfig>>
  BY DEF deployVars, KeyUntouched, keyVars
<1>2. KeyInv' /\ mined' = mined /\ receipts' = receipts /\ mempool' = mempool
  BY <1>1, KeyUntouchedKeeps DEF DInv, KeyUntouched
<1>3. Typed'
  BY <1>1, <1>2 DEF DInv, Typed
<1>4. PointedAtIsWhole'
  BY <1>1, <1>2, PointersKeep DEF DInv
<1>5. \A r \in Runs : RunInv(r)'
  BY <1>1, <1>2, RunsAlone
<1>6. QED BY <1>2, <1>3, <1>4, <1>5, Zenon DEF DInv

LEMMA InitDInv == DeployInit => DInv
<1> SUFFICES ASSUME DeployInit PROVE DInv
  OBVIOUS
<1>1. mined = 0 /\ mempool = {} /\ receipts = {}
  BY DEF DeployInit, KeyInit
<1>2. KeyInv
  BY <1>1 DEF KeyInv, PendingIsNext
<1>3. /\ runs = [r \in Runs |-> [stage |-> "idle", step |-> 1, nonce |-> 0]]
      /\ requests = [q \in Requests |-> [stage |-> "idle", nonce |-> 0]]
  BY DEF DeployInit
<1>4. 0 \in 0..mined /\ 1 \in Steps
  BY <1>1 DEF Steps
<1>5. Typed
  BY <1>3, <1>4 DEF Typed, Places
<1>6. ASSUME NEW r \in Runs PROVE RunInv(r)
  <2>1. runs[r].stage = "idle" /\ runs[r].step = 1
    BY <1>3
  <2>2. \A k \in Steps : ~(k < 1) /\ ~Known(Tx(r, k))
    BY <1>1 DEF Steps, Known
  <2>3. QED BY <1>1, <2>1, <2>2 DEF RunInv
<1>7. PointedAtIsWhole
  BY StackAssumption DEF DeployInit, PointedAtIsWhole
<1>8. QED BY <1>2, <1>5, <1>6, <1>7 DEF DInv

\* One case per action.
LEMMA NextDInv == DInv /\ [DeployNext]_deployVars => DInv'
<1> SUFFICES ASSUME DInv, [DeployNext]_deployVars PROVE DInv'
  OBVIOUS
<1>1. CASE \E r \in Runs : Begin(r)
  BY <1>1, BeginKeeps
<1>2. CASE \E r \in Runs : SendStep(r)
  BY <1>2, SendStepKeeps
<1>3. CASE \E r \in Runs : Receipt(r)
  BY <1>3, ReceiptKeeps
<1>4. CASE \E r \in Runs : RunFails(r) \/ Truncate(r) \/ WriteEnv(r)
  BY <1>4, StageKeeps
<1>5. CASE \E q \in Requests : RequestNonce(q)
  BY <1>5, RequestNonceKeeps
<1>6. CASE \E q \in Requests : SendRequest(q)
  BY <1>6, SendRequestKeeps
<1>7. CASE Restart \/ LoadPage
  BY <1>7, PointersMove
<1>8. CASE MineAny
  BY <1>8, MineKeeps
<1>9. CASE UNCHANGED deployVars
  BY <1>9, StutterKeeps
<1>10. QED
  BY <1>1, <1>2, <1>3, <1>4, <1>5, <1>6, <1>7, <1>8, <1>9 DEF DeployNext, RunStep

LEMMA DeployInvariant == DeploySafe => []DInv
<1>1. QED BY InitDInv, NextDInv, PTL DEF DeploySafe

\* Whatever .env, the server or the page names was deployed, funded and
\* registered completely, for any number of runs and requests.
THEOREM WholeStacks == DeploySafe => []PointedAtIsWhole
<1>1. DInv => PointedAtIsWhole
  BY DEF DInv
<1>2. QED BY <1>1, DeployInvariant, PTL

\* Script and backend together, on one key, leave no nonce out.
THEOREM DeployPendingIsNext == DeploySafe => []PendingIsNext
<1>1. DInv => PendingIsNext
  BY DEF DInv, KeyInv
<1>2. QED BY <1>1, DeployInvariant, PTL
-----------------------------------------------------------------------------
(***************************************************************************)
(* Deployment: a run has ever less to do                                   *)
(***************************************************************************)

\* The calls a run has before it at most: two for each step, and two
\* for .env.
CallsLeft(run) ==
  CASE run.stage = "idle"      -> 15
    [] run.stage = "ready"     -> 16 - 2 * run.step
    [] run.stage = "waiting"   -> 15 - 2 * run.step
    [] run.stage = "writing"   -> 2
    [] run.stage = "truncated" -> 1
    [] OTHER                   -> 0

LEMMA CallsAreNat ==
  ASSUME DInv, NEW r \in Runs
  PROVE  CallsLeft(runs[r]) \in Nat
<1>1. runs[r].step \in 1..6
  BY RunTypes DEF Steps
<1>2. \A k \in 1..6 : 16 - 2 * k \in Nat /\ 15 - 2 * k \in Nat
  OBVIOUS
<1>3. 16 - 2 * runs[r].step \in Nat /\ 15 - 2 * runs[r].step \in Nat
  BY <1>1, <1>2
<1> QED
  BY <1>3 DEF CallsLeft

\* Every step of a run, from its start to its end, is one call less.
LEMMA RunLessens ==
  ASSUME DInv, NEW r \in Runs, Begin(r) \/ RunStep(r)
  PROVE  /\ CallsLeft(runs'[r]) < CallsLeft(runs[r])
         /\ \A s \in Runs : s # r => runs'[s] = runs[s]
<1> DEFINE step == runs[r].step
<1>1. /\ runs \in [Runs -> Places(mined)] /\ runs[r] \in Places(mined)
      /\ step \in 1..6
  BY RunTypes DEF DInv, Typed, Steps
<1>2. /\ step \in Nat
      /\ 16 - 2 * step \in 4..14 /\ 15 - 2 * step \in 3..13
      /\ step # 6 => 16 - 2 * (step + 1) = 14 - 2 * step
      /\ 15 - 2 * step = 16 - 2 * step - 1 /\ 14 - 2 * step = 15 - 2 * step - 1
  <2>1. \A k \in 1..6 : /\ k \in Nat
                        /\ 16 - 2 * k \in 4..14 /\ 15 - 2 * k \in 3..13
                        /\ 16 - 2 * (k + 1) = 14 - 2 * k
                        /\ 15 - 2 * k = 16 - 2 * k - 1 /\ 14 - 2 * k = 15 - 2 * k - 1
    OBVIOUS
  <2> QED
    BY <1>1, <2>1
<1>3. ASSUME NEW stage, Becomes(r, stage)
      PROVE  /\ runs'[r].stage = stage /\ runs'[r].step = step
             /\ \A s \in Runs : s # r => runs'[s] = runs[s]
  BY <1>1, <1>3 DEF Becomes, Places
<1> HIDE DEF step
<1>4. CASE Begin(r)
  <2>1. /\ runs[r].stage = "idle" /\ runs'[r].stage = "ready" /\ runs'[r].step = step
        /\ \A s \in Runs : s # r => runs'[s] = runs[s]
    BY <1>1, <1>4 DEF Begin, RunAt, Places, step
  <2> QED
    BY <1>2, <2>1 DEF CallsLeft
<1>5. CASE SendStep(r)
  <2>1. /\ runs[r].stage = "ready" /\ runs'[r].stage \in {"waiting", "failed"}
        /\ runs'[r].step = step
        /\ \A s \in Runs : s # r => runs'[s] = runs[s]
    BY <1>3, <1>5 DEF SendStep, RunAt
  <2> QED
    BY <1>2, <2>1 DEF CallsLeft, step
<1>6. CASE Receipt(r)
  <2>1. CASE step = 6
    <3>1. /\ runs[r].stage = "waiting" /\ runs'[r].stage = "writing"
          /\ \A s \in Runs : s # r => runs'[s] = runs[s]
      BY <1>3, <1>6, <2>1 DEF Receipt, RunAt, step
    <3> QED
      BY <1>2, <3>1 DEF CallsLeft, step
  <2>2. CASE step # 6
    <3>1. /\ runs[r].stage = "waiting" /\ runs'[r].stage = "ready"
          /\ runs'[r].step = step + 1
          /\ \A s \in Runs : s # r => runs'[s] = runs[s]
      BY <1>1, <1>6, <2>2 DEF Receipt, RunAt, step
    <3> QED
      BY <1>2, <2>2, <3>1 DEF CallsLeft, step
  <2> QED
    BY <2>1, <2>2
<1>7. CASE RunFails(r)
  <2>1. /\ runs[r].stage \in {"ready", "waiting", "writing", "truncated"}
        /\ runs'[r].stage = "failed"
        /\ \A s \in Runs : s # r => runs'[s] = runs[s]
    BY <1>3, <1>7 DEF RunFails, RunAt
  <2> QED
    BY <1>2, <2>1 DEF CallsLeft, step
<1>8. CASE Truncate(r)
  <2>1. /\ runs[r].stage = "writing" /\ runs'[r].stage = "truncated"
        /\ \A s \in Runs : s # r => runs'[s] = runs[s]
    BY <1>3, <1>8 DEF Truncate, RunAt
  <2> QED
    BY <2>1 DEF CallsLeft
<1>9. CASE WriteEnv(r)
  <2>1. /\ runs[r].stage = "truncated" /\ runs'[r].stage = "done"
        /\ \A s \in Runs : s # r => runs'[s] = runs[s]
    BY <1>3, <1>9 DEF WriteEnv, RunAt
  <2> QED
    BY <2>1 DEF CallsLeft
<1> QED
  BY <1>4, <1>5, <1>6, <1>7, <1>8, <1>9 DEF RunStep

\* Each step of a run leaves it less to do, and nothing else gives it more: not
\* another run, a request of the backend or what the node mines.
RunsAdvance ==
  /\ \A r \in Runs : Begin(r) \/ RunStep(r) => CallsLeft(runs'[r]) < CallsLeft(runs[r])
  /\ \A r \in Runs : runs'[r] = runs[r] \/ CallsLeft(runs'[r]) < CallsLeft(runs[r])

\* The safety core of ScriptEnds: what a run of tools/deploy.py has yet to do
\* is a natural number that each of its calls lessens, a failed one as well,
\* and that nothing raises: 14 calls after its start it is over.
THEOREM RunsRunOut ==
  DeploySafe => /\ [](\A r \in Runs : CallsLeft(runs[r]) \in Nat)
                /\ [][RunsAdvance]_deployVars
<1>1. DInv => \A r \in Runs : CallsLeft(runs[r]) \in Nat
  BY CallsAreNat
<1>2. DInv /\ [DeployNext]_deployVars => [RunsAdvance]_deployVars
  <2> SUFFICES ASSUME DInv, DeployNext PROVE RunsAdvance
    OBVIOUS
  <2>1. \A r \in Runs : Begin(r) \/ RunStep(r) => CallsLeft(runs'[r]) < CallsLeft(runs[r])
    BY RunLessens
  <2>2. ASSUME NEW s \in Runs
        PROVE  runs'[s] = runs[s] \/ CallsLeft(runs'[s]) < CallsLeft(runs[s])
    <3>1. CASE \E r \in Runs : Begin(r) \/ RunStep(r)
      BY <3>1, RunLessens
    <3>2. CASE runs' = runs
      BY <3>2
    <3> QED
      BY <3>1, <3>2 DEF DeployNext, RequestNonce, SendRequest, Restart, LoadPage, MineAny
  <2> QED
    BY <2>1, <2>2 DEF RunsAdvance
<1> QED
  BY <1>1, <1>2, DeployInvariant, PTL DEF DeploySafe
=============================================================================
