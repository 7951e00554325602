----------------------------- MODULE ScoreRelay -----------------------------
(***************************************************************************)
(* How a score gets from the score button to the chain: the handler of     *)
(* btn-score in static/app/app.js, /score/compute and /score/submit in     *)
(* app/routes.py, the envelope's checks in services/enclave.py, and        *)
(* submit_score in services/registry.py, which sends the transaction with  *)
(* the relayer key and waits for its receipt.                              *)
(*                                                                         *)
(* CreditRegistry is the chain it ends on. Enclaves reboot with other      *)
(* keys, the owner registers them, other visitors use the same relayer     *)
(* key, and anyone may submit what was signed. The applicant's page is one *)
(* tab that keeps its connection to the server; its proofs only grow, so   *)
(* their number stands for the set (proofFingerprint).                     *)
(***************************************************************************)
EXTENDS CreditRegistry, RelayerKey, Sequences

CONSTANTS
  Calls,       \* clicks on the score button, and calls of other clients
  Applicant,   \* S.account of the page
  Expected,    \* EXPECTED_CODE_HASH, NoHash when it is not set
  ScoreFor(_, _),  \* scoreModel: the score of a number of proofs, at a time
  MaxProofs,   \* bound on the state space: proofs the page comes to hold
  MaxChanges   \* bound on the state space: values of `changes`

ASSUME RelayAssumption ==
  /\ Applicant \in Subjects
  /\ Expected \in CodeHashes \cup {NoHash}
  /\ MaxProofs \in Nat /\ MaxChanges \in Nat

\* What ScoreModel shows of the proofs that count (FallsOnlyUnanswered): more of
\* them give no less, and neither does time, which ages the payments.
ASSUME ScoreAssumption ==
  \A n \in 0..MaxProofs, t \in 1..MaxTime :
    /\ ScoreFor(n, t) \in ScoreValues
    /\ \A m \in 0..n, u \in 1..t : ScoreFor(m, u) <= ScoreFor(n, t)

VARIABLES
  hasRelayer,   \* BACKEND_PRIVATE_KEY is set
  enclave,      \* the key and code hash of the enclave that answers now
  calls,        \* the page's handler and the server's of each call
  page,         \* S.proofs, S.envelope, S.scoreValid and scoredFp in storage
  wallet,       \* transactions the wallet has sent and no block holds yet
  disturbed,    \* history: what happened that the page does not expect
  changes       \* reboots, registrations and submissions of others so far

relayVars == <<hasRelayer, enclave, calls, page, wallet, disturbed, changes,
               keyVars, registryVars>>

NoEnvelope == [key |-> NoKey, digest |-> Digest(Owner, 0, 0, NoHash)]
NoFp == -1

\* `stage` is the await a call is at. Kinds: a click that goes over HTTPS, or
\* through the chain ("instruct"), on the page; an attestation request, a score
\* computed and submitted in one call ("auto"), or an envelope that somebody
\* sends to /score/submit ("resubmit"), of other clients.
NewCall == [stage |-> "idle", kind |-> "none", sent |-> 0,
            envelope |-> NoEnvelope, nonce |-> 0, seen |-> FALSE]

RelayInit ==
  /\ Init /\ KeyInit
  /\ hasRelayer \in BOOLEAN
  /\ enclave \in [key : Keys, codeHash : CodeHashes]
  /\ calls = [c \in Calls |-> NewCall]
  /\ page = [proofs |-> 0, envelope |-> NoEnvelope, scoredFp |-> NoFp,
             scoreValid |-> FALSE]
  /\ wallet = <<>>
  /\ disturbed = {}
  /\ changes = 0

At(c, stage) == calls[c].stage = stage
Is(c, kinds) == calls[c].kind \in kinds
Set(c, call) == calls' = [calls EXCEPT ![c] = call]

\* A handler goes on to its next await, and forgets what it does not use again.
Go(c, from, to) ==
  /\ At(c, from)
  /\ Set(c, [calls[c] EXCEPT !.stage = to, !.sent = 0, !.nonce = 0, !.seen = FALSE])

\* The clicks that have not come to an end.
UnderWay == {c \in Calls : /\ Is(c, {"click", "instruct"})
                           /\ calls[c].stage \notin {"idle", "ended", "refused"}}

\* score_compute calls the blocking web3 functions on the event loop, which
\* does nothing else before they return.
Holding(c) == Is(c, {"instruct", "auto"}) /\ calls[c].stage \in {"send", "waiting"}
LoopIsFree == \A c \in Calls : ~Holding(c)
-----------------------------------------------------------------------------
\* Faulty variant: the expiry of the score is not looked at.
BarredForever == /\ page.envelope # NoEnvelope
                 /\ page.scoredFp = page.proofs

\* The page's reasons to refuse a click: the proofs are those of the score it
\* submitted last, the registry held a valid score when it was read last, and
\* the envelope has not expired.
Barred ==
  /\ page.envelope # NoEnvelope
  /\ page.scoredFp = page.proofs
  /\ page.scoreValid
  /\ now <= page.envelope.digest.expiry

\* btn-score is disabled while the page holds no proof.
HasProofs == page.proofs > 0

Refuse(c) ==
  /\ HasProofs /\ Barred
  /\ Go(c, "idle", "refused")
  /\ UNCHANGED <<hasRelayer, enclave, page, wallet, disturbed, changes, keyVars, registryVars>>

\* The click calls /score/compute with the proofs of the moment, over HTTPS or
\* through the chain.
Click(c) ==
  /\ HasProofs /\ ~Barred
  /\ At(c, "idle")
  /\ \/ Set(c, [calls[c] EXCEPT !.stage = "scoring", !.kind = "click",
                                !.sent = page.proofs])
     \/ Set(c, [calls[c] EXCEPT !.stage = "nonce", !.kind = "instruct"])
  /\ disturbed' = disturbed \cup IF UnderWay = {} THEN {} ELSE {"overlap"}
  /\ UNCHANGED <<hasRelayer, enclave, page, wallet, changes, keyVars, registryVars>>

Visit(c) ==
  /\ At(c, "idle")
  /\ \/ Set(c, [calls[c] EXCEPT !.stage = "nonce", !.kind = "attest"])
     \/ Set(c, [calls[c] EXCEPT !.stage = "scoring", !.kind = "auto"])
     \/ \E e \in signed :
          Set(c, [calls[c] EXCEPT !.stage = "submitting", !.kind = "resubmit", !.envelope = e])
  /\ UNCHANGED <<hasRelayer, enclave, page, wallet, disturbed, changes, keyVars, registryVars>>

\* Only the page knows the applicant's binding, so only clicks get a score
\* for the applicant.
SubjectOf(c) == IF Is(c, {"click"}) THEN {Applicant} ELSE Subjects \ {Applicant}

\* The enclave answers request_score_https with a signed score. It leaves out
\* the proofs it cannot verify, for whatever reason: an eth_call that failed is
\* enough. The page is not told apart which of them counted.
Sign(c) ==
  /\ \E subject \in SubjectOf(c), counted \in 0..calls[c].sent :
       /\ EnclaveSigns(enclave.key, subject, ScoreFor(counted, now), enclave.codeHash)
       /\ At(c, "scoring")
       /\ Set(c, [calls[c] EXCEPT !.stage = "signed", !.sent = 0,
            !.envelope = [key |-> enclave.key,
              digest |-> Digest(subject, ScoreFor(counted, now),
                                now + Validity, enclave.codeHash)]])
       /\ disturbed' = disturbed \cup IF counted = calls[c].sent THEN {} ELSE {"rejected"}
  /\ UNCHANGED <<hasRelayer, enclave, page, wallet, changes, keyVars>>

\* verify_envelope: the code hash is the expected one, if there is one, and
\* the signature recovers to the signer that the envelope itself declares.
Verified(envelope) ==
  /\ Expected # NoHash => envelope.digest.codeHash = Expected
  /\ Recover(envelope.digest, envelope) = envelope.key

\* The page keeps the envelope and calls submitScore with it.
Deliver(c) ==
  /\ LoopIsFree /\ Verified(calls[c].envelope) /\ Is(c, {"click"})
  /\ Go(c, "signed", "submitting")
  /\ page' = [page EXCEPT !.envelope = calls[c].envelope]
  /\ UNCHANGED <<hasRelayer, enclave, wallet, disturbed, changes, keyVars, registryVars>>

\* The stage before a nonce is read: submit_score for /score/submit, whose
\* envelope is verified once more, or goes on inside /score/compute.
Ready(c) ==
  \/ At(c, "nonce")
  \/ At(c, "submitting") /\ Verified(calls[c].envelope)
  \/ At(c, "signed") /\ Is(c, {"auto"}) /\ Verified(calls[c].envelope)

\* The relayer key is there and its nonce is read from the latest block.
ReadNonce(c) ==
  /\ hasRelayer /\ LoopIsFree /\ Ready(c)
  /\ Set(c, [calls[c] EXCEPT !.stage = "send", !.nonce = TransactionCount])
  /\ UNCHANGED <<hasRelayer, enclave, page, wallet, disturbed, changes, keyVars, registryVars>>

\* The page is told that its submission failed.
Failure(c) == IF Is(c, {"click"}) THEN {"failure"} ELSE {}

\* The node takes the transaction; its answer may be lost.
SendRaw(c) ==
  /\ Send(c, calls[c].nonce)
  /\ \/ Go(c, "send", "waiting") /\ UNCHANGED disturbed
     \/ Go(c, "send", "ended") /\ disturbed' = disturbed \cup Failure(c)
  /\ UNCHANGED <<hasRelayer, enclave, page, wallet, changes, registryVars>>

\* The receipt is there, whatever its status says. The page says that the
\* score is registered, notes what it was computed from, and reads it back.
Registered(c) ==
  /\ Is(c, {"click"})
  /\ LoopIsFree /\ \E ok \in BOOLEAN : HasReceipt(c, ok)
  /\ Go(c, "waiting", "refreshing")
  /\ page' = [page EXCEPT !.scoredFp = page.proofs]
  /\ UNCHANGED <<hasRelayer, enclave, wallet, disturbed, changes, keyVars, registryVars>>

\* The other calls return the hash of their transaction.
Returns(c) ==
  /\ ~Is(c, {"click"})
  /\ \E ok \in BOOLEAN : HasReceipt(c, ok)
  /\ Holding(c) \/ LoopIsFree
  /\ Go(c, "waiting", "ended")
  /\ UNCHANGED <<hasRelayer, enclave, page, wallet, disturbed, changes, keyVars, registryVars>>

\* An error at any of these points: the enclave refuses or does not answer, the
\* envelope is not verified, no relayer key, a nonce that is used, a receipt
\* that takes more than 90 seconds. The transaction stays with the node, and the
\* page has the envelope that it could not submit.
Fails(c) ==
  /\ \/ /\ \E from \in {"scoring", "signed", "nonce"} : Go(c, from, "ended")
        /\ UNCHANGED disturbed
     \/ /\ \E from \in {"submitting", "send", "waiting"} : Go(c, from, "ended")
        /\ disturbed' = disturbed \cup Failure(c)
  /\ UNCHANGED <<hasRelayer, enclave, page, wallet, changes, keyVars, registryVars>>

\* Faulty variant: the transaction gets ahead of those the wallet has sent.
SendFromWalletFirst(c) ==
  /\ Is(c, {"click"}) /\ ~hasRelayer
  /\ Go(c, "submitting", "refreshing")
  /\ wallet' = <<c>> \o wallet
  /\ page' = [page EXCEPT !.scoredFp = page.proofs]
  /\ UNCHANGED <<hasRelayer, enclave, disturbed, changes, keyVars, registryVars>>

\* Without a relayer the wallet sends the transaction and the page takes its
\* hash for a registered score.
SendFromWallet(c) ==
  /\ Is(c, {"click"}) /\ ~hasRelayer
  /\ Go(c, "submitting", "refreshing")
  /\ wallet' = Append(wallet, c)
  /\ page' = [page EXCEPT !.scoredFp = page.proofs]
  /\ UNCHANGED <<hasRelayer, enclave, disturbed, changes, keyVars, registryVars>>

\* refreshScore: get_score at one moment, shown at a later one, or no answer.
ReadScore(c) ==
  /\ LoopIsFree
  /\ At(c, "refreshing")
  /\ Set(c, [calls[c] EXCEPT !.stage = "read", !.seen = GetScore(Applicant) # NoScore])
  /\ UNCHANGED <<hasRelayer, enclave, page, wallet, disturbed, changes, keyVars, registryVars>>

ShowScore(c) ==
  /\ \/ Go(c, "read", "ended") /\ page' = [page EXCEPT !.scoreValid = calls[c].seen]
     \/ Go(c, "refreshing", "ended") /\ UNCHANGED page
  /\ UNCHANGED <<hasRelayer, enclave, wallet, disturbed, changes, keyVars, registryVars>>

\* A payment is attested and its proof arrives, whatever else is under way.
ProofArrives ==
  /\ page.proofs < MaxProofs
  /\ page' = [page EXCEPT !.proofs = @ + 1]
  /\ disturbed' = disturbed \cup IF UnderWay = {} THEN {} ELSE {"growth"}
  /\ UNCHANGED <<hasRelayer, enclave, calls, wallet, changes, keyVars, registryVars>>
-----------------------------------------------------------------------------
\* What a transaction does to the registry: an envelope is submitted or the
\* transaction reverts, an instruction or an attestation leaves it alone.
Executes(c, ok) ==
  LET d == calls[c].envelope.digest IN
  IF Is(c, {"click", "auto", "resubmit"})
     /\ Acceptable(d.subject, d.score, d.expiry, d.codeHash, calls[c].envelope)
  THEN ok /\ SubmitScore(d.subject, d.score, d.expiry, d.codeHash, calls[c].envelope)
  ELSE ok = Is(c, {"instruct", "attest"}) /\ UNCHANGED registryVars

Meddling(c) == IF Is(c, {"resubmit"}) THEN {"meddling"} ELSE {}

MineNext ==
  /\ \E c \in Calls, ok \in BOOLEAN :
       Mine(c, ok) /\ Executes(c, ok) /\ disturbed' = disturbed \cup Meddling(c)
  /\ UNCHANGED <<hasRelayer, enclave, calls, page, wallet, changes>>

\* The wallet's transactions are mined in the order they were sent.
MineWallet ==
  /\ wallet # <<>>
  /\ wallet' = Tail(wallet)
  /\ \E ok \in BOOLEAN : Executes(Head(wallet), ok)
  /\ UNCHANGED <<hasRelayer, enclave, calls, page, disturbed, changes, keyVars>>

\* The enclave boots with a key that has signed nothing yet, from any image.
Boot(key, codeHash) ==
  /\ changes < MaxChanges
  /\ key \notin {enclave.key} \cup {e.key : e \in signed}
  /\ enclave' = [key |-> key, codeHash |-> codeHash]
  /\ changes' = changes + 1
  /\ UNCHANGED <<hasRelayer, calls, page, wallet, disturbed, keyVars, registryVars>>

Register ==
  /\ changes < MaxChanges
  /\ Registration
  /\ changes' = changes + 1
  /\ UNCHANGED <<hasRelayer, enclave, calls, page, wallet, disturbed, keyVars>>

\* Anyone submits from an account of their own.
Meddle ==
  /\ changes < MaxChanges
  /\ Submission
  /\ changes' = changes + 1
  /\ disturbed' = disturbed \cup {"meddling"}
  /\ UNCHANGED <<hasRelayer, enclave, calls, page, wallet, keyVars>>

Passes ==
  /\ Tick
  /\ UNCHANGED <<hasRelayer, enclave, calls, page, wallet, disturbed, changes, keyVars>>

HandlerStep(c) ==
  \/ Sign(c) \/ Deliver(c) \/ ReadNonce(c) \/ SendRaw(c) \/ Registered(c)
  \/ Returns(c) \/ Fails(c) \/ SendFromWallet(c) \/ ReadScore(c) \/ ShowScore(c)

RelayNext ==
  \/ \E c \in Calls : Click(c) \/ Refuse(c) \/ Visit(c) \/ HandlerStep(c)
  \/ ProofArrives \/ MineNext \/ MineWallet \/ Register \/ Meddle \/ Passes
  \/ \E k \in Keys, h \in CodeHashes : Boot(k, h)

RelaySpec == RelayInit /\ [][RelayNext]_relayVars
-----------------------------------------------------------------------------
\* Type invariant of the handlers: no handler holds a nonce that the chain has
\* not reached.
RelayTypeOK ==
  /\ hasRelayer \in BOOLEAN
  /\ enclave \in [key : Keys, codeHash : CodeHashes]
  /\ disturbed \subseteq {"overlap", "growth", "meddling", "failure", "rejected"}
  /\ \A c \in Calls : calls[c].nonce <= mined

\* The applicant's score, as the registry holds it.
Held == scores[Applicant]

NewestStep ==
  Held' # Held /\ Held # NoScore /\ disturbed' \cap {"overlap", "meddling"} = {}
    => /\ Held'.expiry >= Held.expiry
       /\ "rejected" \notin disturbed' => Held'.score >= Held.score

\* As long as the user waits for a click to end before the next one, and nobody
\* else submits envelopes of the applicant, a submission given up for lost that
\* is mined late never puts an earlier score in the place of a later one: what
\* the registry holds never expires sooner than before, nor is it lower, unless
\* the enclave left proofs out that it could not verify.
NewestScoreStays == [][NewestStep]_relayVars

\* The click of c is refused.
Refuses(c) == At(c, "idle") /\ At(c, "refused")'

\* All the page's proofs, as they counted when the score was signed.
HeldIsCurrent ==
  /\ Held.score = ScoreFor(page.proofs, Held.expiry - Validity)
  /\ Held.expiry >= now

RefusedStep ==
  \A c \in Calls :
    Refuses(c) /\ hasRelayer /\ UnderWay = {} /\ disturbed = {} /\ (\A r \in receipts : r.ok)
      => HeldIsCurrent

\* With a relayer key, a click is refused only while the registry holds the
\* score of all the proofs that the page has, not expired: unless a submission
\* failed, or was mined and reverted, the enclave left out a proof, a proof came
\* in under a click, or two clicks or other senders were mixed in. Without a
\* relayer key the page notes the proofs as scored before the wallet's
\* transaction is in a block, and an older score may stand for theirs.
RefusedOnlyWhenRegistered == [][RefusedStep]_relayVars

RefusalStep ==
  \A c \in Calls :
    Refuses(c) /\ hasRelayer /\ UnderWay = {} /\ disturbed \subseteq {"growth"}
      => HeldIsCurrent

\* What the comment and the message of the handler say: a click is refused for a
\* valid score registered from these exact proofs, and allowed again when a new
\* attestation is added. Does not hold, with a relayer key and no failure at all:
\* what counts as scored is read after the score was computed and submitted, and
\* a proof that came in meanwhile is taken for one of those.
RefusalIsTrue == [][RefusalStep]_relayVars
=============================================================================
