------------------------------ MODULE ScoreModel ------------------------------
(***************************************************************************)
(* What a score is made of: the proofs the enclave admits and the score    *)
(* model it applies to them (enclave-go/main.go), and the mock enclave     *)
(* that has to give the same answer (tools/mock_enclave.py).               *)
(*                                                                         *)
(* The enclave keeps nothing between requests: it answers from the proofs  *)
(* it is sent, the clock, and what the chain answers it about each proof   *)
(* then, which may be nothing. The client's list of proofs grows, in the   *)
(* order the DA layer and the backups happen to deliver them.              *)
(* Amounts are in XRP, times in days.                                      *)
(***************************************************************************)
EXTENDS Integers, Sequences, SequencesExt, FiniteSetsExt, Functions

CONSTANTS
  Addresses,  \* XRPL address hashes
  Proofs,     \* the proofs a client may send: [body, kind]
  MaxProofs,  \* bound on the state space: proofs in a request
  MaxDay      \* bound on the state space: the clock stops here

\* PaymentResponseBody with the transaction id of its request. `at` is
\* blockTimestamp.
Payment(b) ==
  /\ b.source \in Addresses /\ b.dest \in Addresses
  /\ b.status \in 0..255 /\ b.amount \in Int /\ b.at \in 1..MaxDay

\* A proof verifies against the round root, or is a well-formed response that
\* does not ("forged"), or cannot be parsed ("opaque"). What verifies is what
\* happened: a transaction id has one payment.
ASSUME ProofsAssumption ==
  /\ IsFiniteSet(Addresses)
  /\ \A p \in Proofs : Payment(p.body) /\ p.kind \in {"verified", "forged", "opaque"}
  /\ \A p, q \in Proofs :
       p.kind = "verified" /\ q.kind = "verified" /\ p.body.tx = q.body.tx => p = q

ASSUME BoundsAssumption == MaxProofs \in Nat /\ MaxDay \in Nat \ {0}

VARIABLES
  bound,   \* the XRPL address of the checked binding
  proofs,  \* the proofs the client has
  today,   \* time.Now()
  score,   \* the score of the last envelope, 0 before the first
  unanswered \* the places in that request whose eth_call failed

vars == <<bound, proofs, today, score, unanswered>>

VolumeCap == 100  \* per counterparty
VolumeStep == 25
AgeDays == 30
-----------------------------------------------------------------------------
TxsOf(counted) == {b.tx : b \in Range(counted)}

\* Faulty variant: duplicates are not looked for.
FreshAlways(counted, b) == TRUE

Fresh(counted, b) == b.tx \notin TxsOf(counted)

\* handleScore: one turn of the loop over the proofs. seenTx holds the ids of
\* the proofs counted, so a rejected proof does not spend its transaction.
Admit(counted, p) ==
  IF /\ p.kind = "verified"
     /\ p.body.source = bound
     /\ p.body.status = 0
     /\ Fresh(counted, p.body)
     /\ p.body.dest # bound
  THEN Append(counted, p.body)
  ELSE counted

Counted(list) == FoldLeft(Admit, <<>>, list)

\* verifyPayment: an eth_call that fails is taken for a no.
Unanswered(p) == [body |-> p.body, kind |-> "unanswered"]

\* The client's list as a request finds it whose calls at `lost` fail.
Heard(lost) ==
  [i \in DOMAIN proofs |-> IF i \in lost THEN Unanswered(proofs[i]) ELSE proofs[i]]

\* Faulty variant: no self-payment rule in the mock.
MockAdmitSelf(owned, p) ==
  IF /\ p.kind # "opaque"
     /\ p.body.source = bound
     /\ p.body.status = 0
     /\ p.body.tx \notin TxsOf(owned)
  THEN Append(owned, p.body)
  ELSE owned

\* filter_owned of the mock, which does not verify proofs.
MockAdmit(owned, p) ==
  IF /\ p.kind # "opaque"
     /\ p.body.source = bound
     /\ p.body.status = 0
     /\ p.body.tx \notin TxsOf(owned)
     /\ p.body.dest # p.body.source
  THEN Append(owned, p.body)
  ELSE owned

MockOwned == FoldLeft(MockAdmit, <<>>, proofs)

AtMost(n, limit) == IF n > limit THEN limit ELSE n

\* scoreModel, per-counterparty volume: amounts that are not positive add
\* nothing, the sum stops at the cap.
AddVolume(volumes, b) ==
  IF b.amount > 0
  THEN [volumes EXCEPT ![b.dest] = AtMost(@ + b.amount, VolumeCap)]
  ELSE volumes

\* scoreModel, the oldest timestamp: 0 stands for none.
OldestOf(oldest, b) == IF oldest = 0 \/ b.at < oldest THEN b.at ELSE oldest

\* Faulty variant: the comparison is turned around.
AgeOfNewest(counted) ==
  LET newest == FoldLeft(LAMBDA o, b : IF o = 0 \/ b.at > o THEN b.at ELSE o, 0, counted)
  IN IF newest # 0 /\ today - newest > AgeDays THEN 100 ELSE 0

AgePoints(counted) ==
  LET oldest == FoldLeft(OldestOf, 0, counted)
  IN IF oldest # 0 /\ today - oldest > AgeDays THEN 100 ELSE 0

TotalVolume(counted) ==
  LET volumes == FoldLeft(AddVolume, [a \in Addresses |-> 0], counted)
  IN SumFunction(volumes)

VolumePoints(counted) == AtMost((TotalVolume(counted) \div VolumeStep) * 35, 200)

TransactionPoints(counted) == AtMost(Len(counted) * 40, 200)

\* scoreModel
Breakdown(counted) ==
  [base |-> 400, transactions |-> TransactionPoints(counted),
   volume |-> VolumePoints(counted), walletAge |-> AgePoints(counted),
   cleanRepayment |-> 100]

ScoreOf(d) ==
  AtMost(d.base + d.transactions + d.volume + d.walletAge + d.cleanRepayment, 1000)

\* score_model of the mock, one turn of its loop: amounts that are not positive
\* are added as 0.
AddAmount(volumes, b) ==
  [volumes EXCEPT ![b.dest] =
     AtMost(@ + (IF b.amount > 0 THEN b.amount ELSE 0), VolumeCap)]

\* score_model of the mock: its volumes hold 0 for a counterparty paid nothing.
MockBreakdown(owned) ==
  LET drops == SumFunction(FoldLeft(AddAmount, [a \in Addresses |-> 0], owned))
      times == {b.at : b \in Range(owned)}
      old == \E t \in times : (\A u \in times : t <= u) /\ today - t > AgeDays
  IN [base |-> 400,
      transactions |-> AtMost(Len(owned) * 40, 200),
      volume |-> AtMost((drops \div VolumeStep) * 35, 200),
      walletAge |-> IF old THEN 100 ELSE 0,
      cleanRepayment |-> 100]

Init ==
  /\ bound \in Addresses
  /\ proofs = <<>>
  /\ today = 1
  /\ score = 0
  /\ unanswered = {}

\* One more proof in the client's list, old or new, of anyone's payment.
Receive(p) ==
  /\ Len(proofs) < MaxProofs
  /\ p.body.at <= today
  /\ proofs' = Append(proofs, p)
  /\ UNCHANGED <<bound, today, score, unanswered>>

NextDay ==
  /\ today < MaxDay
  /\ today' = today + 1
  /\ UNCHANGED <<bound, proofs, score, unanswered>>

\* handleScore, past the binding check: it signs whatever the calls that failed
\* have left of the list.
HandleScore(lost) ==
  /\ score' = ScoreOf(Breakdown(Counted(Heard(lost))))
  /\ unanswered' = lost
  /\ UNCHANGED <<bound, proofs, today>>

Next ==
  \/ \E lost \in SUBSET DOMAIN proofs : HandleScore(lost)
  \/ \E p \in Proofs : Receive(p)
  \/ NextDay

Spec == Init /\ [][Next]_vars
-----------------------------------------------------------------------------
\* Every component of the breakdown stays within the maximum it is shown with.
TypeOK ==
  /\ bound \in Addresses /\ proofs \in Seq(Proofs) /\ today \in 1..MaxDay
  /\ score \in {0} \cup 500..1000
  /\ unanswered \subseteq DOMAIN proofs
  /\ Breakdown(Counted(Heard(unanswered))) \in
       [base : {400}, transactions : 0..200, volume : 0..200,
        walletAge : {0, 100}, cleanRepayment : {100}]

\* The payments of a list that should count: made by the bound address to
\* another one, successful, and proved by at least one proof that verified.
Deserved(list) ==
  {p.body : p \in {q \in Range(list) :
     /\ q.kind = "verified" /\ q.body.status = 0
     /\ q.body.source = bound /\ q.body.dest # bound}}

\* The capped volume that the payments b of a set sent to a.
VolumeTo(a, paid) ==
  LET to == {b \in paid : b.dest = a /\ b.amount > 0}
  IN AtMost(SumFunction([b \in to |-> b.amount]), VolumeCap)

\* Whatever calls of a request fail, its score is that of the set of payments
\* the others prove, each counted once: it does not depend on the order in which
\* the proofs are listed, on the ones listed twice, of which one may fail and
\* the other not, or on the rejected ones between them.
ScoreIsOfPayments ==
  \A lost \in SUBSET DOMAIN proofs :
    LET paid == Deserved(Heard(lost))
    IN ScoreOf(Breakdown(Counted(Heard(lost)))) =
         500 + AtMost(40 * Cardinality(paid), 200)
             + AtMost(35 * (SumFunction([a \in Addresses |-> VolumeTo(a, paid)]) \div VolumeStep), 200)
             + (IF \E b \in paid : today - b.at > AgeDays THEN 100 ELSE 0)

\* Neither one more proof, whatever it is a proof of, nor time lowers a score: a
\* lower one than the last is signed only in a request in which, for some payment
\* that deserves to count, the call failed for every proof of it.
FallsOnlyUnanswered ==
  [][score' < score =>
       \E b \in Deserved(proofs) : \A i \in DOMAIN proofs \ unanswered' :
         proofs[i].kind = "verified" => proofs[i].body # b]_vars

\* "Keep in lockstep": as long as no proof is forged and no call fails, neither
\* of which the mock can tell, the mock and the enclave count the same payments
\* and give the same breakdown.
Lockstep ==
  (\A p \in Range(proofs) : p.kind # "forged")
    => /\ MockOwned = Counted(proofs)
       /\ MockBreakdown(MockOwned) = Breakdown(Counted(proofs))
=============================================================================
