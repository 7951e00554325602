----------------------------- MODULE RelayerKey -----------------------------
(***************************************************************************)
(* The transactions of one key at the RPC node, as the backend and         *)
(* tools/deploy.py use it: a nonce read from the latest block, a raw       *)
(* transaction sent, a receipt waited for.                                 *)
(*                                                                         *)
(* The node holds at most one transaction a nonce. Which of two is kept    *)
(* depends on their fees, so a second one either replaces the first or is  *)
(* refused. A call that is not answered may have reached the node.         *)
(***************************************************************************)
EXTENDS Integers, FiniteSets

VARIABLES
  mined,    \* transactions of the key in blocks: its nonce at the latest block
  mempool,  \* what the node holds of the key: [id, nonce]
  receipts  \* of the transactions in blocks: [id, ok]

keyVars == <<mined, mempool, receipts>>

KeyInit == mined = 0 /\ mempool = {} /\ receipts = {}

\* Faulty variant: the transactions not mined yet are counted too.
TransactionCountPending == mined + Cardinality(mempool)

\* get_transaction_count(address): no block is named, so it is the latest one.
TransactionCount == mined

\* send_raw_transaction takes the transaction, in place of one of its nonce.
Send(id, nonce) ==
  /\ nonce >= mined
  /\ mempool' = {t \in mempool : t.nonce # nonce} \cup {[id |-> id, nonce |-> nonce]}
  /\ UNCHANGED <<mined, receipts>>

\* The key's next transaction gets into a block, and succeeds or reverts.
Mine(id, ok) ==
  /\ [id |-> id, nonce |-> mined] \in mempool
  /\ mempool' = mempool \ {[id |-> id, nonce |-> mined]}
  /\ mined' = mined + 1
  /\ receipts' = receipts \cup {[id |-> id, ok |-> ok]}

\* What wait_for_transaction_receipt waits for.
HasReceipt(id, ok) == [id |-> id, ok |-> ok] \in receipts

\* A transaction never waits behind a nonce that nobody sends: what the node
\* holds of the key can always be mined right away. As every sender counts
\* only what is mined, no two transactions of the key wait at the same time.
PendingIsNext == \A t \in mempool : t.nonce = mined
=============================================================================
