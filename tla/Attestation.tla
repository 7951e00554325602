------------------------------ MODULE Attestation ------------------------------
(***************************************************************************)
(* Collecting payment proofs: the attest button and its pollers            *)
(* (static/app/app.js), the backend calls behind them                      *)
(* (app/services/fdc.py) and the FDC, which attests the requests of a      *)
(* voting round once that round is over.                                   *)
(*                                                                         *)
(* A browser tab runs one handler per click. Between two awaits a handler  *)
(* is one step; at an await any other handler, tab or service may move.    *)
(* All tabs of a browser share one localStorage.                           *)
(***************************************************************************)
EXTENDS Integers, Sequences, FiniteSets, Functions

CONSTANTS
  Tabs,      \* tabs of one browser, connected to one account
  Clicks,    \* bound on the state space: the clicks on the attest button
  Txs,       \* XRPL transaction hashes, normalised
  PollMax,   \* POLL_MAX: 25
  MaxRound,  \* bound on the state space: voting rounds
  MaxReload  \* bound on the state space: page reloads

ASSUME AttestationAssumption ==
  /\ PollMax \in Nat \ {0} /\ MaxRound \in Nat /\ MaxReload \in Nat

VARIABLES
  proofs,     \* S.proofs of each tab
  pending,    \* S.pending of each tab: the clicks whose items it holds
  stored,     \* proofs in localStorage
  backup,     \* proofs in the last backup file downloaded
  handlers,   \* each click's handler, then its poller
  requested,  \* attestation requests on the chain: <<tx, round>>
  proved,     \* those the DA layer serves a proof of
  round,      \* the voting round of the latest block
  reloads

vars == <<proofs, pending, stored, backup, handlers, requested, proved, round, reloads>>
clientVars == <<proofs, pending, stored, backup>>
fdcVars == <<requested, proved, round>>

\* An entry of S.proofs: { txid, votingRoundId, proof, response }. A response
\* in the raw form is kept like any other, and no enclave can read it.
Proof(tx, r, raw) == [tx |-> tx, round |-> r, raw |-> raw]
Proofs == [tx : Txs, round : 0..MaxRound, raw : BOOLEAN]

\* A handler awaits one answer ("prepare", "request", "poll") or its timer
\* ("sleep"). The round of the request's block is known once it is mined.
Unused == [stage |-> "unused"]
Handlers ==
  [stage : {"prepare", "request", "mined", "poll", "sleep", "done", "failed", "gone"},
   tab : Tabs, tx : Txs, round : 0..MaxRound, attempt : 0..PollMax]

Live == {"prepare", "request", "mined", "poll", "sleep"}
Polling == {"poll", "sleep"}

TxsOf(s) == {p.tx : p \in Range(s)}
Enter(c, stage) == handlers' = [handlers EXCEPT ![c].stage = stage]

\* Faulty variant: the filter keeps the item.
WithoutNone(t, c) == pending[t]

WithoutItem(t, c) == pending[t] \ {c}

\* All of a tab's proofs replace those in localStorage, if they fit: setItem
\* throws when they do not, with the proofs in memory and nothing replaced.
Save(t, list) == proofs' = [proofs EXCEPT ![t] = list] /\ stored' \in {stored, list}

\* Faulty variant: the proof is pushed without looking for it first.
HeldUnasked(h) == FALSE

Held(h) == h.tx \in TxsOf(proofs[h.tab])

\* A proof joins those kept unless they hold one of its transaction.
Joined(kept, p) == IF p.tx \in TxsOf(kept) THEN kept ELSE Append(kept, p)

\* The proofs of a list join those kept, in order.
Merged(kept, list) ==
  LET merged[n \in 0..Len(list)] ==
        IF n = 0 THEN kept ELSE Joined(merged[n - 1], list[n])
  IN  merged[Len(list)]

\* Faulty variant: the proof is filed under the current round.
GainedNow(h, raw) == Proof(h.tx, round, raw)

Gained(h, raw) == Proof(h.tx, h.round, raw)

Init ==
  /\ proofs = [t \in Tabs |-> <<>>]
  /\ pending = [t \in Tabs |-> {}]
  /\ stored = <<>>
  /\ backup = <<>>
  /\ handlers = [c \in Clicks |-> Unused]
  /\ requested = {}
  /\ proved = {}
  /\ round = 0
  /\ reloads = 0
-----------------------------------------------------------------------------
\* The attest button: a transaction already proved or already pending in this
\* tab is refused. Nothing marks it as pending until /fdc/request answers.
Click(c, t, tx) ==
  /\ handlers[c] = Unused
  /\ tx \notin TxsOf(proofs[t])
  /\ tx \notin {handlers[d].tx : d \in pending[t]}
  /\ handlers' = [handlers EXCEPT ![c] =
       [stage |-> "prepare", tab |-> t, tx |-> tx, round |-> 0, attempt |-> 0]]
  /\ UNCHANGED <<clientVars, fdcVars, reloads>>

\* /fdc/prepare answers: the verifier's encoding of the request, and the fee.
Prepared(c) ==
  /\ handlers[c].stage = "prepare"
  /\ Enter(c, "request")
  /\ UNCHANGED <<clientVars, fdcVars, reloads>>

\* request_attestation: the backend's transaction is mined. The request may
\* have reverted, for the status of the receipt is not looked at.
Mined(c) ==
  /\ handlers[c].stage = "request"
  /\ handlers' = [handlers EXCEPT ![c].stage = "mined", ![c].round = round]
  /\ requested' \in {requested, requested \cup {<<handlers[c].tx, round>>}}
  /\ UNCHANGED <<clientVars, proved, round, reloads>>

\* /fdc/request answers with the round of the block: the item becomes pending
\* and its first poll starts.
Requested(c) ==
  LET h == handlers[c] IN
  /\ h.stage = "mined"
  /\ pending' = [pending EXCEPT ![h.tab] = @ \cup {c}]
  /\ Enter(c, "poll")
  /\ UNCHANGED <<proofs, stored, backup, fdcVars, reloads>>

\* Either call fails: rate limit, verifier, RPC, or no receipt in 60 seconds,
\* with the transaction mined all the same.
RequestFails(c) ==
  /\ handlers[c].stage \in {"prepare", "request", "mined"}
  /\ Enter(c, "failed")
  /\ UNCHANGED <<clientVars, fdcVars, reloads>>

\* get_proof: the DA layer has nothing for this round, yet or ever.
NotReady(c) ==
  /\ handlers[c].stage = "poll"
  /\ <<handlers[c].tx, handlers[c].round>> \notin proved
  /\ Enter(c, "sleep")
  /\ UNCHANGED <<clientVars, fdcVars, reloads>>

\* The proof is there, in the raw form when the JSON endpoint of the DA layer
\* fails: the item stops pending, and the proof is kept unless another poller
\* has brought one of the same transaction. All of it is one step, and so is
\* the catch of a save that fails.
Ready(c) ==
  LET h == handlers[c] IN
  /\ h.stage = "poll"
  /\ <<h.tx, h.round>> \in proved
  /\ Enter(c, "done")
  /\ pending' = [pending EXCEPT ![h.tab] = WithoutItem(h.tab, c)]
  /\ IF Held(h) THEN UNCHANGED <<proofs, stored>>
     ELSE \E raw \in BOOLEAN : Save(h.tab, Append(proofs[h.tab], Gained(h, raw)))
  /\ UNCHANGED <<backup, fdcVars, reloads>>

\* /fdc/proof fails: the catch ends the poller, and leaves the item pending.
PollFails(c) ==
  /\ handlers[c].stage = "poll"
  /\ Enter(c, "failed")
  /\ UNCHANGED <<clientVars, fdcVars, reloads>>

\* Faulty variant: attempts are not counted.
AttemptsStuck(h) == h.attempt

Attempts(h) == h.attempt + 1

Over(h) == Attempts(h) >= PollMax

\* The timer: one more attempt, or the poller gives up and clears the item.
Wake(c) ==
  LET h == handlers[c] IN
  /\ h.stage = "sleep"
  /\ handlers' = [handlers EXCEPT
       ![c].attempt = Attempts(h),
       ![c].stage = IF Over(h) THEN "done" ELSE "poll"]
  /\ pending' = IF Over(h) THEN [pending EXCEPT ![h.tab] = WithoutItem(h.tab, c)]
                ELSE pending
  /\ UNCHANGED <<proofs, stored, backup, fdcVars, reloads>>

\* onConnected after a reload (F5, another account and back): memory is lost,
\* with every handler; the proofs are read back, once each, and saved again.
Reload(t) ==
  LET restored == Merged(<<>>, stored) IN
  /\ reloads < MaxReload
  /\ reloads' = reloads + 1
  /\ handlers' = [c \in Clicks |->
       IF handlers[c].stage \in Live /\ handlers[c].tab = t
       THEN [handlers[c] EXCEPT !.stage = "gone"] ELSE handlers[c]]
  /\ pending' = [pending EXCEPT ![t] = {}]
  /\ proofs' = [proofs EXCEPT ![t] = restored] /\ stored' = restored
  /\ UNCHANGED <<backup, fdcVars>>

\* exportBackup: a signed binding is enough to have something to export.
Export(t) ==
  /\ backup' = proofs[t]
  /\ UNCHANGED <<proofs, pending, stored, handlers, fdcVars, reloads>>

\* Faulty variant: the restored proofs take the place of those at hand.
ImportReplaces(t) ==
  /\ backup # <<>>
  /\ Save(t, backup)
  /\ UNCHANGED <<pending, backup, handlers, fdcVars, reloads>>

\* importBackup: the proofs of the file that this tab does not have.
Import(t) ==
  /\ backup # <<>>
  /\ Save(t, Merged(proofs[t], backup))
  /\ UNCHANGED <<pending, backup, handlers, fdcVars, reloads>>

\* The next voting round starts.
NextRound ==
  /\ round < MaxRound
  /\ round' = round + 1
  /\ UNCHANGED <<clientVars, handlers, requested, proved, reloads>>

\* The DA layer serves the proofs of a round that is over. A request may be
\* missed for ever.
Finalise(q) ==
  /\ q[2] < round
  /\ proved' = proved \cup {q}
  /\ UNCHANGED <<clientVars, handlers, requested, round, reloads>>

Answer(c) ==
  \/ Prepared(c) \/ Mined(c) \/ Requested(c) \/ RequestFails(c)
  \/ NotReady(c) \/ Ready(c) \/ PollFails(c)

Next ==
  \/ \E c \in Clicks, t \in Tabs, tx \in Txs : Click(c, t, tx)
  \/ \E c \in Clicks : Answer(c) \/ Wake(c)
  \/ \E t \in Tabs : Reload(t) \/ Export(t) \/ Import(t)
  \/ NextRound
  \/ \E q \in requested : Finalise(q)

Spec == Init /\ [][Next]_vars

\* Every call has a timeout and every timer fires: each handler goes on.
FairSpec == Spec /\ \A c \in Clicks : WF_vars(Answer(c) \/ Wake(c))
-----------------------------------------------------------------------------
TypeOK ==
  /\ proofs \in [Tabs -> Seq(Proofs)]
  /\ stored \in Seq(Proofs) /\ backup \in Seq(Proofs)
  /\ pending \in [Tabs -> SUBSET Clicks]
  /\ handlers \in [Clicks -> Handlers \cup {Unused}]
  /\ requested \subseteq Txs \X (0..MaxRound) /\ proved \subseteq requested
  /\ round \in 0..MaxRound /\ reloads \in 0..MaxReload

OncePerTx(s) == Cardinality(TxsOf(s)) = Len(s)

\* Two clicks, a click and a backup, a reload: however the proofs of one
\* transaction come in, each list of proofs holds one at most. The run has one
\* tab, the theorem ProofsAreDistinct any number of them.
NoDuplicateProofs ==
  /\ \A t \in Tabs : OncePerTx(proofs[t])
  /\ OncePerTx(stored) /\ OncePerTx(backup)

\* Every proof kept is one the DA layer gave for the round in which the
\* transaction was requested.
ProofsWereRequested ==
  \A t \in Tabs : \A p \in Range(proofs[t]) \cup Range(stored) :
    <<p.tx, p.round>> \in proved

\* A proof in localStorage stays there and stays what it is, readable or raw,
\* through saves that fail, backups and other pollers. SECURITY.md says that the
\* client keeps the proofs, which the DA layer serves for a limited time only.
ProofsAreKept == [][Range(stored) \subseteq Range(stored')]_vars

\* A click is over at some point: polling stops, with a proof or without.
HandlersEnd == \A c \in Clicks : handlers[c].stage \in Live ~> handlers[c].stage \notin Live

\* An item stops pending, unless a poll failed under it.
PendingSettlesOrFailed ==
  \A c \in Clicks : \A t \in Tabs :
    c \in pending[t] ~> c \notin pending[t] \/ handlers[c].stage = "failed"

\* app.js on a transaction that is pending: its proof arrives in 2 to 3
\* minutes, no need to resubmit. So it is not pending for ever.
PendingSettles ==
  \A c \in Clicks : \A t \in Tabs : c \in pending[t] ~> c \notin pending[t]
=============================================================================
