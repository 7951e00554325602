# FlareCredit: a TLA+ verification project

FlareCredit scores the payment history of an XRPL wallet inside an enclave,
publishes the score on Flare's Coston2 chain, and lends FXRP against native
coins at a collateral ratio that the score lowers from 150% to 120%. This
directory holds TLA+ models of its contracts, of its backend's in-memory state,
of the scoring model, of the path of a score from the button to the chain, of the
deployment script and of the page flows that have hard interleavings, the TLC
configurations that check them, and TLAPS proofs of the theorems that hold for every
value of the constants.

Contents: [inventory](#1-inventory) ·
[modules](#2-modules-and-how-they-correspond-to-the-code) ·
[runs](#3-runs-and-what-they-show) · [disagreements
found](#4-where-the-code-and-its-documents-disagree) · [fairness](#5-fairness) ·
[proofs](#6-proofs) · [assumptions](#7-assumptions-and-abstractions) · [not
modelled](#8-what-is-not-modelled) · [plan](#9-plan) · [how to run](#10-running-it)

## 1. Inventory

### On the chain (`contracts/`)

| Component | State | Operations | Correct when |
|---|---|---|---|
| `CreditRegistry.sol` | owner, signer per code hash, score record per subject | `registerTeeSigner`, `submitScore`, `getScore` | only scores an enclave signed for that subject, with the key registered at the time, are stored; a lapsed one is not seen |
| `FxrpLendingPool.sol` | position (collateral, debt) per account; its coins; its FXRP | `deposit`/`receive`, `withdraw`, `borrow`, `repay`, `liquidate`, views | books balance; only the world outside makes a loan unhealthy; liquidation is open and fair; nobody is locked in |
| `MockFXRP.sol` | supply, balances, allowances | `mint`, `transfer`, `approve`, `transferFrom` | balances add up to the supply; spending is authorised; unchecked additions do not overflow |
| `IdentityLinkRegistry.sol` | binding hash per account | `link`, `unlink`, from the account, with any hash | the last transaction stands |
| `MockFtsoV2.sol` | value and decimals per feed | `setFeed`, `getFeedById` | the pool copes with whatever it returns |

The pool calls the token (`transfer`, `transferFrom`) and sends coins to the
caller inside a transaction; it reads the registry and the feeds at every check.
Transactions are atomic, so the interleavings are those of whole transactions
of several accounts, of the relayer and of the price oracle, in any order.

### Backend (`app/`, FastAPI)

| Component | State | Operations | Correct when |
|---|---|---|---|
| `services/xrpl_identity.py` | one challenge per Flare address, in memory | `make_challenge`, `verify_signature` (plain functions: thread pool) | a binding hash goes only to who proved the XRPL key; a nonce works once |
| `routes.py` `rate_limit`, `fc_support.py` `_rate_limit` | a deque of times per key, in memory | one call: purge, test, append | at most the limit per window; refuses nobody without cause; ends |
| `services/fdc.py` | none; sends transactions from the relayer key | prepare, request, proof | the proof of the round asked for is the one delivered |
| `services/enclave.py`, `services/registry.py` | none; relayer key | compute, verify the envelope, submit, reads | what the page is told happened did happen |
| the relayer key (`fdc.py`, `enclave.py`, `registry.py`, `tools/deploy.py`) | at the node: its nonce, pending transactions, receipts | read the nonce of the latest block, send, wait for a receipt | no transaction waits behind one that never comes; a lost one does no harm later |
| `fc_support.py` | none beyond its limiter | honeypot, limiter, two e-mails per message | who is thanked was heard; no more mails than the limiter let through |
| `tools/deploy.py`, `config.py` | contracts on the chain; `.env`; the settings the server keeps | six transactions and the write of `.env` | nobody is pointed at a stack that is not complete |

### Enclave (`enclave-go/main.go`, stand-in `tools/mock_enclave.py`)

No state between requests but the key made at boot. One request: check the
binding against the registry, verify each proof by an `eth_call` and filter them, score,
sign with an expiry. A call that fails counts as a no, and the score is signed without
that proof. Correct when the score is that of the *set* of payments which the other
proofs prove, and the two implementations agree.

### Page (`static/app/app.js`)

State in memory (`S.binding`, `S.proofs`, `S.pending`, `S.linkedOnChain`,
`scoredFp`), copies in `localStorage` and in a backup file. Handlers are
single-threaded between awaits, and interleave at every await with other
handlers, other tabs, wallet windows and reloads. Correct when what the page
shows and keeps is what the chain and the services hold, proofs are neither lost
nor doubled, and nothing waits for ever.

### Hard behaviours

* thread interleavings on shared dictionaries and deques of the backend;
* handlers that go on after an await with state others have changed;
* time: expiries of scores and challenges, voting rounds, windows of a limiter;
* wallet windows left open, transactions sent and not mined, page reloads;
* crashes of the deployment script, restarts of the server, a nonce shared by several
  senders, transactions given up for lost and mined late, replaced or reverted;
* integer rounding of prices, ratios and caps;
* feeds that fail, calls that fail, one step of several that fails.

`PROJECT.json` lists these one by one under `hazards`, each at its line, with the
properties that would catch it.

## 2. Modules and how they correspond to the code

```
AccountTotals  LendingMath   LendingBook      RelayerKey        SlidingWindow
      |   \        |         (refined)         /      \           (refined)
      |    \       |            |    CreditRegistry    \              |
      |     \      |            |     /      |   \      \         RateLimiter
  MockFXRP   FxrpLendingPool ---+----+   ScoreRelay   Deployment      |
                                                                  SupportForm

  on their own:  ChallengeStore   ScoreModel   Attestation   Identity
```

`FxrpLendingPool` INSTANCEs `MockFXRP` (`WITH caller <- Pool`), `CreditRegistry` and
`LendingBook`, `RateLimiter` INSTANCEs `SlidingWindow`; `ScoreRelay` EXTENDS
`CreditRegistry` and `RelayerKey`, `Deployment` EXTENDS `RelayerKey`, `SupportForm` EXTENDS
`RateLimiter`.

`X_proofs` extends module `X` with its theorems (`RelayerKey_proofs` the two modules that
use the key: `ScoreRelay`, with the registry's, and `Deployment`); `MCX` gives constants and
symmetry that a `.cfg` cannot write. Definitions called *Faulty variant* are
deliberately wrong forms of the definition that follows them: they record which
plausible mistake each property would catch (`mutants` in `PROJECT.json`), and
no specification uses them.

**`MockFXRP`** — one action per function of the token. Solidity's checked and `unchecked`
arithmetic is kept: a checked operation that overflows is a disabled action, and `MaxUint`
is a parameter so that TLC reaches the unlimited allowance. `MaxSupply` bounds what is
minted. The history variable `caller` is the `msg.sender` of the last transaction: a pull is
told from a transfer by who sent it (`Call`). `AccountTotals` defines the sum of a function
over the accounts (a recursive function, no RECURSIVE operator) and `Move`, the two
assignments of a transfer in the order of the code, which matters for a transfer to oneself.

**`CreditRegistry`** — `registerTeeSigner` (by the owner only), `submitScore`
(by anyone, with any signature that was ever made, or by a stranger) and the passing of
block time. A signature is the pair of a key and the digest it signs; the set
`signed` is everything enclaves have signed so far, so replay and reordering
come for free. `GetScore` is the view. Actions such as an envelope signed with a
score above 1000 or for another subject are in the model because the relay is
public.

**`LendingMath`** — the pool's arithmetic as operators: `_fxrpToWei`,
`_weiToFxrp`, the health check, the seizure of a liquidation, `maxBorrowable`,
with flooring division and, for each, the condition under which the checked
arithmetic *returns* rather than reverts.

**`FxrpLendingPool`** — composes the pool's positions and coins with
`Token == INSTANCE MockFXRP` and `Registry == INSTANCE CreditRegistry`. An action
is a whole transaction with the token call it makes; a revert anywhere disables
it. Around the pool everything else moves too: `HolderStep` (tokens minted,
sent, also straight to the pool, and approved), `RegistryStep` (scores signed,
submitted, lapsing), `SetFeeds` (any pair of the instance's prices). The initial
state is what `tools/deploy.py` leaves: a pool funded with FXRP.

**`LendingBook`** — what the pool promises, without prices, ratios, scores or
tokens: collateral and debt of each holder, the coins that back the collateral and
the FXRP in reserve, and six operations that each move both sides of the book.
`FxrpLendingPool` implements it (`ImplementsLendingBook`), with `coins[Pool]` and the
token balance of the pool for the two totals.

**`RelayerKey`** — the transactions of one key at the RPC node. A nonce is read from
the latest block (`get_transaction_count` without `"pending"`), so a second
sender gets the nonce of a transaction that still waits: the node keeps one of the two.
`Mine` puts the key's next transaction into a block, successfully or reverted.

**`ScoreRelay`** — the score button with its gate (`scoredFp`, the score read last, the
envelope's expiry, the proofs without which it is disabled), `/score/compute` over HTTPS or
through the chain, the envelope's checks, `/score/submit` or the wallet, the receipt, and
the read back; composed with `CreditRegistry` and `RelayerKey`. A handler is in the stage of
the await it is at; `Fails` ends it at any of them and leaves its transaction with the node.
The enclave may leave out any of the proofs (`counted` in `Sign`), of which the page is not
told. Around it enclaves reboot with a fresh key and any code hash, the owner registers and
replaces signers, other visitors use the same relayer key, and anyone submits what was
signed. `score_compute` runs blocking calls on the event loop, so nothing else of the loop
moves meanwhile (`LoopIsFree`).

**`Deployment`** — `tools/deploy.py`: a nonce read once and counted on, six transactions
each after the receipt of the one before, the write of `.env`, which is empty for a moment
(`Truncate`, `WriteEnv`); runs that fail, are stopped or overlap at any point; the server,
which reads `.env` when it starts (`load_dotenv`; where that found nothing, `get_settings`
at its first call) and keeps what it read; the page that takes its contracts from the
server; requests of the backend that send from the same key.

**`ChallengeStore`** — `_challenges` and the threads of `verify_signature`. A thread's
request is three steps: `LookUp`, the checks on its own copy (`Expire`, `Refuse`, `Check`),
and `Consume`, the `del` of *whatever entry is there now* with its `KeyError`. Requests may
carry any text that was ever issued for signing and any key; a binding handed out is
remembered with both. `Restart` empties the dictionary and ends the requests under way, at
any moment.

**`RateLimiter`** — the deque of one key; each operation on it is a step of a
thread (test, read of the head, pop, count, append). A key belongs to an endpoint
run on threads or on the event loop; the loop starts no call before the one under
way has ended.

**`SlidingWindow`** — what the limiter promises, without a deque and without steps: a call
bears the time at which it came in and is decided at once; on the event loop it passes if
and only if fewer than `Limit` of *all* the calls let through before it fall into its
window, and no call fails. `RateLimiter` implements it (`ImplementsSlidingWindow`): the
entries that the purge has dropped never make a difference. Of threads it promises
nothing about the count, for the code keeps nothing there.

**`SupportForm`** — the form, its honeypot, the missing configuration, the limiter
(`RateLimiter`, step by step) and the two mails. The mail service may take a mail and
answer, take it and not answer within 20 seconds, or refuse it; a visitor who sees an
error sends again.

**`Attestation`** — the attest button, `pollProof`, backup, import and reload of one
or more tabs on one `localStorage`; the `/fdc` endpoints; the FDC, which proves
the requests of a round some time after the round is over, or never. A handler
is in the stage of the await it is at. Nothing marks a transaction as pending
before `/fdc/request` answers, as in the code. A proof may come in the DA layer's
raw form, which the page keeps like any other, and a save may fail for want of space
(`Save`): the proof is then in memory only.

**`ScoreModel`** — `handleScore`'s loop and `scoreModel` of the enclave, and
`filter_owned` and `score_model` of the mock, over a growing list of proofs that
are genuine, forged or unparsable. In each request the calls about any of the proofs may
fail (`Heard`), which the enclave takes for a no (`err != nil || !ok`, main.go:216).
Amounts are in XRP and times in days.

**`Identity`** — sign (up to the challenge, the verification by the backend, and what the
page does with the answer, as three steps), link, unlink, re-sign, reload, restore and the
read of the link after a load; wallet windows that outlive their page; transactions
mined later, in order; the registry's entry; and the enclave's `checkBinding`. A
hash is abstracted to the binding it commits to. Neither the registry, nor a backup file,
nor the enclave asks whether `/identity/verify` ever gave a binding out: `SendElsewhere` is
another client of the account that links any, `Import` restores any file's, `HandleScore`
is asked for any. `Foreign` are the bindings that come in this way, `outside` those that did.

The exact correspondence is `map` in `PROJECT.json`: every definition that models
code, with its file, lines and symbol.

## 3. Runs and what they show

| Run | Question | Bounds, and why they are enough |
|---|---|---|
| `mock_fxrp` | do balances, allowances and supply agree, unlimited allowance and self-transfer included? | 3 accounts (0..2), supply 2 = `MaxUint`: owner, spender and recipient differ or coincide, and amounts sit on the limit |
| `lending_pool` | does the pool implement the book; health, fairness of liquidation, limits; can one leave while feeds fail? | a borrower with 5 coins and a liquidator with 3; the XRP price doubles and halves, and the FLR feed returns zero; one score that appears and lapses; FXRP minted by anyone; 2 wei a unit, so that both ratios, the bonus and every rounding act on collaterals of 1 to 5, under water and above it |
| `challenge_store` | what do racing verifications and restarts allow? | 2 threads, 2 Flare and 2 XRPL addresses, 3 challenges, time 0..2 with a TTL of 1: a race needs two threads on one address and one replacement; the second address is served meanwhile |
| `attestation` | are proofs kept, single and of the right round; do handlers and pending items end? | 2 clicks on 1 or 2 transactions in one tab, 2 polls each, rounds 0..2, 1 reload, a backup at any moment: two pollers of one transaction, or of two, across a reload and a restore, with raw answers and failed saves |
| `score_model` | is the score that of the set of payments; do the implementations agree? | lists of up to 3 of 8 proofs, any calls of a request failing, days 1..33: sums below and above the cap, across a volume step, duplicates, failed, self, forged and opaque ones, the 30-day edge |
| `identity` | does the page always offer a next step, is it right about the link, and where does a binding that is scored come from? | 1 XRPL address, 2 signatures, 1 binding that was never given out, 3 open transactions, 2 reloads at any moment: the nonce tells bindings apart, and two of them are verified, one is not |
| `score_relay` | which scores get to the registry, and is the button right to refuse? | 2 calls of any kind at a time, 2 keys, 2 hashes of which one is expected, 2 signatures, 2 proofs that may arrive at any point and be left out by the enclave, 2 changes (reboots, registrations, submissions of others), time 1..4 with validity 2, one kind of disturbance (below) at a time, which is a state constraint: a score lapses between two clicks, a transaction is replaced, mined late or reverted, a signer changes between signature and submission |
| `support_form` | how far do threads overrun the limit, is the loop exact, is who is thanked heard, do requests end? | 2 visitors or threads of one key, limit 2, 5 calls, time 0..3, window 1: the deque fills, empties and refills, and a call exactly a window old occurs |
| `deployment` | can anything be pointed at a stack that is not complete, and do runs end? | 2 runs of 6 steps and 2 requests of the backend: a step replaced by a request, by the other run, or mined after its run gave up; a server started, or a run stopped, while `.env` is empty |

Three further runs are expected to end in a violation (section 4):
`challenge_race`, `attestation_poll_fails`, `score_gate`.

The properties, in words:

* *Token*: `SupplyIsTotal`, `SpendingIsAuthorised` (who moves another account's tokens had
  its allowance for all of it, and has that much less afterwards).
* *Registry*, checked with the relay around it: `StoredScoresWereSigned`,
  `AcceptedOnlyAttested`. `LapsedStaysLapsed` is proved and in no run.
* *Pool*: `ImplementsLendingBook` (the refinement), `CollateralBacked` (coins held = sum
  of collateral), `OnlyTheWorldBreaksHealth` (no operation, of anyone, makes a
  healthy loan unhealthy), `CollateralLeavesFairly`, `TrustedRatioIsAttested`,
  `BorrowLimitIsHonoured` (whatever `maxBorrowable` offers passes `borrow`'s check,
  both roundings included), `LiquidationIsOpen` and `WayOutIsOpen`
  (stated with ENABLED: the transaction would not revert). `LoanBookConserved` (FXRP held
  + FXRP owed never shrinks and is untouched by loans, repayments and liquidations)
  is proved and in no run.
* *Challenges*: `AcceptancesWithinChallenges`, `BindingsAreEarned` (given for a signature,
  with the right key, of the message of a challenge that was issued);
  `NonceAcceptedOnceApart` and `RightAnswerWins` for every address of which no two
  verifications overlapped (the history variable `overlapped`).
* *Limiter and form*: `QueueIsBounded` and `RequestsEnd` on threads and loop;
  `LoopWithinLimit` on the loop; `ImplementsSlidingWindow` (the refinement: on the loop who
  is let through, and who is refused, is decided as the whole history would); `OkWasHeard`
  and `MailsWereAllowed` of the form.
* *Attestation*: `NoDuplicateProofs`, `ProofsWereRequested`, `ProofsAreKept` (also
  across reloads, restores and saves that fail); `HandlersEnd`, `PendingSettlesOrFailed`.
* *Score*: `ScoreIsOfPayments`, `Lockstep`, `FallsOnlyUnanswered` (a lower score than the
  last is signed only when the calls about every proof of some payment failed).
* *Identity*: `WayForward`; `UnverifiedCameFromOutside` (the page by itself never leads the
  enclave to score for a binding that was not verified); `LinkedShownIsLinked` (of a page that
  was not loaded under an open transaction, and whose account sends from nowhere else: the
  history variable `overtaken`) and `OneSignatureLasts`, of a user who signs once.
* *Relay*: `PendingIsNext` (the node never holds a transaction whose nonce the chain has
  not reached, so none waits behind another), `NewestScoreStays` (a submission given
  up for lost never puts an earlier score in the place of a later one) and
  `RefusedOnlyWhenRegistered`, each with the circumstances it depends on named in the
  history variable `disturbed`: overlapping clicks, others who send the applicant's
  envelopes, a proof that comes in under a click, a click whose submission failed, a proof
  that the enclave left out. `RefusedOnlyWhenRegistered` also needs the relayer key, and
  receipts that tell of success.
* *Deployment*: `PointedAtIsWhole` (whole, not current: a server keeps the stack it started
  with), `ScriptEnds`, and `PendingIsNext` again, for a script
  that counts on from a nonce it read once.

Each module also states its type invariant. It is a conjunct of the inductive
invariants of section 6; in the modules without proofs it documents the state.

Runs with `CHECK_DEADLOCK FALSE` are those whose system may really stop: the
bounded clocks, clicks, calls and challenges are used up and nobody asks for more. The
runs of the token, of the pool and of the deployment check deadlock: some step is
always possible.

## 4. Where the code and its documents disagree

| Run | Says | Does |
|---|---|---|
| `challenge_race` | SECURITY.md: single-use nonce | two verifications look a challenge up together; a new challenge stored between their two deletions lets both succeed |
| `attestation_poll_fails` | page: already in progress, its proof arrives in 2–3 min | one failed poll ends the poller and leaves the item pending: nothing asks for the proof any more and the button refuses the transaction until a reload |
| `score_gate` | comment of the button: allowed again when a new attestation is added | what counts as scored is taken from the proofs of the moment after compute and submit: a proof that arrived meanwhile counts as scored, and the button refuses it as already registered, with nothing failed and a relayer key |

Each has a counterpart that holds, so that the pair shows what the failure depends
on: `NonceAcceptedOnceApart` (overlapping verifications of one address),
`PendingSettlesOrFailed` (a failed poll), `RefusedOnlyWhenRegistered` (a proof that
came in under a click).

Observed on the same models, with other properties or constants, and kept here rather
than as runs:

* `LapseLeavesPositionAlone` of `FxrpLendingPool` (the FAQ: after a score expires,
  collateral and debt are unaffected) fails: a loan drawn at 120% becomes
  liquidatable the moment the score lapses, prices unchanged. `OnlyTheWorldBreaksHealth`
  is what holds.
* `NoNeedToRepeat` of `Identity` (the page: no need to repeat the link; the docs: signing
  again is safe) fails: signing again discards the only preimage of the hash on the
  chain; the page says linked and every score request is refused. `OneSignatureLasts` is
  what holds, and it says nothing of a user who signed twice.
* A score may fall although nothing was lost: when the `eth_call` about a genuine proof
  fails, `handleScore` leaves the proof out and signs what is left (main.go:216). The
  registry takes the lower score if it is submitted, and the button then refuses to
  compute it again, for the page notes all its proofs as scored (app.js:623). So
  `FallsOnlyUnanswered` has its condition, and the relay's properties have `"rejected"`.
* `accepted \subseteq verified` fails in `Identity`. Row 3 of SECURITY.md says that the owner
  of a wallet must sign a single-use challenge before linking; the page and the backend keep
  to it, but `link` takes any hash from the account, and `checkBinding` compares a preimage
  with it and nothing else. `UnverifiedCameFromOutside` is what holds: it is about what
  the page does, and the rule of row 3 is one of the page and the backend.
* Without a relayer key the page notes its proofs as scored as soon as the wallet has sent
  the transaction, and reads an older valid score back: the next click is refused before
  the new score is in a block. `RefusedOnlyWhenRegistered` is of pages with a relayer. It
  fails without that condition on three clicks: one with a first proof, one with a second,
  sent before the first transaction is mined and read after it, and one that is refused.
  The two calls of the run do not reach it.
* `submit_score` waits for the receipt and does not look at its status: a reverted
  submission is reported to the page as a registered score. The page then refuses
  another click as long as an older score is valid; without one the gate lets it through.
* `RefusedOnlyWhenRegistered` without its condition on failures fails with three clicks
  and no proof arriving: the score lapses, a click renews it, the page replaces its
  envelope and the submission fails (or the node's answer is lost); the third click
  is refused as already registered on the new envelope's expiry, though the registry's
  score has lapsed, until the page is loaded again.
* `LoopWithinLimit` without its condition fails on threads: two threads pass the length
  test together and both append, one call more than SECURITY.md's "5 per minute"; an
  `IndexError` is possible in the purge loop as well. `QueueIsBounded` says how far it goes.
* `ProofsAreKept` fails with two tabs: each save writes one tab's list over the other's.
* A proof kept in the raw form is never replaced: a backup and a restore keep the
  first entry of a transaction, and a click on it is refused since it is there already.
* Two payments of 65 XRP to one address give 720 the same day: wallet age is 100
  points of 1000, so a new wallet can reach 900.
* Without `~overtaken`, `LinkedShownIsLinked` fails: a page loaded between an unlink and
  its block reads the old link and shows it until the next load.

## 5. Fairness

* `SupportForm!FormSpec`: weak fairness of each worker's next step, of the limiter or of
  the mails. A thread of the pool is preempted, never stopped; no lock is involved; the
  mail service answers or the request times out after 20 seconds. No fairness of new
  calls or of the clock.
* `Deployment!DeploySpec`: weak fairness of each run's next step. The node answers or
  the call fails, and the wait for a receipt gives up after 120 seconds; that a
  transaction is ever mined is not assumed.
* `Attestation!FairSpec`: weak fairness of each handler's next answer or timer.
  Every backend call has a timeout (`requests` and the receipt wait), so it answers or
  fails; `setTimeout` fires. *Which* answer is left open: the DA layer may never have the
  proof, no round need ever end. `PendingSettlesOrFailed` therefore rests on the
  poller's own bound of attempts alone, and its violation without `OrFailed` is
  not for want of fairness.

Everything else that is checked is safety, on specifications without fairness.

## 6. Proofs

Eight modules hold theorems; TLAPS checks them for every value of the constants
that satisfies the named assumptions (`MathAssumption`, `PoolAssumption`,
`TokenAssumption`, `LimiterAssumption` …, evaluated by TLC in the runs). The runs check
the same definitions on small instances; each inductive invariant below was checked by
TLC before it was proved.

* **`MockFXRP_proofs`** — first the lemmas about `Total` (an update changes the total by the
  difference, a `Move` leaves it alone, an entry is at most the total). The recursion is
  unfolded by a least counterexample: the running totals exist, are unique, and agree with
  `Total` up to any index. Then `TypeCorrect`, `SupplyConserved`, `SpendingAuthorised`,
  which follows from the effect of each call on the balance and the allowance of its caller.
  Type correctness is not inductive alone: the code's unchecked additions fit only because
  no balance exceeds the supply, which is `SupplyIsTotal`; the invariant is their
  conjunction.
* **`FxrpLendingPool_proofs`** — first the arithmetic: laws of flooring division, then
  `MaxBorrowableIsCovered` (rounding down in `_weiToFxrp` and in the capacity is always
  enough for the rounding of the health check) and `SeizureIsBounded`. Then `TypeCorrect`,
  `CollateralIsBacked`, `LoanBookIsConserved`, `TrustedRatioAttested`,
  `BorrowLimitHonoured`, `CollateralIsFair`, `OnlyTheWorld`, and `PoolImplementsBook`, the
  refinement: every step of the pool and of all that moves around it is a step of the book
  or leaves it alone. The inductive invariant is the conjunction of `TypeOK`, the token's
  `SupplyIsTotal`, `CollateralBacked` and the registry's `StoredScoresWereSigned`. Each is
  needed: without `CollateralBacked` the pool's coins could go below zero, without
  `SupplyIsTotal` a token transfer could leave its type, and `TrustedRatioIsAttested` is
  about what the registry stores. The steps are first reduced to their effect on positions,
  coins and tokens (one lemma per kind of transaction); the invariant and the three action
  properties are then proved from those effects, not from the code five times over. The
  instances' theorems are reproved for the composition through their step lemmas. Last,
  `LiquidationNotRefused` and `WayOutNotRefused`: what a liquidator or a depositor may
  always do does not revert, for which `CollateralBacked` is needed once more.
* **`ChallengeStore_proofs`** — `AcceptancesAreWithinChallenges`, `EveryBindingIsEarned`,
  `NonceSingleUseApart` and `RightAnswerIsAccepted`, for any number of threads. The
  strengthening says that a standing or looked-up challenge was issued, with a
  nonce no larger than their number, to the address it is filed under, and that a
  checked request is valid for its copy; the counting argument then needs only
  that a new nonce makes the set of issued challenges one larger. The last two
  rest on `Apart`: of an address without overlaps at most one verification is under
  way, its challenge (or a replacement) is there, and neither nonce is spent.
* **`RelayerKey_proofs`** — the two systems that send with the relayer key, `ScoreRelay` and
  `Deployment`: in both nobody holds a nonce that the chain has not reached, so the node
  holds one transaction of the key at most. First the registry's own theorems
  (`TypeCorrect`, `ScoresWereSigned`, `AcceptsOnlyAttested`, `LapsedStay`), then
  `RelayImplementsRegistry`: with page, server, wallet, enclaves and visitors around it, the
  registry does only steps of `CreditRegistry!Spec`; so `RelayedScoresWereSigned` and
  `RelayedOnlyAttested` follow from the theorems about it. `RelayPendingIsNext` is about the
  relayer key. What the score is does not matter to any of them: the enclave's score is a
  constant operator `ScoreFor(proofs, time)`, of which `ScoreAssumption` asks only that it
  grows with both. Its argument is the number of proofs that counted, which may be fewer
  than were sent (the theorem `FallsOnlyByFailure` of `ScoreModel_proofs` shows that the
  scoring code grows with them). The inductive invariant `RInv` adds that a handler holds no
  nonce beyond the chain's and no envelope that was not signed, and that the node holds one
  transaction of the key at most. `NewestScoreIsKept` rests on `OrderInv`: while clicks do
  not overlap and nobody else sends the applicant's envelopes, a click that has its envelope
  has the latest of all (and, while the enclave leaves no proof out, the highest), and
  nothing in transit, at the node or in the wallet's queue, is earlier than what the
  registry holds, because the node keeps one transaction, always the last one sent.
  `RefusalNeedsRegistration` adds `SettledInv`: with a relayer key, in an undisturbed
  history whose receipts all tell of success, the registry holds the page's envelope
  whenever no click is between delivering it and its receipt, and that envelope is of the
  proofs noted in `scoredFp`. Then the deployment: `WholeStacks` and `DeployPendingIsNext`,
  for any number of runs and requests. The inductive invariant has three parts: the key's
  (`KeyInv`, as above), the types (`Typed`), and the runs' (`RunInv`: what a run has left
  behind it was mined and succeeded, a transaction that is not sent yet is known to nobody).
  `RunsRunOut` is the safety core of `ScriptEnds` (see below).
* **`Identity_proofs`** — `TypeCorrect`, `PageHasWayForward`, `UnverifiedWereBrought`,
  `LinkedIsLinked`, `SignedOnceIsEnough`, for any number of challenges, open wallet windows
  and reloads. The inductive invariant joins to the types and to `WayForward` that what the
  page, the wallet's windows, the queue and the registry hold was *earned* (each is a
  binding `/identity/verify` gave out or one that was brought from outside, and an open
  challenge was never answered), and that a page which nothing has overtaken is *current*:
  it owns every open window and what it shows as linked is what the registry will hold once
  all that was sent is mined. `LinkedShownIsLinked` alone says nothing of a page with
  transactions on their way.
* **`SupportForm_proofs`** — of the limiter alone: `TypeCorrect`, `QueueBounded`,
  `LoopKeepsLimit`, `LimiterImplementsWindow`, for any finite number of threads, any limit
  and window. `QueueIsBounded` is inductive as it stands; for the limit on the event loop the
  invariant says that the deque is the latest part of the history of hits,
  both in order of time, that what was popped had left the window, that every window holds
  at most the limit, and what the one call under way has read so far. The refinement
  `LimiterImplementsWindow` rests on the same invariant: the entries left in the deque when
  a call counts are those of its window, and what is missing had left it. Then
  `FormImplementsLimiter`: the form, its mails and its visitors do only steps of the
  limiter, so the limiter's theorems hold inside it (`FormKeepsWindow`); and `OkHeard` and
  `MailsAllowed`,
  whose invariant follows each request through its worker and counts the mails against
  the requests let through. It needs `Workers` to be finite, for the counts alone. Last,
  `WorkRunsOut`, the safety core of `RequestsEnd`.
* **`Attestation_proofs`** — `TypeCorrect` (with the bound on every poller's attempts),
  `ProofsAreDistinct`, `ProofsWereServed`, for any number of tabs: the handlers that still
  wait for an answer are part of the invariant, since what they will save was taken from the
  page before the await. The list that a reload or an import builds (`Merged`) is a
  recursive function: its lemma is proved by a least counterexample, as for `Total`.
  `OneTabKeepsProofs` proves `ProofsAreKept` under the hypothesis `Tabs = {t}`, the instance
  its run checks: with two tabs it is false, as section 4 and the hazards say (every save
  writes the whole list of one tab). `PendingHavePollers` and `HandlersRunOut` are the
  safety cores of `PendingSettlesOrFailed` and `HandlersEnd`.
* **`ScoreModel_proofs`** — `TypeCorrect`, `ScoreOfPayments`, `InLockstep`,
  `FallsOnlyByFailure`, for lists of any number of proofs and any amounts. The loops of
  `handleScore`, `scoreModel` and the mock are folds. They are first shown to be what a
  reader of the code sees: there is a sequence of values, one for each turn, that starts
  with the loop's initial value and goes on by the loop's body (`AdmitLoop`,
  `AddVolumeLoop`, `OldestLoop` …), and a sum over a finite set does not depend on the order
  of its elements (`SumIsSum`, `IsSumRemove`, by induction on the cardinality). From these
  follow the two facts that matter: `CountedFacts`, the list that is counted holds each
  deserved payment once and nothing else, and `VolumesAreSums`, adding up one payment after
  the other with a cap in each turn gives the cap of the sum, which is why the order of the
  proofs does not count. `Lockstep` needs in addition that no volume ever exceeds the cap:
  the mock adds 0, and caps, where the enclave skips. The inductive invariant `SInv` says
  that the last score is at most what the proofs deserve now, if every call is answered;
  points only grow with the set and the days (`PointsMonotone`), so a lower score means that
  some payment was not counted, and with it none of its proofs answered for (`HeardFacts`):
  `FallsOnlyByFailure`. It needs `Addresses` to be finite, for the sums over receivers.

What TLAPS cannot reach and stays with TLC: liveness under fairness (`RequestsEnd`,
`ScriptEnds`, `HandlersEnd`, `PendingSettlesOrFailed`), and ENABLED in the two invariants
`LiquidationIsOpen` and `WayOutIsOpen`. What can be said of them without either is proved.

* Of the invariants: each transaction is split into a guard on the state before and an
  update that gives every variable its new value (`LiquidateSplit`, `WithdrawSplit`,
  `RepaySplit`), and `LiquidationNotRefused` and `WayOutNotRefused` prove the guards.
* Of liveness: a natural number that every step of the actor lessens and nobody else
  raises, so that it can take finitely many steps only; fairness is then needed for
  nothing but that it takes them. `HandlersRunOut` (a handler's awaits and polls),
  `RunsRunOut` (a run's calls: 14 after its start) and `WorkRunsOut` are of this form. The
  last is the one that is not obvious: threads feed each other's purge loops, and a
  single worker may take any number of turns. No number of its own falls; that of the
  whole key does (`LimiterWork`): a popped entry sends its worker back to the test, which
  costs less than the entry itself was worth, and an appended one is worth less than
  what its worker had left to do. Only the start of a call raises it.
  `PendingHavePollers` says that a pending item always has a poller of its own tab that
  goes on, or one that failed.

Every other property of the passing runs is stated by a theorem under its own name.
`RequestsAdvance`, `HandlersAdvance`, `RunsAdvance` and `PendingHasPoller`, which only the
proof modules define, were checked with TLC on the runs' instances first.

The two proofs about the clicks' order matter beyond the
run's bound of two calls: a renewal that goes wrong takes three. The run of the relay
was also made with three calls (one code hash, one change, the applicant as the only
subject: 7.2 million states), too slow to be kept.

## 7. Assumptions and abstractions

* keccak and ECDSA are perfect: a digest is what it commits to, a signature is
  made only with its key. XRPL signatures likewise.
* uint256 is `0..MaxUint` in the token and in the pool's products; coins are not
  bounded, as the chain's supply bounds them.
* A receiver of coins may call back. `withdraw` and `liquidate` send coins in their last
  statement that touches state: the position is written, and in `liquidate` the
  FXRP is collected, before. What a callback runs are whole transactions
  on a state that the model reaches after the step of the caller, and they are steps
  of the model; only the caller's revert on a failed send would undo them, together
  with the step itself.
* What follows a call to the token needs no such argument: `MockFXRP` calls nobody.
* Of the page, one account at a time. In `Identity`, one tab, and a transaction that
  was sent is mined; other clients of the account send and ask too, with bindings that were
  verified or are in `Foreign`. Other accounts have entries of their own in the registry.
* In `ScoreRelay`, one tab that is not reloaded and keeps its connection; its proofs only
  grow, so their number stands for the set in `scoredFp`. The score of an envelope is any
  function of the number of proofs that counted and of the time at which it was signed that
  falls with neither (`ScoreFor`, `ScoreAssumption`); the runs take one that more proofs and
  age both raise (`CountAndAge` in `MCScoreRelay`). A page is therefore settled when it
  holds the score of its proofs *as they counted when it was signed* (`HeldIsCurrent`): that
  a wallet has aged since gives no other score until the next click. A click through the
  chain is told the hash of its instruction and gets no envelope.
* Block time starts at 1 (`MaxTime > 0`), as 0 is the expiry of an account without a record.
* In `Deployment` the write of `.env` empties it and then fills it at once: a run that stops
  between two pages of so small a file is left out. A stack is named by the run that deploys
  it, since an address follows from its transaction; a run that ended is repeated as another
  run.
* In `ScoreModel` genuine proofs agree with each other on a transaction (the chain had one),
  a call about a proof is answered rightly or not at all, block timestamps are positive and
  not in the future, and `cleanRepayment` is the constant 100 that the code has. The cap of
  200 on transaction points takes more proofs than the run lists; the proofs have it.
* The clocks of the models have the grain of the comparison they feed: one unit
  is a TTL, a window or a day.

## 8. What is not modelled

* The lending page's buttons and display: it shows a position from three separate reads
  and keeps nothing of its own.
* `chains.py` beyond `voting_round_for_timestamp`: ABI tables and cached constructors.
* `main.py`: page routing and constructors, without state.
* Static pages, themes and documents.
* Two tabs and reloads of the page while a score is on its way (`ScoreRelay` has one tab).
* Growth of the challenge dictionary with the number of addresses: the model has
  a fixed set of them.

## 9. Plan

Done: the lending core with its token, registry and arithmetic, its abstract book, the
refinement and the proofs; challenges with restarts, and their proofs; limiter and support
form, with the sliding window they implement; attestation with raw answers and failed saves;
scoring; identity; the relayer key; the path of a score, composed with the registry; the
deployment; the proofs of all of them, and the safety cores of what needs fairness.

What would come next:

1. An abstract single-use store that `ChallengeStore` implements for an address without
   overlapping verifications; `NonceAcceptedOnceApart` and `RightAnswerWins` say what it would.
2. `PoolReentrancy` — the receivers of coins that call back, as steps of their own, refining
   the atomic pool; it would replace the argument of section 7.
3. `LendingPage` — positions shown from separate reads while transactions land.

## 10. Running it

```
tlc -workers 2 -config MCFxrpLendingPool.cfg MCFxrpLendingPool.tla   # a run: module and cfg as PROJECT.json lists them
tlapm FxrpLendingPool_proofs.tla                                     # the proofs of a module
```

With two workers the runs of the pool, the relay and the score model take about three
minutes each, those of the token, the challenges and the identity one to two, and every
other run less than one.
