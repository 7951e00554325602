----------------------------- MODULE Deployment -----------------------------
(***************************************************************************)
(* tools/deploy.py and what its result is used for: the script sends six   *)
(* transactions, each after the receipt of the one before, with a nonce    *)
(* it reads once and counts on itself, and writes the addresses into .env  *)
(* at the end. The server reads .env when it starts and keeps what it read *)
(* (load_dotenv in fc_support.py, get_settings), the page takes its        *)
(* contracts from the server (public_config).                              *)
(*                                                                         *)
(* A run can crash or be interrupted anywhere and be repeated, or two can  *)
(* run at once. The backend may hold the same key, written into .env by an *)
(* earlier run, and send transactions meanwhile. A stack is named by its   *)
(* run: an address follows from the transaction that created it.           *)
(***************************************************************************)
EXTENDS RelayerKey

CONSTANTS
  Runs,      \* runs of the script
  Requests,  \* calls that make the backend send a transaction
  NoStack,   \* the zero addresses: no .env, an empty one, or a fresh one
  Unread     \* the server found nothing in .env when it started

\* identity, credit, fxrp and pool are deployed, the pool is funded, the TEE
\* signer registered.
Steps == 1..6

ASSUME StackAssumption ==
  /\ NoStack \notin Runs /\ Unread \notin Runs /\ NoStack # Unread
  /\ Requests \cap [run : Runs, step : Steps] = {}

VARIABLES
  runs,       \* each run: where it is, at which step, and its nonce
  requests,   \* each request: where it is, and its nonce
  env,        \* the stack .env names
  server,     \* the stack in the server's settings
  pageConfig  \* the stack the page works with

deployVars == <<runs, requests, env, server, pageConfig, keyVars>>

DeployInit ==
  /\ KeyInit
  /\ runs = [r \in Runs |-> [stage |-> "idle", step |-> 1, nonce |-> 0]]
  /\ requests = [q \in Requests |-> [stage |-> "idle", nonce |-> 0]]
  /\ env = NoStack /\ server \in {NoStack, Unread} /\ pageConfig = NoStack

RunAt(r, stage) == runs[r].stage = stage
Becomes(r, stage) == runs' = [runs EXCEPT ![r].stage = stage]

\* The transaction of a step of a run.
Tx(r, step) == [run |-> r, step |-> step]
-----------------------------------------------------------------------------
\* The script starts, and reads the nonce it will count on from.
Begin(r) ==
  /\ RunAt(r, "idle")
  /\ runs' = [runs EXCEPT ![r].stage = "ready", ![r].nonce = TransactionCount]
  /\ UNCHANGED <<requests, env, server, pageConfig, keyVars>>

\* Faulty variant: the next step is sent before the receipt is there.
SendStepEager(r) ==
  /\ RunAt(r, "ready")
  /\ Send(Tx(r, runs[r].step), runs[r].nonce)
  /\ runs' = [runs EXCEPT ![r].nonce = @ + 1, ![r].step = @ + 1,
                ![r].stage = IF runs[r].step = 6 THEN "writing" ELSE "ready"]
  /\ UNCHANGED <<requests, env, server, pageConfig>>

\* send: the transaction of the step, of which the node's answer may be lost.
SendStep(r) ==
  /\ RunAt(r, "ready")
  /\ Send(Tx(r, runs[r].step), runs[r].nonce)
  /\ \E stage \in {"waiting", "failed"} : Becomes(r, stage)
  /\ UNCHANGED <<requests, env, server, pageConfig>>

\* Faulty variant: the status of the receipt is not looked at.
ReceiptAnyhow(r) ==
  /\ RunAt(r, "waiting") /\ \E ok \in BOOLEAN : HasReceipt(Tx(r, runs[r].step), ok)
  /\ IF runs[r].step = 6 THEN Becomes(r, "writing")
     ELSE runs' = [runs EXCEPT ![r] =
                     [stage |-> "ready", step |-> @.step + 1, nonce |-> @.nonce + 1]]
  /\ UNCHANGED <<requests, env, server, pageConfig, keyVars>>

\* The receipt is there and says 1: on to the next step, or to .env.
Receipt(r) ==
  /\ RunAt(r, "waiting") /\ HasReceipt(Tx(r, runs[r].step), TRUE)
  /\ IF runs[r].step = 6 THEN Becomes(r, "writing")
     ELSE runs' = [runs EXCEPT ![r] =
                     [stage |-> "ready", step |-> @.step + 1, nonce |-> @.nonce + 1]]
  /\ UNCHANGED <<requests, env, server, pageConfig, keyVars>>

\* Faulty variant: a receipt is awaited for ever.
RunFailsAwake(r) ==
  /\ \E from \in {"ready", "writing", "truncated"} : RunAt(r, from)
  /\ Becomes(r, "failed")
  /\ UNCHANGED <<requests, env, server, pageConfig, keyVars>>

\* The run ends at any of its calls: the node refuses or does not answer, the
\* receipt says 0 or takes more than 120 seconds, there is no file to start
\* .env from, somebody stops it. What was sent stays with the node.
RunFails(r) ==
  /\ \E from \in {"ready", "waiting", "writing", "truncated"} : RunAt(r, from)
  /\ Becomes(r, "failed")
  /\ UNCHANGED <<requests, env, server, pageConfig, keyVars>>

\* write_text empties the file, and then writes all the addresses at once.
Truncate(r) ==
  /\ RunAt(r, "writing") /\ Becomes(r, "truncated")
  /\ env' = NoStack
  /\ UNCHANGED <<requests, server, pageConfig, keyVars>>

WriteEnv(r) ==
  /\ RunAt(r, "truncated") /\ Becomes(r, "done")
  /\ env' = r
  /\ UNCHANGED <<requests, server, pageConfig, keyVars>>
-----------------------------------------------------------------------------
\* get_settings: what .env held when the server started, or, if it held nothing
\* then, what it holds at the first call.
Settings == IF server = Unread THEN env ELSE server

\* load_dotenv puts what it finds into the environment, which wins over .env from
\* then on. A file of zero addresses is a find, none or an empty one is not.
Restart ==
  /\ server' \in IF env = NoStack THEN {NoStack, Unread} ELSE {env}
  /\ UNCHANGED <<runs, requests, env, pageConfig, keyVars>>

\* The page is loaded, and asks for /config.
LoadPage ==
  /\ server' = Settings /\ pageConfig' = Settings
  /\ UNCHANGED <<runs, requests, env, keyVars>>

\* A request makes the backend send a transaction with the key in its settings,
\* which is that of the script since .env was written. The server may be
\* restarted and the transaction be on its way all the same.
RequestNonce(q) ==
  /\ requests[q].stage = "idle" /\ Settings # NoStack
  /\ server' = Settings
  /\ requests' = [requests EXCEPT ![q] = [stage |-> "send", nonce |-> TransactionCount]]
  /\ UNCHANGED <<runs, env, pageConfig, keyVars>>

SendRequest(q) ==
  /\ requests[q].stage = "send"
  /\ Send(q, requests[q].nonce)
  /\ requests' = [requests EXCEPT ![q].stage = "sent"]
  /\ UNCHANGED <<runs, env, server, pageConfig>>

MineAny ==
  /\ \E id \in Requests \cup {Tx(r, k) : r \in Runs, k \in Steps}, ok \in BOOLEAN : Mine(id, ok)
  /\ UNCHANGED <<runs, requests, env, server, pageConfig>>

RunStep(r) == SendStep(r) \/ Receipt(r) \/ RunFails(r) \/ Truncate(r) \/ WriteEnv(r)

DeployNext ==
  \/ \E r \in Runs : Begin(r) \/ RunStep(r)
  \/ \E q \in Requests : RequestNonce(q) \/ SendRequest(q)
  \/ Restart \/ LoadPage \/ MineAny

DeploySafe == DeployInit /\ [][DeployNext]_deployVars

\* Every call the script waits for has a timeout.
DeploySpec == DeploySafe /\ \A r \in Runs : WF_deployVars(RunStep(r))
-----------------------------------------------------------------------------
\* Every step of the run was mined, and succeeded.
Whole(r) == \A k \in Steps : HasReceipt(Tx(r, k), TRUE)

\* Nobody ever works with part of a stack: what .env names, the server has in
\* its settings or the page writes to was deployed, funded and registered
\* completely, whichever runs crashed, overlapped or lost their transactions.
PointedAtIsWhole == \A r \in Runs : r \in {env, server, pageConfig} => Whole(r)

\* A run that was started comes to an end, also when its transaction is never
\* mined because another one took its nonce.
ScriptEnds == \A r \in Runs : RunAt(r, "ready") ~> (RunAt(r, "done") \/ RunAt(r, "failed"))
=============================================================================
