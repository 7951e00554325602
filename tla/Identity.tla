------------------------------- MODULE Identity -------------------------------
(***************************************************************************)
(* Linking an XRPL identity: the three steps of the Identity page          *)
(* (static/app/app.js), the wallet that confirms their transactions,       *)
(* IdentityLinkRegistry.sol, and the enclave's check of the binding        *)
(* (checkBinding in enclave-go/main.go). One Flare account, in one tab.    *)
(*                                                                         *)
(* A binding hash is abstract: it is the binding it was computed from.     *)
(* A transaction that was sent is mined, in the order of the account's     *)
(* nonces. Neither the page nor the wallet waits for that.                 *)
(*                                                                         *)
(* The registry takes any hash from the account, a backup file may hold    *)
(* any binding, and whoever knows a preimage may ask the enclave: all      *)
(* three happen here too. `outside` remembers the bindings that got in     *)
(* that way.                                                               *)
(***************************************************************************)
EXTENDS Integers, Sequences, SequencesExt

CONSTANTS
  Xrpls,       \* XRPL addresses of the user's GemWallet
  Foreign,     \* bindings that files and other clients bring
  None,        \* no binding, bytes32(0)
  MaxNonce,    \* bound on the state space: challenges asked for
  MaxPending,  \* bound on the state space: open transactions
  MaxReload    \* bound on the state space: page reloads

\* S.binding, { bindingHash, nonce, xrplAddress }: the hash determines the rest.
\* Nonce 0 stands for those that the backend never gave out.
Bindings == [xrpl : Xrpls, nonce : 0..MaxNonce]
Issued == {b \in Bindings : b.nonce # 0}

ASSUME IdentityAssumption ==
  /\ None \notin Bindings /\ Foreign \subseteq Bindings
  /\ MaxNonce \in Nat /\ MaxPending \in Nat /\ MaxReload \in Nat

VARIABLES
  binding,      \* S.binding, always equal to what localStorage holds
  linkedShown,  \* S.linkedOnChain, the "Linked on Coston2" label, the Unlink button
  linkEnabled,  \* the Link button can be clicked
  boot,         \* refreshIdentity: the read after a page load
  overtaken,    \* the page was loaded under an open transaction, or one was sent
                \* without it since
  signings,     \* btn-sign handlers awaiting a signature or /identity/verify
  answers,      \* those whose request was verified, to go on with the answer
  nonces,       \* challenges asked for so far
  challenge,    \* the nonce of the challenge the backend holds, 0 for none
  verified,     \* what /identity/verify has answered
  prompts,      \* wallet windows waiting for the user
  queue,        \* transactions sent and not mined
  bindingOf,    \* the registry's entry of the account
  accepted,     \* bindings the enclave has scored for
  outside,      \* bindings that came from a file or a client, never verified then
  reloads

bootVars == <<boot, overtaken>>
pageVars == <<binding, linkedShown, linkEnabled, bootVars>>
signVars == <<signings, answers, nonces, challenge, verified>>
chainVars == <<prompts, queue, bindingOf>>
vars == <<pageVars, signVars, chainVars, accepted, outside, reloads>>

\* A window asks for link(hash), or for unlink() with hash None. It outlives
\* the page that opened it, but the handler behind it does not.
Prompts == [hash : Bindings \cup {None}, live : BOOLEAN]

Init ==
  /\ binding = None /\ linkedShown = FALSE /\ linkEnabled = FALSE /\ boot = "done"
  /\ overtaken = FALSE
  /\ signings = {} /\ answers = {} /\ nonces = 0 /\ challenge = 0 /\ verified = {}
  /\ prompts = <<>> /\ queue = <<>> /\ bindingOf = None
  /\ accepted = {} /\ outside = {} /\ reloads = 0

\* The skeleton covers the page until the reads of a load have settled.
Usable == boot = "done"

Pending == Len(prompts) + Len(queue)
-----------------------------------------------------------------------------
\* btn-sign, up to the challenge, which replaces the one the backend held.
\* The button stays enabled until a signature is verified.
Sign(x) ==
  /\ Usable /\ binding = None
  /\ nonces < MaxNonce
  /\ nonces' = nonces + 1 /\ challenge' = nonces + 1
  /\ signings' = signings \cup {[xrpl |-> x, nonce |-> nonces + 1]}
  /\ UNCHANGED <<pageVars, answers, verified, chainVars, accepted, outside, reloads>>

\* /identity/verify succeeds: the challenge is used up.
Verify(s) ==
  /\ s \in signings /\ s.nonce = challenge
  /\ challenge' = 0
  /\ signings' = signings \ {s}
  /\ answers' = answers \cup {s}
  /\ verified' = verified \cup {s}
  /\ UNCHANGED <<pageVars, nonces, chainVars, accepted, outside, reloads>>

\* btn-sign keeps what it was answered, whatever the page holds by now.
Signed(s) ==
  /\ s \in answers
  /\ answers' = answers \ {s}
  /\ binding' = s
  /\ linkEnabled' = TRUE
  /\ UNCHANGED <<linkedShown, bootVars, signings, nonces, challenge, verified, chainVars,
                 accepted, outside, reloads>>

\* Faulty variant: the binding is kept before it is verified.
SignFailsKept(s) ==
  /\ s \in signings
  /\ signings' = signings \ {s}
  /\ binding' = s
  /\ linkEnabled' = TRUE
  /\ UNCHANGED <<linkedShown, bootVars, answers, nonces, challenge, verified, chainVars,
                 accepted, outside, reloads>>

\* The user refuses to sign, or the challenge is expired or was replaced.
SignFails(s) ==
  /\ s \in signings
  /\ signings' = signings \ {s}
  /\ UNCHANGED <<pageVars, answers, nonces, challenge, verified, chainVars, accepted,
                 outside, reloads>>

\* Faulty variant: the Link button stays as it is.
ResetSignOnly ==
  /\ Usable /\ binding # None
  /\ binding' = None
  /\ UNCHANGED <<linkEnabled, linkedShown, bootVars, signVars, chainVars, accepted,
                 outside, reloads>>

\* reset-sign
ResetSign ==
  /\ Usable /\ binding # None
  /\ binding' = None
  /\ linkEnabled' = FALSE
  /\ UNCHANGED <<linkedShown, bootVars, signVars, chainVars, accepted, outside, reloads>>

Ask(hash) ==
  /\ Pending < MaxPending
  /\ prompts' = Append(prompts, [hash |-> hash, live |-> TRUE])
  /\ UNCHANGED <<pageVars, signVars, queue, bindingOf, accepted, outside, reloads>>

\* btn-link: the hash is that of the binding at the click.
Link == Usable /\ linkEnabled /\ Ask(binding)

\* reset-link, once confirmed in the page.
Unlink == Usable /\ linkedShown /\ Ask(None)

\* btn-link, when the wallet has sent its transaction.
AfterLink ==
  /\ linkedShown' = TRUE
  /\ linkEnabled' = FALSE

\* Faulty variant: the page forgets that it showed a link.
AfterUnlinkStale ==
  /\ linkEnabled' = (binding # None)
  /\ UNCHANGED linkedShown

\* reset-link, when the wallet has sent its transaction.
AfterUnlink ==
  /\ linkedShown' = FALSE
  /\ linkEnabled' = (binding # None)

\* The user confirms a window: the transaction is sent, and the handler goes
\* on if its page is still there. No receipt is waited for.
Confirm(i) ==
  /\ queue' = Append(queue, prompts[i].hash)
  /\ prompts' = RemoveAt(prompts, i)
  /\ CASE ~prompts[i].live -> UNCHANGED <<linkedShown, linkEnabled>>
       [] prompts[i].live /\ prompts[i].hash # None -> AfterLink
       [] prompts[i].live /\ prompts[i].hash = None -> AfterUnlink
  /\ UNCHANGED <<binding, bootVars, signVars, bindingOf, accepted, outside, reloads>>

Refuse(i) ==
  /\ prompts' = RemoveAt(prompts, i)
  /\ UNCHANGED <<pageVars, signVars, queue, bindingOf, accepted, outside, reloads>>

\* Another client of the account's sends link(hash) or unlink() to the registry,
\* which asks for nothing.
SendElsewhere(hash) ==
  /\ Pending < MaxPending
  /\ queue' = Append(queue, hash)
  /\ overtaken' = TRUE
  /\ outside' = outside \cup ({hash} \ (verified \cup {None}))
  /\ UNCHANGED <<binding, linkedShown, linkEnabled, boot, signVars, prompts, bindingOf,
                 accepted, reloads>>

\* link / unlink of the registry: the last one mined stands.
Mine ==
  /\ queue # <<>>
  /\ bindingOf' = Head(queue)
  /\ queue' = Tail(queue)
  /\ UNCHANGED <<pageVars, signVars, prompts, accepted, outside, reloads>>

\* A page load (F5, another account and back, disconnect and connect): the
\* handlers are gone, the binding is read back, and refreshIdentity starts.
Reload ==
  /\ reloads < MaxReload
  /\ reloads' = reloads + 1
  /\ linkedShown' = FALSE
  /\ linkEnabled' = (binding # None)
  /\ boot' = "reading"
  /\ overtaken' = (Pending > 0)
  /\ signings' = {} /\ answers' = {}
  /\ prompts' = [i \in DOMAIN prompts |-> [prompts[i] EXCEPT !.live = FALSE]]
  /\ UNCHANGED <<binding, nonces, challenge, verified, queue, bindingOf, accepted, outside>>

\* GET /identity/{address}: the backend reads the registry.
ReadIdentity ==
  /\ boot = "reading"
  /\ boot' = IF bindingOf = None THEN "unlinked" ELSE "linked"
  /\ UNCHANGED <<binding, linkedShown, linkEnabled, overtaken, signVars, chainVars,
                 accepted, outside, reloads>>

\* The answer, or the failure of the read, which leaves the page as it is.
RefreshIdentity(answered) ==
  /\ boot # "done"
  /\ boot' = "done"
  /\ IF answered /\ boot = "linked" THEN AfterLink ELSE UNCHANGED <<linkedShown, linkEnabled>>
  /\ UNCHANGED <<binding, overtaken, signVars, chainVars, accepted, outside, reloads>>

\* Faulty variant: the nonce of the file is not restored.
RestoredNonceless(b) == [b EXCEPT !.nonce = 0]

Restored(b) == b

\* importBackup: the file's binding, unless the page has one. A file that the
\* page wrote (exportBackup) holds one that the page had; any other, any.
Import(b) ==
  /\ Usable /\ binding = None
  /\ binding' = Restored(b)
  /\ linkEnabled' = TRUE
  /\ outside' = outside \cup ({b} \ verified)
  /\ UNCHANGED <<linkedShown, bootVars, signVars, chainVars, accepted, reloads>>

\* checkBinding: the preimage against the registry, when the request gets there.
CheckBinding(b) == b = bindingOf

\* A request for a score, with the page's binding or any that a client knows, sent
\* at any time before: nothing of it is remembered but whether it was scored.
HandleScore(b) ==
  /\ CheckBinding(b)
  /\ accepted' = accepted \cup {b}
  /\ UNCHANGED <<pageVars, signVars, chainVars, outside, reloads>>

Next ==
  \/ \E x \in Xrpls : Sign(x)
  \/ \E s \in signings : Verify(s) \/ SignFails(s)
  \/ \E s \in answers : Signed(s)
  \/ ResetSign \/ Link \/ Unlink
  \/ \E i \in DOMAIN prompts : Confirm(i) \/ Refuse(i)
  \/ \E hash \in verified \cup Foreign \cup {None} : SendElsewhere(hash)
  \/ Mine
  \/ Reload \/ ReadIdentity \/ (\E answered \in BOOLEAN : RefreshIdentity(answered))
  \/ \E b \in verified \cup Foreign : Import(b)
  \/ \E b \in verified \cup Foreign \cup ({binding} \ {None}) : HandleScore(b)

Spec == Init /\ [][Next]_vars
-----------------------------------------------------------------------------
\* A nonce belongs to one binding: a challenge is never answered twice.
TypeOK ==
  /\ binding \in Bindings \cup {None} /\ linkedShown \in BOOLEAN
  /\ linkEnabled \in BOOLEAN /\ overtaken \in BOOLEAN
  /\ boot \in {"done", "reading", "linked", "unlinked"}
  /\ signings \subseteq Issued /\ answers \subseteq verified /\ nonces \in 0..MaxNonce
  /\ challenge \in 0..nonces /\ verified \subseteq Issued
  /\ \A a, b \in verified : a.nonce = b.nonce => a = b
  /\ prompts \in Seq(Prompts) /\ queue \in Seq(Bindings \cup {None})
  /\ bindingOf \in Bindings \cup {None} /\ accepted \subseteq Bindings
  /\ outside \subseteq Foreign
  /\ reloads \in 0..MaxReload

\* The Link button never works without a binding to send, and whoever has a
\* binding and no link can always link: whatever was clicked, confirmed,
\* refused or answered late, the page has a next step.
WayForward ==
  /\ linkEnabled => binding # None
  /\ binding # None /\ ~linkedShown => linkEnabled

Settled == Pending = 0 /\ Usable

\* Once the open transactions are mined, a page that says "Linked on Coston2"
\* is right, in whatever order windows were opened, confirmed and refused. A
\* page loaded under an open transaction is the exception, to the next load.
LinkedShownIsLinked == Settled /\ linkedShown /\ ~overtaken => bindingOf # None

\* Neither the registry nor the enclave asks whether /identity/verify ever gave
\* a binding out; only the page does. What the page does by itself, re-signing,
\* its own backups, late windows and reloads included, brings the enclave to
\* score for no other: an unverified binding that is scored was first brought by
\* a file that the page did not write, or by a transaction that it did not send.
UnverifiedCameFromOutside == accepted \subseteq verified \cup outside

\* app.js on linking: "this persists on-chain; no need to repeat it". A page
\* that shows a link and has a binding gets a score for it.
NoNeedToRepeat ==
  Settled /\ linkedShown /\ ~overtaken /\ binding # None => CheckBinding(binding)

\* True of a user who signs once and brings nothing else, whatever is reset,
\* unlinked, linked again, reloaded and restored: the binding at hand is the one
\* linked. Signing again makes it false: that replaces the preimage of the hash
\* on the chain, and no property promises the old one back.
OneSignatureLasts == nonces = 1 /\ outside = {} => NoNeedToRepeat
=============================================================================
