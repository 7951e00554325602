---------------------------- MODULE ChallengeStore ----------------------------
(***************************************************************************)
(* The identity challenges of the backend (app/services/xrpl_identity.py): *)
(* one dictionary entry per Flare address, written by /identity/challenge  *)
(* and consumed by /identity/verify.                                       *)
(*                                                                         *)
(* Both endpoints are plain functions, so the server runs every request on *)
(* a thread of its pool: any number of verifications interleave, and each  *)
(* dictionary operation is one atomic step of its thread.                  *)
(***************************************************************************)
EXTENDS Integers, FiniteSets

CONSTANTS
  Workers,    \* threads of the pool, one verification each
  Flares,     \* Flare addresses, in lower case: the keys of the dictionary
  Xrpls,      \* XRPL addresses
  TTL,        \* CHALLENGE_TTL_S
  MaxTime,    \* bound on the state space: the clock stops here
  MaxNonce,   \* bound on the state space: challenges issued
  None        \* no challenge, no verification

ASSUME StoreAssumption ==
  /\ TTL \in Nat /\ MaxTime \in Nat /\ MaxNonce \in Nat

\* A dataclass instance; token_hex(16) never repeats, so nonces are numbered.
Challenges == [flare : Flares, xrpl : Xrpls, nonce : Nat, issuedAt : Nat]

\* challenge_message: what a wallet signs names both addresses and the nonce.
Texts == [flare : Flares, xrpl : Xrpls, nonce : Nat]
ChallengeMessage(f, x, n) == [flare |-> f, xrpl |-> x, nonce |-> n]

\* A /verify request: the addresses claimed, the address the public key
\* derives, and the text that was signed with that key.
Requests == [flare : Flares, xrpl : Xrpls, key : Xrpls, text : Texts]

\* A thread inside verify_signature: the request, what the dictionary had for
\* it, and whether all the checks are behind it.
Verifications == [request : Requests, ch : Challenges, checked : BOOLEAN]

ASSUME NoneAssumption == None \notin Challenges /\ None \notin Verifications

VARIABLES
  challenges,     \* _challenges
  verifications,  \* what each thread is doing
  issued,         \* every challenge ever made
  bindings,       \* the binding hashes handed out, with the key and text of the
                  \* signature they were given for
  accepted,       \* successful verifications of each Flare address
  overlapped,     \* addresses of which two verifications ran at a time
  now             \* time.time()

vars == <<challenges, verifications, issued, bindings, accepted, overlapped, now>>

Init ==
  /\ challenges = [f \in Flares |-> None]
  /\ verifications = [w \in Workers |-> None]
  /\ issued = {}
  /\ bindings = {}
  /\ accepted = [f \in Flares |-> 0]
  /\ overlapped = {}
  /\ now = 0
-----------------------------------------------------------------------------
\* make_challenge: replaces the challenge the address had, if any.
MakeChallenge(f, x) ==
  LET c == [flare |-> f, xrpl |-> x, nonce |-> Cardinality(issued) + 1,
            issuedAt |-> now]
  IN
  /\ c.nonce <= MaxNonce
  /\ challenges' = [challenges EXCEPT ![f] = c]
  /\ issued' = issued \cup {c}
  /\ UNCHANGED <<verifications, bindings, accepted, overlapped, now>>

Verifies(w, f) == verifications[w] # None /\ verifications[w].request.flare = f

\* verify_signature, first step: the dictionary lookup. An address without a
\* challenge is refused at once, and nothing changes.
LookUp(w, r) ==
  /\ verifications[w] = None
  /\ challenges[r.flare] # None
  /\ verifications' = [verifications EXCEPT
       ![w] = [request |-> r, ch |-> challenges[r.flare], checked |-> FALSE]]
  /\ overlapped' = overlapped \cup
       {f \in {r.flare} : \E u \in Workers : Verifies(u, f)}
  /\ UNCHANGED <<challenges, issued, bindings, accepted, now>>

Expired(v) == now - v.ch.issuedAt > TTL

\* Faulty variant: the signature is not held against the text.
ValidForAnyText(v) ==
  /\ v.ch.xrpl = v.request.xrpl
  /\ v.request.key = v.request.xrpl

\* The challenge was for this XRPL address, the public key derives it, and the
\* text signed is the message rebuilt from the request and the stored nonce.
Valid(v) ==
  /\ v.ch.xrpl = v.request.xrpl
  /\ v.request.key = v.request.xrpl
  /\ v.request.text = ChallengeMessage(v.request.flare, v.request.xrpl, v.ch.nonce)

\* The checks, on the thread's own copy: the only step that reads the clock.
\* An expired challenge is deleted; if another thread already has, the
\* KeyError ends the request too.
Expire(w) ==
  LET v == verifications[w] IN
  /\ v # None /\ ~v.checked
  /\ Expired(v)
  /\ challenges' = [challenges EXCEPT ![v.request.flare] = None]
  /\ verifications' = [verifications EXCEPT ![w] = None]
  /\ UNCHANGED <<issued, bindings, accepted, overlapped, now>>

Refuse(w) ==
  LET v == verifications[w] IN
  /\ v # None /\ ~v.checked
  /\ ~Expired(v) /\ ~Valid(v)
  /\ verifications' = [verifications EXCEPT ![w] = None]
  /\ UNCHANGED <<challenges, issued, bindings, accepted, overlapped, now>>

\* Faulty variant: the challenge is deleted as soon as the checks pass, and
\* then once more.
CheckDeletes(w) ==
  LET v == verifications[w] IN
  /\ v # None /\ ~v.checked
  /\ ~Expired(v) /\ Valid(v)
  /\ verifications' = [verifications EXCEPT ![w].checked = TRUE]
  /\ challenges' = [challenges EXCEPT ![v.request.flare] = None]
  /\ UNCHANGED <<issued, bindings, accepted, overlapped, now>>

Check(w) ==
  LET v == verifications[w] IN
  /\ v # None /\ ~v.checked
  /\ ~Expired(v) /\ Valid(v)
  /\ verifications' = [verifications EXCEPT ![w].checked = TRUE]
  /\ UNCHANGED <<challenges, issued, bindings, accepted, overlapped, now>>

Binding(v) == [flare |-> v.request.flare, xrpl |-> v.request.xrpl,
               nonce |-> v.ch.nonce,
               key |-> v.request.key, text |-> v.request.text]

\* Faulty variant: pop(key, None) in the place of del, which cannot fail.
ConsumePops(w) ==
  LET v == verifications[w] IN
  /\ v # None /\ v.checked
  /\ challenges' = [challenges EXCEPT ![v.request.flare] = None]
  /\ bindings' = bindings \cup {Binding(v)}
  /\ accepted' = [accepted EXCEPT ![v.request.flare] = @ + 1]
  /\ verifications' = [verifications EXCEPT ![w] = None]
  /\ UNCHANGED <<issued, overlapped, now>>

\* Faulty variant: the challenge stays in the dictionary.
ConsumeKeeps(w) ==
  LET v == verifications[w] IN
  /\ v # None /\ v.checked
  /\ bindings' = bindings \cup {Binding(v)}
  /\ accepted' = [accepted EXCEPT ![v.request.flare] = @ + 1]
  /\ verifications' = [verifications EXCEPT ![w] = None]
  /\ UNCHANGED <<challenges, issued, overlapped, now>>

\* del _challenges[...] and the answer. The entry deleted is the one there is
\* now, not the one looked up; when there is none the KeyError is a 500.
Consume(w) ==
  LET v == verifications[w] IN
  /\ v # None /\ v.checked
  /\ verifications' = [verifications EXCEPT ![w] = None]
  /\ IF challenges[v.request.flare] = None
     THEN UNCHANGED <<challenges, bindings, accepted>>
     ELSE /\ challenges' = [challenges EXCEPT ![v.request.flare] = None]
          /\ bindings' = bindings \cup {Binding(v)}
          /\ accepted' = [accepted EXCEPT ![v.request.flare] = @ + 1]
  /\ UNCHANGED <<issued, overlapped, now>>

\* The server restarts: the dictionary was in memory and its threads were its
\* own. Binding hashes handed out stay with the pages.
Restart ==
  /\ challenges' = [f \in Flares |-> None]
  /\ verifications' = [w \in Workers |-> None]
  /\ UNCHANGED <<issued, bindings, accepted, overlapped, now>>

Tick ==
  /\ now < MaxTime
  /\ now' = now + 1
  /\ UNCHANGED <<challenges, verifications, issued, bindings, accepted, overlapped>>

\* Wallets sign the texts of challenges that were issued, those of other
\* requests and of other addresses included.
Start(w) ==
  \E f \in Flares, x, k \in Xrpls, c \in issued :
    LookUp(w, [flare |-> f, xrpl |-> x, key |-> k,
               text |-> ChallengeMessage(c.flare, c.xrpl, c.nonce)])

Next ==
  \/ \E f \in Flares, x \in Xrpls : MakeChallenge(f, x)
  \/ \E w \in Workers : Start(w) \/ Expire(w) \/ Refuse(w) \/ Check(w) \/ Consume(w)
  \/ Restart \/ Tick

Spec == Init /\ [][Next]_vars
-----------------------------------------------------------------------------
Bindings == [flare : Flares, xrpl : Xrpls, nonce : Nat, key : Xrpls, text : Texts]

TypeOK ==
  /\ challenges \in [Flares -> Challenges \cup {None}]
  /\ verifications \in [Workers -> Verifications \cup {None}]
  /\ issued \subseteq Challenges
  /\ bindings \subseteq Bindings
  /\ accepted \in [Flares -> Nat]
  /\ overlapped \subseteq Flares
  /\ now \in Nat

IssuedTo(f) == {c \in issued : c.flare = f}
Standing(f) == IF challenges[f] = None THEN 0 ELSE 1

\* However many threads race, an address is verified at most once for every
\* challenge it was given, the one still standing not counted: the del that
\* fails is what stops the second of two threads with the same challenge.
AcceptancesWithinChallenges ==
  \A f \in Flares : accepted[f] + Standing(f) <= Cardinality(IssuedTo(f))

\* A binding hash of a Flare and an XRPL address is handed out only for a
\* signature, by the XRPL address's key, of a text that names both addresses and
\* the nonce hashed, and only if a challenge with that nonce was issued for
\* these two addresses: whatever was issued, replaced, expired or consumed
\* between the lookup and the answer.
BindingsAreEarned ==
  \A b \in bindings :
    /\ b.key = b.xrpl
    /\ b.text = ChallengeMessage(b.flare, b.xrpl, b.nonce)
    /\ \E c \in issued : ChallengeMessage(c.flare, c.xrpl, c.nonce) = b.text

\* The verifications of an address are as many as the nonces they were for.
EachNonceOnce(f) == accepted[f] = Cardinality({b \in bindings : b.flare = f})

\* SECURITY.md's single-use nonce: no nonce is accepted twice.
NonceAcceptedOnce == \A f \in Flares : EachNonceOnce(f)

\* A nonce is accepted twice only if two verifications of its own address run
\* at a time: retries one after another, other addresses on other threads,
\* new challenges in the middle of a verification and expiries do not matter.
NonceAcceptedOnceApart == \A f \in Flares \ overlapped : EachNonceOnce(f)

\* A right answer, given in time and without another verification of the
\* address beside it, is accepted: its challenge, or one that replaced it, is
\* still there to be deleted.
RightAnswerWins ==
  \A w \in Workers :
    LET v == verifications[w] IN
    v # None => (v.checked /\ v.request.flare \notin overlapped
                  => challenges[v.request.flare] # None)
=============================================================================
