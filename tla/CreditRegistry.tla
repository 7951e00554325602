--------------------------- MODULE CreditRegistry ---------------------------
(***************************************************************************)
(* The on-chain score store (contracts/CreditRegistry.sol): an owner       *)
(* whitelists one signing key per enclave code hash, anyone relays scores  *)
(* signed by that key, and readers see a score until it expires.           *)
(*                                                                         *)
(* keccak and ECDSA are abstract: a signature is a record of the key that  *)
(* made it and the payload it was made over. The signatures that exist are *)
(* those in `signed`, made by the enclaves outside the chain.              *)
(***************************************************************************)
EXTENDS Integers, FiniteSets

CONSTANTS
  NumAccounts,  \* accounts are 0..NumAccounts
  Owner,        \* the account that deployed the registry
  CodeHashes,   \* enclave image hashes
  NoHash,       \* bytes32(0)
  Keys,         \* addresses of enclave signing keys
  NoKey,        \* address(0)
  Stranger,     \* the address ecrecover yields for a payload that was changed
  Subjects,     \* the accounts that have scores made
  ScoreValues,  \* the scores enclaves sign
  Validity,     \* 30 days: lifetime of a signed score
  MaxTime,      \* bound on the state space: the clock stops here
  MaxSigned     \* bound on the state space: signatures made

Accounts == 0..NumAccounts

ASSUME RegistryAssumption ==
  /\ NumAccounts \in Nat \ {0}
  /\ Owner \in Accounts
  /\ NoHash \notin CodeHashes
  /\ NoKey \notin Keys /\ Stranger \notin Keys \cup {NoKey}
  /\ Subjects \subseteq Accounts
  /\ ScoreValues \subseteq Nat
  /\ Validity \in Nat \ {0}
  /\ MaxTime \in Nat \ {0}

VARIABLES
  teeSignerOf,  \* mapping(codeHash => signer)
  scores,       \* mapping(subject => Score), _scores in the code
  now,          \* block.timestamp
  signed        \* the signatures enclaves have made so far

registryVars == <<teeSignerOf, scores, now, signed>>

NoScore == [score |-> 0, expiry |-> 0, codeHash |-> NoHash]

\* Faulty variant: the digest leaves out the subject.
DigestOfAnyone(subject, score, expiry, codeHash) ==
  [subject |-> Owner, score |-> score, expiry |-> expiry, codeHash |-> codeHash]

\* What an enclave signs: keccak256(abi.encodePacked(subject, score, expiry,
\* codeHash)), prefixed as an Ethereum signed message.
Digest(subject, score, expiry, codeHash) ==
  [subject |-> subject, score |-> score, expiry |-> expiry, codeHash |-> codeHash]

Digests == [subject : Accounts, score : Nat, expiry : Nat, codeHash : CodeHashes]

\* _recover: the signer for the digest that was signed, someone else for any
\* other digest, and address(0) for bytes that are no signature of any key.
Recover(digest, sig) == IF sig.digest = digest THEN sig.key ELSE Stranger

Init ==
  /\ teeSignerOf = [h \in CodeHashes |-> NoKey]
  /\ scores = [a \in Accounts |-> NoScore]
  /\ now = 1
  /\ signed = {}
-----------------------------------------------------------------------------
\* registerTeeSigner, onlyOwner: also replaces a signer, or clears it.
RegisterTeeSigner(sender, codeHash, signer) ==
  /\ sender = Owner
  /\ teeSignerOf' = [teeSignerOf EXCEPT ![codeHash] = signer]
  /\ UNCHANGED <<scores, now, signed>>

\* Faulty variant: an unregistered code hash is not refused, and the
\* address(0) recovered from no signature matches its signer.
SubmitScoreUnattested(subject, score, expiry, codeHash, sig) ==
  /\ score <= 1000
  /\ expiry > now
  /\ Recover(Digest(subject, score, expiry, codeHash), sig) = teeSignerOf[codeHash]
  /\ scores' = [scores EXCEPT ![subject] =
                  [score |-> score, expiry |-> expiry, codeHash |-> codeHash]]
  /\ UNCHANGED <<teeSignerOf, now, signed>>

\* The require statements of submitScore: what makes it revert otherwise.
Acceptable(subject, score, expiry, codeHash, sig) ==
  /\ score <= 1000
  /\ expiry > now
  /\ teeSignerOf[codeHash] # NoKey
  /\ Recover(Digest(subject, score, expiry, codeHash), sig) = teeSignerOf[codeHash]

\* submitScore, by any sender: the last accepted score replaces the stored
\* one, whichever of the two is the more recent.
SubmitScore(subject, score, expiry, codeHash, sig) ==
  /\ Acceptable(subject, score, expiry, codeHash, sig)
  /\ scores' = [scores EXCEPT ![subject] =
                  [score |-> score, expiry |-> expiry, codeHash |-> codeHash]]
  /\ UNCHANGED <<teeSignerOf, now, signed>>

\* getScore: zeros once the window has lapsed.
GetScore(subject) ==
  IF scores[subject].expiry <= now THEN NoScore ELSE scores[subject]

\* An enclave holding `key` signs a score for `subject` that expires after the
\* validity window, off-chain and whether or not its key is whitelisted.
EnclaveSigns(key, subject, score, codeHash) ==
  /\ Cardinality(signed) < MaxSigned
  /\ signed' = signed \cup
       {[key |-> key, digest |-> Digest(subject, score, now + Validity, codeHash)]}
  /\ UNCHANGED <<teeSignerOf, scores, now>>

Tick ==
  /\ now < MaxTime
  /\ now' = now + 1
  /\ UNCHANGED <<teeSignerOf, scores, signed>>

\* A relayer takes a signature it has seen, or bytes that are none, and may
\* send it with the fields of any digest that was ever signed.
Submission ==
  \E d \in {s.digest : s \in signed}, subject \in Subjects :
    \E sig \in signed \cup {[key |-> NoKey,
                             digest |-> [d EXCEPT !.subject = subject]]} :
      SubmitScore(subject, d.score, d.expiry, d.codeHash, sig)

EnclaveStep ==
  \E k \in Keys, a \in Subjects, v \in ScoreValues, h \in CodeHashes :
    EnclaveSigns(k, a, v, h)

Registration ==
  \E a \in Accounts, h \in CodeHashes, k \in Keys \cup {NoKey} :
    RegisterTeeSigner(a, h, k)

Next == Registration \/ EnclaveStep \/ Submission \/ Tick

Spec == Init /\ [][Next]_registryVars
-----------------------------------------------------------------------------
TypeOK ==
  /\ teeSignerOf \in [CodeHashes -> Keys \cup {NoKey}]
  /\ scores \in [Accounts -> [score : 0..1000, expiry : Nat,
                              codeHash : CodeHashes \cup {NoHash}]]
  /\ now \in Nat
  /\ signed \subseteq [key : Keys, digest : Digests]

\* A signed digest speaks of this score of this subject.
SpeaksOf(digest, subject, score) ==
  /\ digest.subject = subject
  /\ digest.score = score.score
  /\ digest.expiry = score.expiry
  /\ digest.codeHash = score.codeHash

AttestedStep ==
  \A a \in Accounts : scores'[a] # scores[a] =>
    LET s == scores'[a] IN
    /\ teeSignerOf[s.codeHash] \in Keys
    /\ \E sig \in signed : /\ sig.key = teeSignerOf[s.codeHash]
                          /\ SpeaksOf(sig.digest, a, s)
    /\ s.expiry > now

\* A score is taken over only while its code hash has a signer, and only if
\* that very signer signed it for that very subject, with that expiry: nothing
\* signed for one subject, code hash or window is accepted for another, and a
\* code hash that was cleared accepts nothing.
AcceptedOnlyAttested == [][AttestedStep]_registryVars

\* Every score the registry holds, lapsed or not, was signed by some enclave
\* for the account it is stored under.
StoredScoresWereSigned ==
  \A a \in Accounts : scores[a] # NoScore =>
    \E sig \in signed : SpeaksOf(sig.digest, a, scores[a])

NoRevivalStep ==
  \A a \in Accounts :
    GetScore(a) = NoScore /\ GetScore(a)' # NoScore => scores'[a] # scores[a]

\* A score that readers no longer see stays unseen until a new one is
\* submitted: neither time nor the owner brings it back.
LapsedStaysLapsed == [][NoRevivalStep]_registryVars
=============================================================================
