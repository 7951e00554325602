--------------------------- MODULE MCChallengeStore ---------------------------
(* Instances of ChallengeStore: threads and addresses are interchangeable.  *)
EXTENDS ChallengeStore, TLC

Symmetric == Permutations(Workers) \cup Permutations(Flares) \cup Permutations(Xrpls)
=============================================================================
