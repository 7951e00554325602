---------------------------- MODULE MCScoreRelay ----------------------------
\* ScoreRelay for TLC: calls and keys are interchangeable.
EXTENDS ScoreRelay, TLC

\* Without volume: base and repayment, 40 points a proof, and 100 from the
\* third day on for a payment that is old by then.
CountAndAge(proofs, t) ==
  500 + 40 * proofs + IF proofs > 0 /\ t > 2 THEN 100 ELSE 0

\* Bound on the state space: once one kind of thing the page does not expect has
\* happened, histories with a second kind are not followed.
OneDisturbance == Cardinality(disturbed) <= 1

Alike == Permutations(Keys) \cup Permutations(Calls)
=============================================================================
