------------------------------ MODULE MCIdentity ------------------------------
(* What comes from elsewhere: a file, a transaction or a request with a      *)
(* binding for which no challenge was ever asked.                            *)
EXTENDS Identity

CONSTANT x1

MCXrpls == {x1}
MCForeign == {[xrpl |-> x1, nonce |-> 0]}
=============================================================================
