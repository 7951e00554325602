---------------------------- MODULE MCScoreModel ----------------------------
(* Two wallets and a shop: amounts that add up to less than the cap, to    *)
(* more than it and, over two receivers, to a whole step; an old payment,  *)
(* a failed one, payments to oneself, a forged and an opaque proof.        *)
EXTENDS ScoreModel

CONSTANTS me, you, shop

Pay(tx, source, dest, amount, at, status) ==
  [tx |-> tx, source |-> source, dest |-> dest, amount |-> amount, at |-> at,
   status |-> status]
Proof(body, kind) == [body |-> body, kind |-> kind]

MCAddresses == {me, you, shop}
MCProofs ==
  {Proof(Pay(1, me, you, 60, 1, 0), "verified"),
   Proof(Pay(2, me, you, 70, 2, 0), "verified"),
   Proof(Pay(3, me, shop, 80, 1, 0), "verified"),
   Proof(Pay(4, you, me, 60, 2, 0), "verified"),
   Proof(Pay(5, me, me, 90, 1, 0), "verified"),
   Proof(Pay(6, me, shop, 0, 1, 1), "verified"),
   Proof(Pay(3, me, shop, 99, 1, 0), "forged"),
   Proof(Pay(2, me, you, 70, 2, 0), "opaque")}
=============================================================================
