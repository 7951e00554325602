----------------------------- MODULE LendingBook -----------------------------
(***************************************************************************)
(* What FxrpLendingPool promises, without prices, ratios, scores, tokens   *)
(* or reverts: a book of what each holder has put in and owes, the coins   *)
(* that back it and the FXRP in reserve. Six operations are all there is   *)
(* to it, and each moves both sides of the book by the same amount.        *)
(***************************************************************************)
EXTENDS Integers

CONSTANTS
  Holders,
  Deposits  \* amounts holders may put in

VARIABLES
  collateral, debt, \* of each holder
  backing,          \* coins held for the collateral
  reserve           \* FXRP held, to be lent

bookVars == <<collateral, debt, backing, reserve>>

Init ==
  /\ collateral = [h \in Holders |-> 0]
  /\ debt = [h \in Holders |-> 0]
  /\ backing = 0
  /\ reserve \in Nat

Put(h, amount) ==
  /\ collateral' = [collateral EXCEPT ![h] = @ + amount]
  /\ backing' = backing + amount
  /\ UNCHANGED <<debt, reserve>>

Take(h, amount) ==
  /\ collateral' = [collateral EXCEPT ![h] = @ - amount]
  /\ backing' = backing - amount
  /\ UNCHANGED <<debt, reserve>>

Lend(h, amount) ==
  /\ debt' = [debt EXCEPT ![h] = @ + amount]
  /\ reserve' = reserve - amount
  /\ UNCHANGED <<collateral, backing>>

Return(h, amount) ==
  /\ debt' = [debt EXCEPT ![h] = @ - amount]
  /\ reserve' = reserve + amount
  /\ UNCHANGED <<collateral, backing>>

\* Somebody else returns all of a debt and takes some of its collateral.
Close(h, seized) ==
  /\ debt' = [debt EXCEPT ![h] = 0]
  /\ reserve' = reserve + debt[h]
  /\ collateral' = [collateral EXCEPT ![h] = @ - seized]
  /\ backing' = backing - seized

\* FXRP comes in that nobody owed.
Gift ==
  /\ reserve' \in Nat /\ reserve' >= reserve
  /\ UNCHANGED <<collateral, debt, backing>>

Next ==
  \/ \E h \in Holders :
       \/ \E amount \in Deposits : Put(h, amount)
       \/ \E amount \in 0..collateral[h] : Take(h, amount) \/ Close(h, amount)
       \/ \E amount \in 0..reserve : Lend(h, amount)
       \/ \E amount \in 0..debt[h] : Return(h, amount)
  \/ Gift

Spec == Init /\ [][Next]_bookVars
=============================================================================
