--------------------------- MODULE AccountTotals ---------------------------
(***************************************************************************)
(* Sums over the accounts of the chain. Accounts are numbered from 0, so a *)
(* Solidity mapping(address => uint256) is a function on 0..n and its sum  *)
(* is the last of its running totals. The sum is a recursive function, not *)
(* a RECURSIVE operator, so that the proof modules can reason about it.    *)
(***************************************************************************)
EXTENDS Integers

Total(f, n) ==
  LET running[i \in 0..n] ==
        IF i = 0 THEN f[0] ELSE running[i - 1] + f[i]
  IN  running[n]

\* Faulty variant: both balances are read before either is written.
MoveReadsFirst(f, from, to, amount) ==
  [f EXCEPT ![from] = f[from] - amount, ![to] = f[to] + amount]

\* The mapping after `amount` moves from one account to another. The debit is
\* done before the credit, so a move to oneself changes nothing.
Move(f, from, to, amount) ==
  LET debited == [f EXCEPT ![from] = @ - amount]
  IN  [debited EXCEPT ![to] = @ + amount]
=============================================================================
