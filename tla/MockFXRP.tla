------------------------------ MODULE MockFXRP ------------------------------
(***************************************************************************)
(* The ERC-20 the pool lends (contracts/MockFXRP.sol). One action per      *)
(* external function; a revert is a disabled action. The two additions of  *)
(* the code that cannot overflow once the supply fits (balanceOf[to] +=)   *)
(* carry no guard: MockFXRP_proofs shows that they need none.              *)
(***************************************************************************)
EXTENDS AccountTotals

CONSTANTS
  NumAccounts,  \* accounts are 0..NumAccounts; 0 is the lending pool
  MaxUint,      \* type(uint256).max: the width of an amount
  MaxSupply,    \* bound on the state space: no mint goes beyond it
  Amounts       \* the amounts callers pass

Accounts == 0..NumAccounts

ASSUME TokenAssumption ==
  /\ NumAccounts \in Nat \ {0}
  /\ MaxUint \in Nat \ {0}
  /\ MaxSupply \in 0..MaxUint
  /\ Amounts \subseteq 0..MaxUint

VARIABLES
  totalSupply,  \* uint256
  balanceOf,    \* mapping(address => uint256)
  allowance,    \* mapping(owner => mapping(spender => uint256))
  caller        \* history: msg.sender of the last transaction, 0 before any

tokenVars == <<totalSupply, balanceOf, allowance>>
vars == <<totalSupply, balanceOf, allowance, caller>>

Init ==
  /\ totalSupply = 0
  /\ balanceOf = [a \in Accounts |-> 0]
  /\ allowance = [a \in Accounts |-> [s \in Accounts |-> 0]]
  /\ caller = 0
-----------------------------------------------------------------------------
\* Anyone may mint, as long as the checked addition does not overflow.
Mint(to, amount) ==
  /\ totalSupply + amount <= MaxSupply
  /\ totalSupply' = totalSupply + amount
  /\ balanceOf' = [balanceOf EXCEPT ![to] = @ + amount]
  /\ UNCHANGED allowance

\* _transfer, the common tail of transfer and transferFrom.
TransferTail(from, to, amount) ==
  /\ balanceOf[from] >= amount
  /\ balanceOf' = Move(balanceOf, from, to, amount)
  /\ UNCHANGED totalSupply

Transfer(sender, to, amount) ==
  /\ TransferTail(sender, to, amount)
  /\ UNCHANGED allowance

Approve(sender, spender, amount) ==
  /\ allowance' = [allowance EXCEPT ![sender][spender] = amount]
  /\ UNCHANGED <<totalSupply, balanceOf>>

\* An allowance of MaxUint is never used up.
Spend(from, spender, amount) ==
  IF allowance[from][spender] = MaxUint
  THEN allowance
  ELSE [allowance EXCEPT ![from][spender] = @ - amount]

\* Faulty variant: the allowance is tested but never used up.
TransferFromUnspent(spender, from, to, amount) ==
  /\ allowance[from][spender] >= amount
  /\ TransferTail(from, to, amount)
  /\ UNCHANGED allowance

TransferFrom(spender, from, to, amount) ==
  /\ allowance[from][spender] >= amount
  /\ allowance' = Spend(from, spender, amount)
  /\ TransferTail(from, to, amount)

\* One transaction of sender. The actions leave the caller alone, so that the
\* pool can use them for calls within transactions of its own.
Call(sender) ==
  \E a, b \in Accounts, amount \in Amounts :
    \/ Mint(a, amount)
    \/ Transfer(sender, a, amount)
    \/ Approve(sender, a, amount)
    \/ TransferFrom(sender, a, b, amount)

Next == \E sender \in Accounts : Call(sender) /\ caller' = sender

Spec == Init /\ [][Next]_vars
-----------------------------------------------------------------------------
TypeOK ==
  /\ totalSupply \in 0..MaxUint
  /\ balanceOf \in [Accounts -> 0..MaxUint]
  /\ allowance \in [Accounts -> [Accounts -> 0..MaxUint]]

\* No transfer, not even one to oneself or one through an allowance, makes or
\* loses a token: the balances of balanceOf always add up to totalSupply.
SupplyIsTotal == totalSupply = Total(balanceOf, NumAccounts)

\* Who moves another account's tokens had an allowance of that account for all
\* it took, and unless the allowance is unlimited it is smaller by as much
\* afterwards: no function of the token lets a caller take from an account what
\* that account did not let him, or take it twice.
SpendingIsAuthorised ==
  [][\A a \in Accounts :
       LET loss == balanceOf[a] - balanceOf'[a] IN
       loss > 0 /\ caller' # a =>
         /\ allowance[a][caller'] >= loss
         /\ allowance[a][caller'] # MaxUint
              => allowance'[a][caller'] = allowance[a][caller'] - loss]_tokenVars
=============================================================================
