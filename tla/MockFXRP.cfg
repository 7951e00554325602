CONSTANTS
  NumAccounts = 2
  MaxUint = 2
  MaxSupply = 2
  Amounts = {1, 2}
SPECIFICATION Spec
INVARIANT SupplyIsTotal
PROPERTY SpendingIsAuthorised
