SPECIFICATION Spec
CONSTANTS
  Calls = {c1, c2, c3}
  Accounts = {1, 2, 3}
  Amounts = {1}
  MinBalance <- LeastBalance
  MaxBalance = 2
  MaxId = 3
  NoRequest = NoRequest
  PoolSize = 3
SYMMETRY CallSymmetry
INVARIANTS TypeOK BalanceIsSumOfEntries DoubleEntry NoDeadlock WaitsCanEnd TxInv
PROPERTIES ReturnedBalancesAreCommitted ImplementsLedger
