SPECIFICATION BankSpec
CONSTANTS
  Calls = {c1, c2}
  Owners = {o1, o2}
  Currencies = {k1, k2}
  Amounts = {1}
  MinBalance <- Least
  MaxBalance = 1
  MaxId = 3
  NoRequest = NoRequest
  NoAccount = NoAccount
  PoolSize = 2
SYMMETRY Symmetry
CHECK_DEADLOCK FALSE
INVARIANTS
  NoNegativeBalance
