SPECIFICATION FairSpec
CONSTANTS
  Calls = {c1, c2}
  Accounts = {1, 2, 3}
  Amounts = {1, 2}
  MinBalance <- LeastBalance
  MaxBalance = 1
  MaxId = 3
  NoRequest = NoRequest
  PoolSize = 1
PROPERTIES EveryCallIsAnswered LocksAreReleased
