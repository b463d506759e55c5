SPECIFICATION FairSpec
CONSTANTS
  a = a
  b = b
  c = c
  Coins <- MCCoins
  Signals <- MCSignals
  Prices <- MCPrices
  Requests = {}
  Infinity = 99
  Limits = {1, 2}
  MaxLimit = 2
  MinRrTenths = 10
  TriggerTenths = 9
  LockTenths = 1
  MaxOpens = 3
PROPERTIES
  ClosedLeaves
