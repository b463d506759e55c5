SPECIFICATION FairSpec
CONSTANTS
  a = a
  b = b
  c = c
  Coins <- MCCoins
  Signals <- MCSignals
  Prices <- MCPrices
  Requests = {r1}
  Infinity = 99
  Limits = {1, 2}
  MaxLimit = 2
  MinRrTenths = 10
  TriggerTenths = 9
  LockTenths = 1
  MaxOpens = 3
INVARIANTS
  TypeOK
  SlotLimit
  TrailLocksProfit
  HistoryMatches
  DryRunTableClean
PROPERTIES
  ImplementsSlots
  StopNeverLoosens
  StaleIsClosed
