SPECIFICATION LiveSpec
CONSTANTS
  a = a
  b = b
  Coins <- MCCoins
  Signals <- MCSignals
  Prices <- MCPrices
  Requests = {r1}
  Infinity = 99
  Limits = {2}
  MaxLimit = 2
  MinRrTenths = 10
  TriggerTenths = 9
  LockTenths = 1
  MaxOpens = 2
INVARIANTS
  DryRunSendsNothing
  TrackedIsGuarded
  SoleEntryAccounted
