\* One coin, one position, one call that fails, and limit entries that may rest.
CONSTANTS
  a = a
  b = b
  Coins = {a}
  Entries <- MarketAndLimit
  MaxOpens = 1
  MaxFaults = 1
SPECIFICATION FairSpec
INVARIANTS
  EmergencyFlattens
PROPERTIES
  StaleIsClosed
CHECK_DEADLOCK FALSE
