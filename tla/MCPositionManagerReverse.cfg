\* One long coin, one position, no fault.
CONSTANTS
  a = a
  b = b
  Coins = {a}
  Entries <- OneLong
  MaxOpens = 1
  MaxFaults = 0
SPECIFICATION Spec
INVARIANTS
  CloseNeverReverses
CHECK_DEADLOCK FALSE
