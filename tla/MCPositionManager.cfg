\* A long and a short coin, two positions: overlaps of the three coroutines and
\* orders that trade meanwhile.
CONSTANTS
  a = a
  b = b
  Coins = {a, b}
  Entries <- LongAndShort
  MaxOpens = 2
  MaxFaults = 0
SPECIFICATION Spec
INVARIANTS
  PMTypeOK
  IdleCoinTallies
  NeverNaked
CHECK_DEADLOCK FALSE
