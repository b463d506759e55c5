\* Two sockets, two loads of the coins, one hasty reconnect, two traders, four trades.
SPECIFICATION FairSpec
CONSTANTS
  x = x
  y = y
  none = none
  Sockets = {1, 2}
  NoSocket = 0
  OldSocket = 3
  MaxLoads = 2
  MaxHasty = 1
  Addresses = {x, y}
  NoAddress = none
  SlideWindow = 2
  MaxWindow = 3
  Threshold = 2
  MaxTrades = 4
  Parties <- MCParties
INVARIANTS
  ScannerTypeOK
  OneStream
  FillsKept
  QueueTells
PROPERTIES
  StreamComesBack
CHECK_DEADLOCK FALSE
