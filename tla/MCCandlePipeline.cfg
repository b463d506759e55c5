\* Windows of 8 candles, three new minutes, one lost message, two subscriptions.
CONSTANTS
  MinBars = 1
  MinStaircase = 5
  MinSignal = 6
  BucketMinutes = 1
  AtrPeriod = 2
  MinCandles = 8
  MaxCandles = 9
  BootstrapCount = 9
  Histories <- MCHistories
  Ticks <- MCTicks
  MaxMinutes = 9
  MaxTrades = 2
  MaxLost = 1
  MaxSubs = 2
SPECIFICATION Spec
INVARIANTS
  CPTypeOK
  WindowsOrdered
  WindowsMirrorMarket
  SignalsSane
PROPERTIES
  SwingsStay
CHECK_DEADLOCK FALSE
