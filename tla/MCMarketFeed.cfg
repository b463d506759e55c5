SPECIFICATION FairSpec
CONSTANTS
  a = a
  b = b
  c = c
  Coins <- MCCoins
  Rankings <- MCRankings
  MaxSubs = 1
  MaxHeld = 1
  MaxSignals = 2
INVARIANTS
  TypeOK
  SubscriptionBudget
  ConnectedServesAll
  ProtectedAreSubscribed
PROPERTIES
  WantedIsSent
