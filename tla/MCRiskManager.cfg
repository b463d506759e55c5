SPECIFICATION Spec
CONSTANTS
  Equities <- MCEquities
  Pnls <- MCPnls
  Levels <- MCLevels
  Counts = {0, 3}
  MaxConcurrent = 3
  DailyPct = 5
  WeeklyPct = 10
  DrawdownPct = 15
  RiskPct = 2
  MaxLeverage = 1
  FirstDay = 4
  LastDay = 8
  MaxEvents = 4
INVARIANTS
  TypeOK
  LedgerMatches
  GateRespectsLosses
  DrawdownShutsGate
  SizingBounded
