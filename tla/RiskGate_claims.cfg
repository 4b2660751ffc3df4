\* Claims that the code does not keep: each is violated.  One is active at a time.
SPECIFICATION Spec
CONSTANTS
  Navs = {8, 10}
  Losses = {0, 1}
  Notionals = {1, 2, 4}
  MaxPositionPct = 20
  MaxGrossPct = 150
  MaxLossPct = 10
  MaxDrawdownPct = 15
  MaxLeverage = 1
  DefaultNav = 40
  Failing = {"balance"}
  Restarts = {"signal"}
  Slow = TRUE
  MaxGross = 17
PROPERTY GrossCeiling
\* PROPERTY DailyLossHardStop
\* PROPERTY TrippedUntilRestart
\* PROPERTY BreachCancelsOrders
\* PROPERTY PositionCeiling
\* PROPERTY ExitFindsPeakSaved
\* PROPERTY LeverageCeiling
