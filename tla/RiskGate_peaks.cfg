SPECIFICATION Spec
CONSTANTS
  Navs = {8, 9, 10}
  Losses = {0, 1}
  Notionals = {1, 2}
  MaxPositionPct = 20
  MaxGrossPct = 30
  MaxLossPct = 10
  MaxDrawdownPct = 15
  MaxLeverage = 1
  DefaultNav = 40
  Failing = {"balance", "positions", "place", "cancel", "checkpoint"}
  Restarts = {"crash", "signal", "halt"}
  Slow = TRUE
  MaxGross = 2
INVARIANTS DrawdownFromPeak PeakSurvivesRestart
PROPERTY DrawdownHolds
