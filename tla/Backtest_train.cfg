SPECIFICATION BacktestSpec
CONSTANTS
  None = None
  Tuning <- MCTuning
  Generator = "momentum"
  Lookback = 1
  Markets <- MCRising
  InitialCapital = 1000
  PositionPct = 50
  CommissionPct = 2
  SlippagePct = 5
  TrainBars = 3
  TestBars = 2
  StepBars = 2
INVARIANT TrendIsFollowed
