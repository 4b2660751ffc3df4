\* Claims that the code does not keep: each is violated.  One is active at a time.
SPECIFICATION BacktestSpec
CONSTANTS
  None = None
  Tuning <- MCTuning
  Generator = "any"
  Lookback = 1
  Markets <- MCMarkets
  InitialCapital = 1000
  PositionPct = 50
  CommissionPct = 10
  SlippagePct = 5
  TrainBars = 1
  TestBars = 3
  StepBars = 1
INVARIANT DrawdownOfCurve
\* INVARIANT WinsEarn
\* PROPERTY FlatTradesNothing
\* INVARIANT NoBarTwice
