SPECIFICATION BacktestSpec
CONSTANTS
  None = None
  Tuning <- MCTuning
  Generator = "any"
  Lookback = 1
  Markets <- MCMarkets
  InitialCapital = 1000
  PositionPct = 50
  CommissionPct = 2
  SlippagePct = 5
  TrainBars = 1
  TestBars = 4
  StepBars = 4
INVARIANTS BooksBalance RoundTrips EachBarTestedOnce
