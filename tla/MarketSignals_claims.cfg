\* Claims that the code does not keep: each is violated.  One is active at a time.
SPECIFICATION Spec
CONSTANTS
  None = None
  Tuning <- MCTuning
  SymbolList <- MCSymbolList
  History <- MCHistory
  Dialect = "bybit"
  NewestFirst = FALSE
  KlinesLimit = 6
  Prices = {96, 104}
  Rates = {6}
  Faulty = {}
  Actions = {"flat"}
  QueueLimit = 2
  MaxTokens = 28
  MaxCycles = 2
  Refill = 1
  CallCost = 2
  Patience = 1
  MaxCandles = 2
  MaxAlerts = 1
  MaxTicks = 0
  MaxBad = 1
PROPERTY BoostIsTheSymbols
\* PROPERTY GridBuysFalls
\* INVARIANT FlatOpensNothing
\* PROPERTY PauseClearsAlerts
\* PROPERTY LastIsLatest
