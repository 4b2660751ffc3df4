SPECIFICATION Spec
CONSTANTS
  None = None
  Tuning <- MCTuning
  SymbolList <- MCSymbolList
  History <- MCHistory
  Dialect = "aster"
  NewestFirst = FALSE
  KlinesLimit = 6
  Prices = {96, 104}
  Rates = {6}
  Faulty = {}
  Actions = {"buy"}
  QueueLimit = 2
  MaxTokens = 28
  MaxCycles = 2
  Refill = 1
  CallCost = 2
  Patience = 1
  MaxCandles = 2
  MaxAlerts = 3
  MaxTicks = 1
  MaxBad = 1
INVARIANTS AlertsInOrder CallBudget
PROPERTY GridTellsMoves
