SPECIFICATION EvolutionSpec
CONSTANTS
  None = None
  Fleet <- MCFleet
  Tuning <- MCTuning
  Trades <- MCTrades
  Weights = {20000}
  Configured <- MCConfigured
  Defaults <- MCDefaults
  TrialCycles = 2
  Cooldown = 4
  Improvement = 5
  MaxOutcomes = 3
  MaxUpdates = 1
  MaxCycles = 5
  MaxCalls = 1
INVARIANTS OneChangeAtATime ChangedSeldom
PROPERTY BetterIsNotBehind
