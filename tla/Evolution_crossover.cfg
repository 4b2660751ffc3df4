SPECIFICATION EvolutionSpec
CONSTANTS
  None = None
  Fleet <- MCLone
  Tuning <- MCLoneTuning
  Trades <- MCLosses
  Weights = {20000}
  Configured <- MCConfigured
  Defaults <- MCDefaults
  TrialCycles = 1
  Cooldown = 1
  Improvement = 5
  MaxOutcomes = 3
  MaxUpdates = 1
  MaxCycles = 6
  MaxCalls = 0
INVARIANT FastBelowSlow
