\* Claims that the code does not keep: each is violated.  One is active at a time.
SPECIFICATION EvolutionSpec
CONSTANTS
  None = None
  Fleet <- MCFleet
  Tuning <- MCTuning
  Trades <- MCTrades
  Weights = {20000}
  Configured <- MCConfigured
  Defaults <- MCDefaults
  TrialCycles = 1
  Cooldown = 3
  Improvement = 5
  MaxOutcomes = 3
  MaxUpdates = 1
  MaxCycles = 4
  MaxCalls = 1
PROPERTY KeptOnEvidence
\* PROPERTY LosersAreNotBoosted
\* INVARIANT ArbitrationFollowsWeights
\* INVARIANT SettingsSurvive
