SPECIFICATION FairSpec
CONSTANTS
  Callers = {c1, c2, c3}
  FailureThreshold = 2
  RecoveryTimeout = 2
  MaxFailures = 3
  MaxOutages = 2
  MaxResets = 1
INVARIANTS CountMatchesState
PROPERTY RecoversWithServer
