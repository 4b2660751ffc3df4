\* Claims that the code does not keep: each is violated.  One is active at a time.
SPECIFICATION FairSpec
CONSTANTS
  Loop = Loop
  Clients = {c1}
  Modes = {"paper", "live"}
  MaxSessions = 2
  MaxCrashes = 1
  MaxRaised = 0
  MaxLost = 0
  MaxCalls = 1
PROPERTY EndsBeforeNext
\* PROPERTY EndedIsFinal
\* INVARIANT LiveNeedsOperator
\* PROPERTY ReturnsAtSessionEnd
\* PROPERTY ApprovedGetsActive
