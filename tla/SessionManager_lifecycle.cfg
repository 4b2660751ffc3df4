SPECIFICATION FairSpec
CONSTANTS
  Loop = Loop
  Clients = {c1}
  Modes = {"paper", "live"}
  MaxSessions = 3
  MaxCrashes = 2
  MaxRaised = 1
  MaxLost = 1
  MaxCalls = 2
INVARIANTS AtMostOneOvertimeCycle RestartLosesNothing SignedBeforeTrading
PROPERTIES EndsOnSchedule
