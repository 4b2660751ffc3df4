SPECIFICATION FairSpec
CONSTANTS
  Flags = {"none", "paper", "live"}
  Files = {"paper", "live"}
  Channels = {pager, slack}
  MaxErrors = 2
  MaxSignals = 3
INVARIANTS GracefulExit HaltReachesChannels LastCycle
PROPERTY ShutdownCompletes
