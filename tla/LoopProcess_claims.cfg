\* Claims that the code does not keep: each is violated.  One is active at a time.
SPECIFICATION Spec
CONSTANTS
  Flags = {"none", "paper", "live"}
  Files = {"paper", "live"}
  Channels = {pager, slack}
  MaxErrors = 2
  MaxSignals = 3
INVARIANT ModeFlagOverrides
\* INVARIANT ShutdownNeverBlocks
\* PROPERTY NothingAfterCancel
\* INVARIANT PausedLoopBeats
\* INVARIANT HealthNoticesLoop
