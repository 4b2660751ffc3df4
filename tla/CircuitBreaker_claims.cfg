\* Claims that the code does not keep: each is violated.  One is active at a time.
SPECIFICATION Spec
CONSTANTS
  Callers = {c1, c2}
  FailureThreshold = 2
  RecoveryTimeout = 2
  MaxFailures = 3
  MaxOutages = 2
  MaxResets = 0
PROPERTY OpensOnConsecutive
\* INVARIANT OneProbeAtATime
