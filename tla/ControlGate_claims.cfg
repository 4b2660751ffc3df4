\* Claims that the code does not keep: each is violated.  One is active at a time.
SPECIFICATION FairSpec
CONSTANTS
  Handlers = {h1, h2}
  MaxRequests = 2
  MaxOutages = 1
  MaxRestarts = 0
PROPERTY FailsClosed
\* PROPERTY AcknowledgedKillIsPublished
\* PROPERTY KillIsOneWay
\* PROPERTY ResumeNeverLiftsKill
\* PROPERTY NoOrdersWhileKilled
\* PROPERTY KillClearsOrders
