\* Claims that the code does not keep: each is violated.  One is active at a time.
SPECIFICATION FairSpec
CONSTANTS
  Mandates = {m1, m2}
  ConfigMandates = {m1}
  Clients = {c1, c2}
  Notionals = {1}
  MaxCapital = 2
  MaxPosition = 0
  MaxDailyLoss = 1
  MaxDrawdown = 50
  Moves = {1}
  TokenTTL = 1
  MaxOrders = 3
  MaxRequests = 3
  MaxPnl = 3
  MaxDays = 1
  MaxRestarts = 0
INVARIANT CapitalCeiling
\* PROPERTY DrawdownStopsMandate
\* PROPERTY DailyLossStopsMandate
\* INVARIANT ExpiredIsRevalidated
\* PROPERTY NoneExecutedAfterPause
\* PROPERTY RevokedIsPermanent
\* INVARIANT JournalIsComplete
\* PROPERTY ExecutedGetsSubmitted
