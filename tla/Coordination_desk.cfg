SPECIFICATION Spec
CONSTANTS
  Mandates = {m1, m2}
  ConfigMandates = {m1}
  Clients = {c1, c2}
  Notionals = {1}
  MaxCapital = 1
  MaxPosition = 0
  MaxDailyLoss = 2
  MaxDrawdown = 50
  Moves = {1}
  TokenTTL = 0
  MaxOrders = 2
  MaxRequests = 2
  MaxPnl = 1
  MaxDays = 1
  MaxRestarts = 1
INVARIANTS AtMostOneLateApproval OneEnd
PROPERTY TokenDecides
SYMMETRY ClientSymmetry
