SPECIFICATION FairSpec
CONSTANTS
  MaxOrders = 2
  sa = sa
  sb = sb
  Symbols = {sa}
  SymbolOf <- SameSymbol
  SideOf <- SameSide
  Mandated <- FirstOnly
  MaxFills = 1
  Linked = TRUE
  Modes = {"live"}
  MaxBooked = 0
  MaxCrashes = 0
  MaxLogFaults = 1
PROPERTIES TradesGetRecorded StaleOrdersLeave
