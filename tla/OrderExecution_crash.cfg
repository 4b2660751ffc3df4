SPECIFICATION Spec
CONSTANTS
  MaxOrders = 2
  sa = sa
  sb = sb
  Symbols = {sa}
  SymbolOf <- SameSymbol
  SideOf <- SameSide
  Mandated <- FirstOnly
  MaxFills = 2
  Linked = TRUE
  Modes = {"paper", "live"}
  MaxBooked = 1
  MaxCrashes = 1
  MaxLogFaults = 1
INVARIANTS ExchangeMapExact MemoryMatchesLog
PROPERTIES FilledIsFinal LinkedFillsStayHome LedgerRefinement
