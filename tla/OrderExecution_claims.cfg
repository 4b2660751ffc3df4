\* Claims that the code does not keep: each is violated.  One is active at a time.
SPECIFICATION Spec
CONSTANTS
  MaxOrders = 2
  sa = sa
  sb = sb
  Symbols = {sa}
  SymbolOf <- SameSymbol
  SideOf <- SameSide
  Mandated <- FirstOnly
  MaxFills = 2
  Linked = TRUE
  Modes = {"live", "shadow"}
  MaxBooked = 2
  MaxCrashes = 1
  MaxLogFaults = 0
INVARIANT TradeBookedOnce
\* PROPERTY EmergencyCancelCloses
\* INVARIANT PrunedOrdersAreClosed
\* INVARIANT FallbackOnlyUnlinked
\* INVARIANT ShadowNeverSubmits
\* INVARIANT CancelledStaysGone
