\* Claims that the code does not keep: each is violated.  One is active at a time.
SPECIFICATION FairGuardSpec
CONSTANTS
  Exchanges = {"aster", "bybit", "ib"}
  ListingFlat = {"bybit"}
  Bases = {"BTC", "ETH"}
  Stocks = {"ETH"}
  MaxQty = 2
  Prices = {0, 1, 2}
  MaxLossPct = 5
  MaxOrders = 2
  MaxEvents = 2
PROPERTY ClosesReduce
\* PROPERTY CloseMeetsPosition
\* INVARIANT CancelledAreGone
\* PROPERTY SurgicalCancel
\* PROPERTY BreachClosedUnpriced
\* PROPERTY StockBreachGetsClosed
