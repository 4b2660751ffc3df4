SPECIFICATION FairGuardSpec
CONSTANTS
  Exchanges = {"aster", "bybit", "ib"}
  ListingFlat = {"aster", "bybit", "ib"}
  Bases = {"BTC", "ETH"}
  Stocks = {"ETH"}
  MaxQty = 2
  Prices = {0, 1, 2}
  MaxLossPct = 5
  MaxOrders = 2
  MaxEvents = 2
PROPERTIES FreshCloseFlattens MatchedKeepOrders BreachGetsClosed
