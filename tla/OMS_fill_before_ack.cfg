SPECIFICATION FairSpec
CONSTANTS
  Strategies = {s1}
  IOThreads = {io}
  Main = main
  None = None
  PoolSize = 1
  MaxOrders = 1
  MaxQty = 1
  MaxTrades = 1
  MaxSlices = 1
  Paper = FALSE
  Anonymous = {}
  FeedAfterAck = FALSE
  RestFaults = {}
PROPERTIES
  TradeApplied
