SPECIFICATION FairPathSpec
CONSTANTS
  Strategies = {s1}
  IOThreads = {io}
  Main = main
  None = None
  PoolSize = 1
  MaxOrders = 1
  MaxQty = 3
  MaxTrades = 2
  MaxSlices = 1
  Paper = FALSE
  Anonymous = {}
  FeedAfterAck = TRUE
  RestFaults = {}
  Capacity = 2
  Nil = Nil
INVARIANTS
  StatusAgrees
  BookedAsTraded
  LiveOrderTracked
PROPERTIES
  TradeApplied
  FilledOrderReleased
