SPECIFICATION FairPathSpec
CONSTANTS
  Strategies = {s1}
  IOThreads = {io}
  Main = main
  None = None
  PoolSize = 1
  MaxOrders = 3
  MaxQty = 1
  MaxTrades = 1
  MaxSlices = 1
  Paper = TRUE
  Anonymous = {}
  FeedAfterAck = FALSE
  RestFaults = {}
  Capacity = 4
  Nil = Nil
INVARIANTS
  PublishedIsBooked
  BookedAsTraded
PROPERTIES
  PaperOrderBooked
