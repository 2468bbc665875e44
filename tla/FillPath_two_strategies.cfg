SPECIFICATION PathSpec
CONSTANTS
  Strategies = {s1, s2}
  IOThreads = {io}
  Main = main
  None = None
  PoolSize = 2
  MaxOrders = 2
  MaxQty = 1
  MaxTrades = 1
  MaxSlices = 1
  Paper = TRUE
  Anonymous = {}
  FeedAfterAck = FALSE
  RestFaults = {}
  Capacity = 4
  Nil = Nil
INVARIANTS
  PublishedIsBooked
