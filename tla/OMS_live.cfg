SPECIFICATION Spec
CONSTANTS
  Strategies = {s1}
  IOThreads = {io}
  Main = main
  None = None
  PoolSize = 2
  MaxOrders = 2
  MaxQty = 2
  MaxTrades = 1
  MaxSlices = 2
  Paper = FALSE
  Anonymous <- FirstOrderAnonymous
  FeedAfterAck = FALSE
  RestFaults = {"late", "unparsable"}
INVARIANTS
  PoolPartition
  HeldPointerValid
  RecordIntegrity
  ExchangeMapSound
  AppliedOnce
  LiveOrderTracked
