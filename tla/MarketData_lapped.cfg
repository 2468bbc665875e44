SPECIFICATION MarketSpec
CONSTANTS
  Instruments = {x}
  INTERVALS = {1, 2}
  None = None
  Torn = Torn
  BUFFER_SIZE = 2
  Consumers = {s1}
  Ticks <- AllTicks
  Messages <- SomeMessages
  EpochStart = 4
  StaleAfter = 0
  QueueRoom = 1
  MaxMessages = 4
  MaxTime = 1
INVARIANTS
  DeliveredInOrder
  NeverOutdated
  BarsSummarise
  CandlesComplete
PROPERTIES
  CandlesOrdered
  CatchesUp
