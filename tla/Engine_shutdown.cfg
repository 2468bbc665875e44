SPECIFICATION EngineSpec
CONSTANTS
  N = 2
  MaxTicks = 2
  MaxOrders = 2
INVARIANT
  CallbacksBeforeUnload
PROPERTY
  EngineStops
