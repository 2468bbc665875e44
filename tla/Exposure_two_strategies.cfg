SPECIFICATION ExposureSpec
CONSTANTS
  Instruments = {x}
  StrategyIds = {s1, s2}
  CallThreads = {own, normalizer}
  NoStrategy = NoStrategy
  Unowned = Unowned
  StartingCapital = 10
  Prices = {1, 2}
  Quantities = {1, 2}
  max_single_order_value = 3
  max_position_value = 3
  max_capital_allocation = 4
  max_daily_loss = 0
  MaxOrders = 2
  Carried <- OneLongPosition
INVARIANTS
  BooksBalance
PROPERTIES
  ExposureBounded
SYMMETRY Symmetry
