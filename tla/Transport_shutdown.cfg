SPECIFICATION TransportSpec
CONSTANTS
  MAX_RECONNECT_DELAY = 2
  KafkaRoom = 1
  Normalizer = normalizer
  Portfolio = portfolio
  Main = main_thread
  NoThread = nobody
  RedisUsers = {normalizer, portfolio, main_thread}
  MaxTicks = 1
  MaxFills = 2
CHECK_DEADLOCK FALSE
INVARIANTS
  StreamKept
  OneAttemptAfterStop
  NullOnlyAfterRefusal
  PositionsReachRedis
  NothingLeftBehind
PROPERTIES
  NeverGivesUp
  KafkaRecovers
  TransportStops
