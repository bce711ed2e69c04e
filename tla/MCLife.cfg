CONSTANTS
  Adapters = {"rabbitmq", "redis", "kafka"}
  MaxMessages = 4
SPECIFICATION FairSpec
CHECK_DEADLOCK FALSE
INVARIANTS
  NothingRefused
  ClosedIdle
PROPERTIES
  SignalEnds
