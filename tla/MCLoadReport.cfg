CONSTANTS
  w1 = w1
  w2 = w2
  Brokers = {"rabbitmq", "redis"}
  Worker = {w1, w2}
  NumMessages = 5
  BatchSize = 2
SPECIFICATION FairSpec
CHECK_DEADLOCK FALSE
PROPERTIES
  Reported
