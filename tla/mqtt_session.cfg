SPECIFICATION Spec
CONSTANTS
  Topics = {"a", "b"}
  PubQos = {}
  BrokerQos = {0, 2}
  KeepAlive = 1
  Patience = 3
  ReadTimeout = 1
  HostTimeout = 1
  QueueCap = 2
  MaxId = 2
  MaxOut = 1
  MaxRx = 1
  MaxLag = 2
  MaxDrops = 1
  MaxChanges = 1
INVARIANTS
  
  TopicsReachBroker
CHECK_DEADLOCK FALSE
