SPECIFICATION FairSpec
CONSTANTS
  Topics = {"a"}
  PubQos = {1}
  BrokerQos = {0}
  KeepAlive = 4
  Patience = 7
  ReadTimeout = 2
  HostTimeout = 1
  QueueCap = 1
  MaxId = 2
  MaxOut = 2
  MaxRx = 1
  MaxLag = 1
  MaxDrops = 1
  MaxChanges = 0

  
PROPERTIES
  SessionKept
  Reconnects
CHECK_DEADLOCK FALSE
