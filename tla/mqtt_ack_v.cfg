SPECIFICATION Spec
CONSTANTS
  Topics = {"a"}
  PubQos = {}
  BrokerQos = {1}
  KeepAlive = 6
  Patience = 12
  ReadTimeout = 2
  HostTimeout = 1
  QueueCap = 2
  MaxId = 3
  MaxOut = 1
  MaxRx = 1
  MaxLag = 1
  MaxDrops = 0
  MaxChanges = 0
PROPERTIES
  SessionKept
CHECK_DEADLOCK FALSE
