SPECIFICATION Spec
CONSTANTS
  Conns = {c1, c2}
  None = none
  MaxRx = 2
  HandshakeWindow = 0
  SftpWindow = 1
  MaxNested = 2
INVARIANTS TerminalIsLive ChannelNeedsLogin NoConnectionLeaks 
CHECK_DEADLOCK FALSE
  
