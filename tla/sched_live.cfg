SPECIFICATION FairSpec
CONSTANTS
  MaxTasks = 2
  ClockMod = 4
  LatenessUnit = 1
  Tolerance = 0
  Durations = {1}
  Priorities = {0, 3}
  Nices <- MCNoNice
  ClearDuration = 1
  Delays = {0}
  Names = {}
  Owners = {0}
  Signals = {}
  ExecTimes = {0}
  MaxReg = 2
  MaxNow = 3
PROPERTIES  ExpiredReaped LateTaskServed
