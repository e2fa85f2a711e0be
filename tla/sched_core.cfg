SPECIFICATION Spec
CONSTANTS
  MaxTasks = 2
  ClockMod = 1
  LatenessUnit = 1
  Tolerance = 1
  Durations = {0}
  Priorities = {0}
  Nices = {0}
  ClearDuration = 1
  Delays = {0}
  Names = {"a"}
  Owners = {0}
  Signals = {"KILL", "STOP", "CONT"}
  ExecTimes = {0}
  MaxReg = 2
  MaxNow = 0
INVARIANTS TypeOK UniqueIds RunnableHasCallback RunningSlotStable TimeoutNotLost OrderIsSorted
PROPERTIES RevokedNeverRuns OneShotRunsOnce ImplementsTable
