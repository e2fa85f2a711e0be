SPECIFICATION FairSpec
CONSTANTS
  Threads = {t1, t2}
  Main = main
  Null = null
  Mutexes = {m1}
  Priority <- MCOneHigh
  MaxBoost = 2
  Styles = {"lock", "critical"}
  BootLocks = {"critical"}
  TryLocks = TRUE
  MaxDepth = 1
INVARIANTS NoThreadLost FreedNeverRuns OwnerOnItsWay 
 
