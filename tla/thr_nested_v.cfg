SPECIFICATION Spec
CONSTANTS
  Threads = {t1}
  Main = main
  Null = null
  Mutexes = {m1}
  Priority <- MCEqual
  MaxBoost = 1
  Styles = {"lock"}
  BootLocks = {}
  TryLocks = TRUE
  MaxDepth = 2
INVARIANTS PairingKeepsExclusion
