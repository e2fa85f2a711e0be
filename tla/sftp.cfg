SPECIFICATION FairSpec
CONSTANTS
  Names = {"a", "b", "f"}
  TmpName = "tmp"
  FlashBytes = 2
  MaxPath = 2
  MaxNodes = 2
  MaxBytes = 3
  Handles = {1, 2}
  NoHandle = 0
  Ids = {1, 2}
  Targets <- MCTargets
  Files <- MCFiles
  Dirs <- MCDirs
  Places <- MCPlaces
  Data <- MCData
  MaxChunk = 1
  BatchMax = 1
  MaxPos = 4
  SelfMoves = FALSE
INVARIANTS  WithinBudget AnsweredOnce  ListingExact FailedLeavesStore 
 
