SPECIFICATION Spec
CONSTANTS
  Lines = {1, 2, 3, 4}
  Diffs <- MCDiffs
  Unknown = Unknown
  InitialLog <- MCLog
  MaxRewrites = 2
  Selections <- MCSelections
  FilesOf <- MCFilesOf
  MaxLoads = 2
  None = None
  Repos = {"r1", "r2", "r3"}
  MaxLoops = 2
  MaxThrows = 1
  Refs = {"r1", "r2"}
  StatusCallbacks = {"c1", "c2"}
  BranchNames = {"undefined", "b"}
  MaxConcurrentFetches = 1
  NoSubscription = NoSubscription
INVARIANTS TypeOK DiffOfSelection DiffExpected SubscribersReached ChainUnbroken
PROPERTIES LinesChosen CommitTakesChosen DiscardLeavesOthers NothingLost MovesOnlyMoved
  PausedStartsNothing EveryRepositoryRefreshed EveryRefFetched
CHECK_DEADLOCK FALSE
