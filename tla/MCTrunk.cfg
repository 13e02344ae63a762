SPECIFICATION FairSpec
CONSTANTS
  MaxKey = 3
  MaxBranches = 8
  MaxBundles = 8
  MaxSubbundles = 12
  MaxFilters = 12
  BranchLimit = 2
  KvLimit = 6
  Fanout = 2
  MaxPivotKeys = 6
  Batches <- MCBatches
  Starts <- MCStarts
  TargetLeafKv = 1
  SingleLeafMax = 1
  ReclaimMin = 0
  Threads = {1, 2}
INVARIANTS   LookupsKeepTheirBranches RefsAreExact
PROPERTY TasksDrain
CHECK_DEADLOCK FALSE
