SPECIFICATION Spec
CONSTANTS
  MaxKey = 4
  MaxBranches = 8
  MaxBundles = 8
  MaxSubbundles = 12
  MaxFilters = 12
  BranchLimit = 2
  KvLimit = 12
  Fanout = 2
  MaxPivotKeys = 6
  Batches <- LostBatches
  Starts <- LostStarts
  TargetLeafKv = 1
  SingleLeafMax = 1
  ReclaimMin = 0
  Threads = {1}
INVARIANT LookupsFindEveryKey
CHECK_DEADLOCK FALSE
