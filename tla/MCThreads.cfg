SPECIFICATION MCSpec
CONSTANTS
  Thread = {t1, t2, t3}
  MAX_THREADS = 3
  MemtableWorker = {k1}
  NormalWorker = {k2}
  Client = {c1, c2}
  MaxTasks = 3
  ScalePercent = {0, 100}
  t1 = t1
  t2 = t2
  t3 = t3
  k1 = k1
  k2 = k2
  c1 = c1
  c2 = c2
INVARIANT IdsAreUnique
INVARIANT MaxTidCoversAll
INVARIANT ScratchIsFresh
INVARIANT QuiescentMeansIdle
INVARIANT TasksRunOnce
PROPERTY TasksAreRun
PROPERTY ShutdownEnds
