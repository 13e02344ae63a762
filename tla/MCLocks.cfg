SPECIFICATION MCSpec
CONSTANTS
    MAX_THREADS = 3
    Writer = {w1, w2}
    Reader = {r1}
    Worker = {k1}
    MaxMsgs = 3
INVARIANTS WriterAlone UpgradeKeepsReads
PROPERTIES ImplementsRWLock LockNotStarved FinalizedIsRetired InsertsReturn
