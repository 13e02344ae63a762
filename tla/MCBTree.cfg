SPECIFICATION MCScheduledSpec
CONSTANTS
    MaxKey = 9
    KeySize <- MCKeySize
    PageSize = 12
    TableEntry = 1
    IndexEntry = 1
    MaxKeySize = 2
    Threads = {1, 2, 3, 4}
    First = 1
    Scripts <- MCScripts
    NumMemtables = 3
    Parts = {"tree", "memtables", "async"}
    Writer = {w1, w2}
    Reader = {r1}
    Worker = {k1}
    MaxMsgs = 3
    Stores <- MCStores
    RootAtHand = TRUE
INVARIANTS
    LookupsSeeInserts IteratorsSeeAll TreeVerifies
    LookupsAreFresh PinnedMemtablesStay CloseKeepsEverything ThreadsFindExpectedState
    AsyncLookupsAgree
PROPERTIES GenerationsIncrease CallsReturn
