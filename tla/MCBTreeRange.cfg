SPECIFICATION MCFairSpec
CONSTANTS
    MaxKey = 9
    KeySize <- MCKeySize
    PageSize = 12
    TableEntry = 1
    IndexEntry = 1
    MaxKeySize = 2
    Threads = {1, 2, 3, 4}
    First = 1
    Scripts <- RangeScripts
    NumMemtables = 3
    Parts = {"tree"}
    Writer = {w1, w2}
    Reader = {r1}
    Worker = {k1}
    MaxMsgs = 3
    Stores = {}
    RootAtHand = TRUE
PROPERTY CallsReturn
