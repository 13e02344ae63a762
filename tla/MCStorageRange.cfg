SPECIFICATION MCSpec
CONSTANTS
    Components = {"range"}
    Thread = {t1, t2}
    ExtentCapacity = 3
    Reserved = 1
    RefMax = 3
    RootId = {a, b}
    MaxRootIds = 1
    MiniThread = {t1, t2}
    MiniExtents = 9
    PagesPerExtent = 2
    EntriesPerPage = 2
    NumBatches = 2
    Ranges <- MCRanges
    LastKey = 9
    MaxAllocs = 2
    PackedLeaves = {1, 3}
    MaxRefs = 3
    MaxReloads = 1
    PageSlots = 2
    Entries <- MCEntries
    MaxEntries = 4
    MaxPages = 4
    NumExtents = 5
    MaxItems = 2
    MaxStarts = 3
    NumKeys = 3
    Classes <- MCClasses
    FreeTurns = TRUE
    MaxKey = 10
    KeySize <- MCKeySize
    PageSize = 10
    TableEntry = 1
    IndexEntry = 1
    MaxKeySize = 2
    MaxHeight = 5
    Inputs <- MCInputs
INVARIANT PrevMovesToPreviousItem
SYMMETRY MCSymmetry
CHECK_DEADLOCK FALSE
