SPECIFICATION MCSpec
CONSTANTS
    Saves = {s1, s2}
    Requests <- SomeRequests
    MaxFaults = 1
    MaxCrashes = 1
    Tasks = {t1}
    Calls = {c1, c2}
    MaxActions = 2
    MaxTicks = 1
    MaxLists = 1
    MaxInbox = 2
    folder = folder
    ListFolders = {folder}
    ListCalls = {l1, l2}
    Steady = {1, 3}
    Volatile = {2}
    ListPageSize = 1
    MaxListActions = 4
    MaxChanges = 2
    WalkSteady = {1, 4, 6}
    WalkVolatile = {3, 5, 7}
    Matching = {1, 3, 6, 7}
    WalkPageSize = 2
    maxSearchResults = 2
    MaxWalkChanges = 3
SYMMETRY CallSymmetry
CONSTRAINT FewMessages
INVARIANTS
    InRange
    SavesLast
    ScreenIsTrue
    ListingIsTrue
    WalksAreTrue
PROPERTIES
    TicksOnlyWhileRunning
CHECK_DEADLOCK FALSE
