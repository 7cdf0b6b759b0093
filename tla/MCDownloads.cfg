SPECIFICATION MCSpec
CONSTANTS
    smallFileThreshold = 4
    mediumFileThreshold = 5
    largeFileThreshold = 6
    minPartSize = 1
    defaultPartSize = 2
    largePartSize = 3
    maxPartSize = 3
    maxPartsPerUpload = 3
    clampRoundingUnit = 1
    partSizeOverrideMin = 1
    partSizeOverrideMax = 2
    ObjectSizes = {3, 4}
    Concurrency = 2
    Overrides = {1, 5}
    Radix = 2
    FileDeletions = TRUE
    MaxTorn = 1
    MaxCalls = 3
    MaxCrashes = 1
    Keys = {1, 2, 3}
    Placeholders = {1}
    PageSize = 1
    Chunks = 2
    MaxChanges = 1
    MaxFaults = 2
    MaxPrefixCalls = 1
INVARIANTS
    FileArrives
    PrefixArrives
PROPERTIES
    ProgressIsUsed
    WorkCompletes
CHECK_DEADLOCK FALSE
