SPECIFICATION FairSpec
CONSTANTS
    smallFileThreshold = 4
    mediumFileThreshold = 5
    largeFileThreshold = 6
    minPartSize = 1
    defaultPartSize = 2
    largePartSize = 3
    maxPartSize = 3
    maxPartsPerUpload = 3
    clampRoundingUnit = 1
    partSizeOverrideMin = 1
    partSizeOverrideMax = 2
    FileSizes = {1, 3}
    singlePutThreshold = 1
    Concurrency = 2
    Overrides = {5}
    MaxUploads = 2
    MaxLost = 1
    MaxCalls = 2
    MaxCrashes = 1
INVARIANTS
    StoredIsFile
PROPERTIES
    PartsAreKept
    AttemptReturns
CHECK_DEADLOCK FALSE
