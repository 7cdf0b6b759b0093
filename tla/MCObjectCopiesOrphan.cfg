SPECIFICATION MCSpec
CONSTANTS
    f = f
    g = g
    x = x
    y = y
    z = z
    Names = {x, y, z}
    Folders = {f, g}
    Marker = marker
    Stored <- InF
    Large <- OnlyY
    Requests <- AnyOne
    Renames <- RenameX
    Workers = {w1, w2}
    Callers = {c1}
    deleteObjectsBatchSize = 1
    Parts = 2
    Empty = empty
    Torn = torn
    NoLocation = NoLocation
    NoObject = NoObject
    MaxOps = 1
    MaxCalls = 1
    MaxFaults = 1
    Sizes = {1, 2}
    singlePutThreshold = 1
    MaxReplaces = 1
    MaxUploads = 2
    MaxCopyFaults = 1
    MaxCopyCalls = 2
    MaxCrashes = 1
INVARIANT
    CancelOrphansNoUpload
CHECK_DEADLOCK FALSE
