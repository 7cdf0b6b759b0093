SPECIFICATION Spec
CONSTANTS
    Callers = {c1, c2}
    Workers = {w1, w2}
    Tails = {d1, d2}
    Boot = boot
    NoWorker = NoWorker
    NoRow = NoRow
    Types = {"upload", "download_zip"}
    Priorities = {0}
    Limits = {1, 2}
    MaxTasks = 1
    MaxCalls = 5
    SettingsFaults = TRUE
    MaxCrashes = 0
SYMMETRY Symmetry
INVARIANT
    CancelledIsNotTransferring
CHECK_DEADLOCK FALSE
