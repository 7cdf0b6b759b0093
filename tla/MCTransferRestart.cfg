SPECIFICATION FairSpec
CONSTANTS
    Callers = {c1}
    Workers = {w1, w2}
    Tails = {d1}
    Boot = boot
    NoWorker = NoWorker
    NoRow = NoRow
    Types = {"copy_cross"}
    Priorities = {0, 1}
    Limits = {0, 2}
    MaxTasks = 2
    MaxCalls = 2
    SettingsFaults = FALSE
    MaxCrashes = 1
INVARIANTS
    ArchivedOnce
PROPERTIES
    ConcurrencyLimit
    RefinesLedger
    QueueDrains
CHECK_DEADLOCK FALSE
