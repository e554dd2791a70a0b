\* Updates after a compaction.
CONSTANTS
    MaxIndex = 2
    Vals = {v1, v2}
    NoObject = NoObject
    NoEntry = NoEntry
    Broken = Broken
    NoJob = NoJob
    AutoPersist = TRUE
    Ops = {"create", "update", "compact", "crash"}
    MaxLog = 4
    MaxLsn = 9
SPECIFICATION Spec
INVARIANT RestartBringsBack
CHECK_DEADLOCK FALSE
