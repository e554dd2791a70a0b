\* Compaction and clean restarts.
CONSTANTS
    MaxIndex = 2
    Vals = {v1, v2}
    NoObject = NoObject
    NoEntry = NoEntry
    Broken = Broken
    NoJob = NoJob
    AutoPersist = TRUE
    Ops = {"create", "update", "delete", "get", "close", "compact"}
    MaxLog = 4
    MaxLsn = 9
SPECIFICATION Spec
INVARIANT ListingExact
PROPERTY ImplementsDurable
CHECK_DEADLOCK FALSE
