\* Writes, saves and crashes; the log is never compacted.
CONSTANTS
    MaxIndex = 2
    Vals = {v1, v2}
    NoObject = NoObject
    NoEntry = NoEntry
    Broken = Broken
    NoJob = NoJob
    AutoPersist = FALSE
    Ops = {"create", "update", "delete", "get", "save", "checkpoint", "close", "crash"}
    MaxLog = 4
    MaxLsn = 6
SPECIFICATION Spec
INVARIANT TypeOK
PROPERTY ImplementsDurable
SYMMETRY Symmetry
CHECK_DEADLOCK FALSE
