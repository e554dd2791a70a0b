\* Two actors and the main thread: every operation, mailboxes of one message.
CONSTANTS
    Actors = {a1, a2}
    Clients = {main}
    NoActor = NoActor
    NoThread = NoThread
    Capacity = 1
    PoolSizes = {1, 2}
    ClientOps = {"spawn", "send", "stop", "graceful_stop", "fail", "child_fail", "try_send", "monitor", "demonitor"}
    HandlerOps = {"spawn", "send", "stop"}
    Panics = TRUE
    MaxOps = 6
SPECIFICATION Spec
SYMMETRY Symmetry
INVARIANT TypeOK
INVARIANT ExactlyOnceInOrder
INVARIANT RegistryExact
INVARIANT LockOwner
INVARIANT DownCount
PROPERTY DownIsFinal
PROPERTY NothingAfterDeregistration
CHECK_DEADLOCK FALSE
