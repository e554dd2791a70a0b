\* A message sent while a gracefully stopped actor leaves.
CONSTANTS
    Actors = {a1}
    Clients = {main, timer}
    NoActor = NoActor
    NoThread = NoThread
    Capacity = 2
    PoolSizes = {1}
    ClientOps = {"spawn", "send", "graceful_stop"}
    HandlerOps = {}
    Panics = FALSE
    MaxOps = 4
SPECIFICATION Spec
INVARIANT GracefulStopLosesNothing
CHECK_DEADLOCK FALSE
