\* Two actors that send to each other through mailboxes of one message.
CONSTANTS
    Actors = {a1, a2}
    Clients = {main}
    NoActor = NoActor
    NoThread = NoThread
    Capacity = 1
    PoolSizes = {2}
    ClientOps = {"spawn", "send"}
    HandlerOps = {"send"}
    Panics = FALSE
    MaxOps = 9
SPECIFICATION Spec
INVARIANT ActorsNeverWaitForEachOther
CHECK_DEADLOCK FALSE
