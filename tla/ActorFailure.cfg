\* A child actor that receives a Failure.
CONSTANTS
    Actors = {a1, a2}
    Clients = {main}
    NoActor = NoActor
    NoThread = NoThread
    Capacity = 3
    PoolSizes = {2}
    ClientOps = {"spawn", "send", "fail"}
    HandlerOps = {"spawn"}
    Panics = FALSE
    MaxOps = 4
SPECIFICATION FairSpec
PROPERTY FailureReachesParent
CHECK_DEADLOCK FALSE
