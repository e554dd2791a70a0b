\* Every way to stop, mailboxes of one message, handlers that send.
CONSTANTS
    Actors = {a1, a2}
    Clients = {main}
    NoActor = NoActor
    NoThread = NoThread
    Capacity = 1
    PoolSizes = {1, 2}
    ClientOps = {"spawn", "send", "stop", "graceful_stop", "fail", "monitor"}
    HandlerOps = {"spawn", "send", "stop"}
    Panics = FALSE
    MaxOps = 5
SPECIFICATION FairSpec
PROPERTY CallsReturn
PROPERTY StopIsObeyed
PROPERTY WatcherLearns
CHECK_DEADLOCK FALSE
