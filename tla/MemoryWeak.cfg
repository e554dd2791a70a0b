\* Two boxes and one weak reference.
CONSTANTS
    Boxes = {b1, b2}
    Threads = {"main", "actor"}
    Receiver = "actor"
    Kinds = {"list", "atom"}
    NoBox = NoBox
    LocalPoolLimit = 1
    PoolLimit = 2
    QueueLimit = 1
    RootLimit = 2
    FullInterval = 2
    MaxHeld = 2
    MaxKids = 1
    MaxCalls = 7
    Queues = {"main"}
    MaxWeak = 1
    Makers = {"main"}
SPECIFICATION WeakSpec
INVARIANT DroppedStaysDead
CHECK_DEADLOCK FALSE
