\* Three boxes, a main thread and the thread of an actor; the main thread
\* may defer its releases.  Pools large enough that no box goes back to the system.
CONSTANTS
    Boxes = {b1, b2, b3}
    Threads = {"main", "actor"}
    Receiver = "actor"
    Kinds = {"list", "tagged", "atom"}
    NoBox = NoBox
    LocalPoolLimit = 1
    PoolLimit = 2
    QueueLimit = 1
    RootLimit = 2
    FullInterval = 2
    MaxHeld = 2
    MaxKids = 1
    MaxCalls = 6
    Queues = {"main"}
    Makers = {"main"}
SPECIFICATION Spec
SYMMETRY Interchangeable
INVARIANT CountsExact
INVARIANT RecycledOnce
INVARIANT SharedFrozen
CHECK_DEADLOCK FALSE
