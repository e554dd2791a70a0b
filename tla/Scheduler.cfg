\* Three closures on two workers: one never ends, one may panic.
CONSTANTS
    Tasks = {t1, t2, t3}
    N = 2
    NoTask = NoTask
    Endless = {t1}
    Panics = {t2}
SPECIFICATION FairSpec
INVARIANT TypeOK
INVARIANT TwoAfterShutdown
PROPERTY ImplementsPool
PROPERTY EveryTaskStarts
CHECK_DEADLOCK FALSE
