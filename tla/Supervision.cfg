\* A root, its children and theirs: four actors, one report waiting in a mailbox,
\* clock to 2 with a window of 1.
CONSTANTS
    Configs <- AllConfigs
    MaxChildren = 2
    MaxActors = 4
    MaxBox = 1
    MaxTime = 2
SPECIFICATION Spec
INVARIANT RestartBudget
INVARIANT SupervisedOnce
CHECK_DEADLOCK FALSE
