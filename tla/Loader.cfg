\* Four patterns of imports, two files edited, removed or created at any time,
\* two calls: load, change, load with a change during either.
CONSTANTS
    Files <- MCFiles
    Entries <- MCEntries
    UseLists <- MCUseLists
    Disks <- MCDisks
    NoPrelude = FALSE
    MaxTime = 3
    MaxCalls = 2
SPECIFICATION Spec
INVARIANT ModulesInOrder
INVARIANT CacheNeverStale
