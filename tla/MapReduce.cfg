\* Two workers, one of which may crash; three inputs, one of them missing.
SPECIFICATION FairSpec
CONSTANTS
    Worker = {w1, w2}
    mapCount = 3
    reduceCount = 2
    Unreadable = {1}
    SlowWorkers = FALSE
    MaxCrashes = 1
INVARIANTS TypeOK CountersExact ReduceAfterMaps OutputComplete
PROPERTIES RefinesJob Terminates
CHECK_DEADLOCK FALSE
