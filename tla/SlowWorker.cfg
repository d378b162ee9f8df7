\* Two workers, one of which is slow: a map task takes longer than its 10 s.
SPECIFICATION Spec
CONSTANTS
    Worker = {w1, w2}
    mapCount = 2
    reduceCount = 1
    Unreadable = {}
    SlowWorkers = TRUE
    MaxCrashes = 0
INVARIANT OutputComplete
CHECK_DEADLOCK FALSE
