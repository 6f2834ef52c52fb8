SPECIFICATION LockFairSpec
CONSTANTS
    Worker = {w1, w2}
    StaleTicks = 3
    MaxAge = 5
    MaxLockFaults = 1
INVARIANTS RegularLockExcludes SchedulerKeepsRowFresh
PROPERTIES RowHeals
