SPECIFICATION FairSpec
CONSTANTS
    Task = {t1}
    Worker = {w1, w2}
    Run = {1, 2}
    NoTask = NoTask
    NoWorker = NoWorker
    MaxRelease = 2
    MaxInflight = 1
    MaxFaults = 1
\* Every task may be finished and cleared.
CHECK_DEADLOCK FALSE
INVARIANTS
    TypeOK
    OneRunPerRelease
    RunningIsBacked
    CompletedIsEarned
PROPERTIES
    OnlyHoldersRewrite
    PendingIsTaken
    RunsEnd
