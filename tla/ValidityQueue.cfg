SPECIFICATION FairSpec
CONSTANTS
    File = {f1, f2}
    Proc = {p1, p2}
    Thread = {job, startup}
    None = None
    Limit = 2
    MaxRows = 3
    MaxFaults = 1
INVARIANTS CheckedRowIsRunning RequestIsFresh
PROPERTIES SettledUnlessBlocked
