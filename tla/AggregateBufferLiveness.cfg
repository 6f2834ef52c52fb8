SPECIFICATION FairSpec
CONSTANTS
    Group = {g1}
    Msg = {m1, m2}
    Slot = {i1, i2}
    None = None
    Window = 2
    MaxWindow = 3
    MaxWait = 1
    BatchSize = 2
    MaxFaults = 1
    Flushing = FALSE
CHECK_DEADLOCK FALSE
PROPERTIES EverySent TimersStop
