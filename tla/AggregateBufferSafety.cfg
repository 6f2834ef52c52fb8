SPECIFICATION Spec
CONSTANTS
    Group = {g1, g2}
    Msg = {m1, m2, m3}
    Slot = {i1, i2, i3}
    None = None
    Window = 2
    MaxWindow = 3
    MaxWait = 1
    BatchSize = 2
    MaxFaults = 1
    Flushing = TRUE
SYMMETRY Symmetry
CHECK_DEADLOCK FALSE
INVARIANTS TypeOK BufferedIsTimed BatchBounded WindowContract ClosingSavesBuffered
PROPERTIES ImplementsDelivery
