SPECIFICATION FairSpec
CONSTANTS
    Message = {m1, m2}
    Proc = {p1, p2}
    None = None
    DayLength = 3
    QuietStart = 2
    QuietEnd = 1
    UserEnds = {0}
    ExpireAge = 2
    Limit = 1
    Horizon = 4
    MaxFaults = 1
INVARIANTS TypeOK SentOnceOrDropped
PROPERTIES OutcomeIsFinal EveryMessageLeaves
