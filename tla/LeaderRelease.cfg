SPECIFICATION LeaderSpec
CONSTANTS
    Message = {m1, m2}
    Proc = {p1, p2}
    Worker = {p1, p2}
    None = None
    DayLength = 1
    QuietStart = 0
    QuietEnd = 0
    UserEnds = {0}
    ExpireAge = 1
    Limit = 1
    Horizon = 2
    MaxFaults = 1
    StaleTicks = 1
    MaxAge = 2
    MaxLockFaults = 2
SYMMETRY Symmetry
CONSTRAINT WhileRegular
INVARIANTS ReleasesStayApart OnceWhileRegular

