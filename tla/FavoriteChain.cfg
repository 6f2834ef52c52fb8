SPECIFICATION FairSpec
CONSTANTS
    Proc = {p1, p2}
    MaxRetries = 3
    MaxRows = 3
    MaxFaults = 2
\* Nobody need add a favourite.
CHECK_DEADLOCK FALSE
INVARIANTS OnlyFaultsStrand
PROPERTIES EveryFavoriteSettles
