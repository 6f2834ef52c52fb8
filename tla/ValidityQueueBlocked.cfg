SPECIFICATION FairSpec
CONSTANTS
    File = {f1}
    Proc = {p1}
    Thread = {job}
    None = None
    Limit = 1
    MaxRows = 2
    MaxFaults = 1
PROPERTIES EveryRowSettled
