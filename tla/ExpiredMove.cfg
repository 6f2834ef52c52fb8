SPECIFICATION Spec
CONSTANTS
    File = {f1, f2}
    Taken = {f2}
    Other = Other
    Nothing = Nothing
    Alt = {"alt1", "alt2"}
    Proc = {p1, p2}
    MaxFaults = 2
INVARIANTS NeverAheadOfFiles FilesSurvive IndexNamesTheFile
