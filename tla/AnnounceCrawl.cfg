SPECIFICATION FairSpec
CONSTANTS
    a1 = a1
    a2 = a2
    a3 = a3
    Ann = {a1, a2, a3}
    Blank = {a3}
    Attached = {a2}
    Crawler = {"job", "manual"}
    LookBack = 1
    MaxLate = 1
    Threshold = 2
    Days = 3
    MaxFaults = 2
    MaxClicks = 1
CONSTRAINT Apart
INVARIANT NonePassed
PROPERTIES EveryAnnouncementIsRead
