SPECIFICATION FairSpec
CONSTANTS
    Run = {1, 2}
    Call = {1, 2}
    Page = {p1, p2}
    None = None
    MaxStops = 2
    MaxFaults = 1
CHECK_DEADLOCK FALSE
CONSTRAINT Bounded
INVARIANTS
    TypeOK
    OneStageAtATime
    InterruptedIsQuiet
    NoStageRepeats
    OfferContinuesTheRun
PROPERTY
    RunPipelineEnds
