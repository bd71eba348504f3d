\* Two attempts at a time, a request of two bytes, which is also its limit.
CONSTANTS
    MaxAttempts = 2
    Parallel = 2
    MaxBytes = 2
    MaxRequest = 2
SPECIFICATION FairSpec
CHECK_DEADLOCK FALSE
INVARIANTS
    CountExact
    RequestWhole
    RelayUncut
    ClosedMeansFinished
    OneOutcome
PROPERTIES
    ClientCloseEnds
    Decides
