\* One call at a time, two loads.
CONSTANTS
    None = None
    Calls = {k1}
    Configs <- MCConfigs
    MaxLoads = 2
SPECIFICATION FairSpec
CHECK_DEADLOCK FALSE
INVARIANTS
    RaceSettles
    CacheFits
PROPERTIES
    CancelledReturns
