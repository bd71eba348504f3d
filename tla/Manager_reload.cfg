\* One loader reloading three times and one StopJobs: cmd/chrome's use.
CONSTANTS
    a = a  b = b  x = x  d = d  p = p  q = q  f = f
    Malformed = Malformed  BadAddr = BadAddr  Undecodable = Undecodable  None = None
    Loaders = {l1}
    Stoppers = {s1}
    Names = {a, b, x, d}
    Kind <- MCKind
    Ports = {p, q, f}
    Foreign = {f}
    Configs <- MCConfigs
    MaxLoads = 3
    MaxStops = 1
    MaxFaults = 1
SPECIFICATION FairSpec
CHECK_DEADLOCK FALSE
INVARIANTS
    Quiescent
    ConfigApplied
    ListensWhereTold
    RemovedJobIsGone
    StopLeavesNothing
    SecondLoadHeals
PROPERTIES
    CallsReturn
