\* Two goroutines that load documents with the same http job.
CONSTANTS
    a = a  b = b  x = x  d = d  p = p  q = q  f = f
    Malformed = Malformed  BadAddr = BadAddr  Undecodable = Undecodable  None = None
    Loaders = {l1, l2}
    Stoppers = {}
    Names = {a, b}
    Kind <- MCKind2
    Ports = {p, q, f}
    Foreign = {f}
    Configs <- SwapConfigs
    MaxLoads = 1
    MaxStops = 0
    MaxFaults = 0
SPECIFICATION Spec
CHECK_DEADLOCK FALSE
INVARIANTS
    OpenAvailable
