\* Two connections. Failover: three candidates. Round robin: each connection may
\* make two attempts at a time; one reload. V2Ray: both kinds of job, a
\* certificate file with two contents or none.
CONSTANTS
    Conns = {c1, c2}
    MaxCandidates = 3
    MaxScore = 3
    MaxN = 2
    Calls = {k1, k2}
    MaxReloads = 1
    MaxAttempts = 2
    None = None
    Configs <- MCConfigs
    Contents = {"", "pem1", "pem2"}
SPECIFICATION MCSpec
SYMMETRY Symmetry
CHECK_DEADLOCK FALSE
INVARIANTS
    QueueExact
    ScoredOnce
    SafeUnlessResized
    InstanceFits
    OneInstance
PROPERTIES
    ImplementsBoard
