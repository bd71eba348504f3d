\* Three connections and a shutdown. Relay: idle timeouts of three, two and no
\* ticks; the owner of the remote resets its deadline at any time.
CONSTANTS
    Conns = {c1, c2, c3}
    MinDelay = 1
    MaxDelay = 3
    NoConn = NoConn
    ConnIdle = 3
    UplinkIdle = 2
    DownlinkIdle = 0
    MaxReads = 4
    MaxOverrides = 2
SPECIFICATION MCSpec
CHECK_DEADLOCK FALSE
INVARIANTS
    ClosesWhatItFinds
    MapExact
    NoSendOnClosed
    ReturnsClean
PROPERTIES
    
    FiresOnlyWhenIdle
    ExpiredLeavesWrites
    FailureEnds
