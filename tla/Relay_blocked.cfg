\* Nobody resets a deadline from outside, and a peer may stop reading.
CONSTANTS
    ConnIdle = 2
    UplinkIdle = 1
    DownlinkIdle = 1
    MaxReads = 2
    MaxOverrides = 0

SPECIFICATION FairSpec
CHECK_DEADLOCK FALSE

PROPERTY
    ExpiredEnds
