\* The flags of SetLogFile on Unix, without faults.
CONSTANTS
    Writable = FALSE
    MaxOpens = 2
    MaxOutputs = 2
    MaxMessages = 4
    MaxFaults = 0

SPECIFICATION Spec
CHECK_DEADLOCK FALSE

INVARIANTS
    FileGetsAll
