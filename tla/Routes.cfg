\* One lookup at a time, addresses of 2 bits, one write for each reload.
CONSTANTS
    None = None
    Missing = None
    Width = 2
    Plans <- MCPlans
    Contents <- MCContents
    Written <- MCWritten
    Lookups = {k1}
    Asked <- MCAsked
    Probes <- MCProbes
    MaxWrites = 1
    Lines <- Expand
    Allows <- Allow
SPECIFICATION Spec
CHECK_DEADLOCK FALSE
INVARIANTS
    AllowsExactly
    ReloadFits
