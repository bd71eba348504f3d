\* Patterns as ".*a" and hosts with a ':'.
CONSTANTS
    None = None
    Missing = None
    Width = 2
    Plans <- LoosePlans
    Contents <- MCContents
    Written <- MCWritten
    Lookups = {k1}
    Asked <- MCAsked
    Probes <- MCProbes
    MaxWrites = 1
    Lines <- Expand
    Allows <- Allow
SPECIFICATION Spec
CHECK_DEADLOCK FALSE
INVARIANTS
    AllowsExactly
