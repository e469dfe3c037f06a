\* A machine that generates up to two device ids, each paired up to twice.
SPECIFICATION FairSpec
CONSTANTS
    Devices = {d1, d2}
    MaxMints = 2
    Torn = Torn
    None = None
INVARIANTS
    LifecycleTypeOK
    IdentityIsKept
    StatusIsLegal
PROPERTIES
    StopReturns
    EndsAreNoticed
\* Every device id may be used up.
CHECK_DEADLOCK FALSE
