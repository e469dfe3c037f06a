\* Two requests, keys for two grants and a user of which two can be tracked, and
\* a clock over three windows.
SPECIFICATION FairSpec
CONSTANTS
    Requests = {r1, r2}
    g1 = g1
    g2 = g2
    u1 = u1
    Grants <- MCGrants
    Users <- MCUsers
    Keys <- MCKeys
    UserOf <- MCUserOf
    PerWindow = 1
    MaxInFlight = 1
    MaxKeys = 2
    Ticks = 1
    MaxTime = 2
    QueueLimit = 1
    None = None
INVARIANTS
    AdmissionTypeOK
    LimitsHold
    SlotsMatchCalls
    StragglersCancelled
PROPERTIES
    EventsAreDrained
    ShutdownEnds
CHECK_DEADLOCK FALSE
