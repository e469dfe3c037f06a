\* Two calls to one or two devices, with one connection, its one-place queue and a
\* registry of one.
SPECIFICATION RelaySafety
CONSTANTS
    Devices = {d1, d2}
    None = None
    Requests = {r1, r2}
    Sessions = {s1}
    Sweepers = {r1, r2}
    MaxEntries = 1
    ResolveOutcomes = {"response", "deviceGone", "invalidResponse"}
    Conns = {c1}
    Downlink <- MCDownlink
    Uplink = {r1, r2}
    QueueDepth = 1
    InboxBound = 1
    Disconnectable = {d1, d2}
INVARIANTS RefusedMeansUndelivered OnlyAbandonedCallsLinger DeviceFailedMeansClosed
SYMMETRY Alike
\* Connections and calls are used once: everything may come to rest.
CHECK_DEADLOCK FALSE
