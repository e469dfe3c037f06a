\* One call, a device that reconnects, and a session that may end at any time.
SPECIFICATION RelaySpec
CONSTANTS
    Devices = {d1}
    None = None
    Requests = {r1}
    Sessions = {s1}
    Sweepers = {r1, w1}
    MaxEntries = 1
    ResolveOutcomes = {"response", "deviceGone", "invalidResponse"}
    Conns = {c1, c2}
    Downlink <- MCDownlink
    Uplink = {r1}
    QueueDepth = 1
    InboxBound = 1
    Disconnectable = {}
INVARIANTS RelayTypeOK LiveIsCurrent
PROPERTIES ConnectionsEnd CallsEnd AbandonedWorkStops
\* Connections and calls are used once: everything may come to rest.
CHECK_DEADLOCK FALSE
