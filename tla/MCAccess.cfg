\* A licensed user with two devices and one slot; one device connects.
SPECIFICATION AccessSpec
CONSTANTS
    u1 = u1
    d1 = d1
    d2 = d2
    k1 = k1
    Users = {u1}
    Devices = {d1, d2}
    Creds = {k1, k2}
    Fingerprints = {}
    Licensed = {u1}
    Owner <- MCOwner
    FirstCred <- MCFirstCred
    Slots <- MCSlots
    None = None
    Conns = {c1}
    Downlink <- MCDownlink
    Uplink <- MCUplink
    QueueDepth = 1
    InboxBound = 0
    Managed = {d1, d2}
    Disconnectable = {d1, d2}
INVARIANTS AccessTypeOK RevokedIsOffline
PROPERTIES LostPermissionIsClosed
CHECK_DEADLOCK FALSE
