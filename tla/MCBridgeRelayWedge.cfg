\* A talkative child and a session that closes while the loop is sending.
SPECIFICATION BridgeSpec
CONSTANTS
    Requests = {r1}
    ChildIds = {}
    Expirable = {}
    QueueSize = 1
    PipeSize = 1
    None = None
PROPERTIES SessionCloseEndsCycle
CHECK_DEADLOCK FALSE
