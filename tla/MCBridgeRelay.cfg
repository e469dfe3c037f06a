\* Two requests, one of which may expire, one frame in every pipe and queue, and
\* a child that may make a request of its own under the first local id.
SPECIFICATION BridgeSpec
CONSTANTS
    Requests = {r1, r2}
    ChildIds = {1}
    Expirable = {r1}
    QueueSize = 1
    PipeSize = 1
    None = None
INVARIANTS BridgeTypeOK Correlated NeverCollide
PROPERTIES NoAnswerAfterCancel CycleEnds
\* A stopped cycle takes no further step.
CHECK_DEADLOCK FALSE
