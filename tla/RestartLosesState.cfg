\* One crash is enough.
SPECIFICATION Spec

CONSTANTS
    None = None
    NodeId = 1
    Peer = {1}
    SnapshotInterval = 1
    MaxIndex = 2
    MaxTerm = 2
    MaxFaults = 1

INVARIANT RestartKeepsState

\* A node whose event loop has ended, or whose storage is refused, stays so.
CHECK_DEADLOCK FALSE
