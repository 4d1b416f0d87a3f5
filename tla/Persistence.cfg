\* Two faults: crashes between any two instructions or received snapshots.
SPECIFICATION Spec

CONSTANTS
    None = None
    NodeId = 1
    Peer = {1}
    SnapshotInterval = 1
    MaxIndex = 2
    MaxTerm = 2
    MaxFaults = 2

INVARIANT TypeOK
INVARIANT PromisesKept
INVARIANT AcknowledgedSurvive
INVARIANT Restartable
INVARIANT ReplaysLog
INVARIANT ConfigurationSurvives

\* A node whose event loop has ended, or whose storage is refused, stays so.
CHECK_DEADLOCK FALSE
