\* One operation beside the founder's, without storage; a proposal is lost, a snapshot
\* installed, a follower reported as failed, the leader replaced and a Raft node not
\* created, in any order.
SPECIFICATION Spec

CONSTANTS
    None = None
    Node = {1, 2}
    Founder = 1
    Requests <- AllRequests
    TargetSize = 1
    MinSize = 1
    MaxSize = 2
    SplitSize = 1
    MinClusterCount = 1
    DrainNum = 1
    DrainDen = 2
    MaxTasks = 2
    MaxLost = 1
    MaxSnapshots = 1
    MaxFailures = 1
    MaxLeaderChanges = 1
    MaxStartErrors = 1
    BusSize = 100
    Persistent = FALSE

INVARIANT MetadataAgreement
INVARIANT IdsNeverReused

\* The cluster rests when every operation has returned.
CHECK_DEADLOCK FALSE
