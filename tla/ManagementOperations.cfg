\* The founder adds itself while two operations of any kind run; databases of removed
\* nodes stay locked, and slow observers lose events.
SPECIFICATION Spec

CONSTANTS
    None = None
    Node = {1, 2}
    Founder = 1
    Requests <- AllRequests
    TargetSize = 1
    MinSize = 1
    MaxSize = 2
    SplitSize = 1
    MinClusterCount = 1
    DrainNum = 1
    DrainDen = 2
    MaxTasks = 3
    MaxLost = 0
    MaxSnapshots = 0
    MaxFailures = 0
    MaxLeaderChanges = 0
    MaxStartErrors = 0
    BusSize = 2
    Persistent = TRUE

INVARIANT TypeOK
INVARIANT NoNodeStranded
INVARIANT RuntimesFollowMetadata
INVARIANT OneGroupPerSubCluster

\* The cluster rests when every operation has returned.
CHECK_DEADLOCK FALSE
