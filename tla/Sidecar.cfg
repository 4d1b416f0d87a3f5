\* Two applications of one sub-cluster, one workflow that checkpoints, channels
\* of one message.
SPECIFICATION FairSpec
CONSTANTS
    App = {a1, a2}
    Cluster = {c1}
    Workflow = {w1}
    Home <- MCHome
    Owned = {w1}
    Checkpointing = {w1}
    Capacity = 1
    BusCapacity = 1
    MaxHeartbeats = 3
    None = None
INVARIANTS TypeOK AtMostOneAnswer NoAnswerLost
PROPERTIES RequestsAnswered

\* An application that is answered has nothing to do.
CHECK_DEADLOCK FALSE
