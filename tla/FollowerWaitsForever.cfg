\* No fault is needed.
SPECIFICATION FairSpec

CONSTANTS
    n1 = n1
    n2 = n2
    None = None
    Node = {n1, n2}
    Workflow <- OneWorkflow
    Key <- OneKey
    Program <- SingleKey
    Registered <- Everywhere
    BusCapacity = 100
    MaxAttempts = 2
    MaxOwnerChanges = 0
    MaxSnapshots = 0
    MaxCrashes = 0
    MaxLost = 0
    MaxErrors = 0

PROPERTY ExecutionsFinish

\* The cluster rests when every workflow is over.
CHECK_DEADLOCK FALSE
