\* The same key is checkpointed twice.
SPECIFICATION Spec

CONSTANTS
    n1 = n1
    n2 = n2
    None = None
    Node = {n1, n2}
    Workflow <- OneWorkflow
    Key <- TwoKeys
    Program <- SameKey
    Registered <- Everywhere
    BusCapacity = 100
    MaxAttempts = 2
    MaxOwnerChanges = 0
    MaxSnapshots = 0
    MaxCrashes = 0
    MaxLost = 0
    MaxErrors = 0

INVARIANT ExecutionAgreement

\* The cluster rests when every workflow is over.
CHECK_DEADLOCK FALSE
