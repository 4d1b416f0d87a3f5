\* Two nodes, two distinct checkpoints, one snapshot, one lost proposal; receivers
\* that fall more than two events behind lose the oldest.
SPECIFICATION Spec

CONSTANTS
    n1 = n1
    n2 = n2
    None = None
    Node = {n1, n2}
    Workflow <- OneWorkflow
    Key <- TwoKeys
    Program <- DistinctKeys
    Registered <- Everywhere
    BusCapacity = 2
    MaxAttempts = 2
    MaxOwnerChanges = 0
    MaxSnapshots = 1
    MaxCrashes = 0
    MaxLost = 1
    MaxErrors = 0

INVARIANT TypeOK
INVARIANT ExecutionAgreement
INVARIANT CleanedUpOnCompletion
PROPERTY ResultIsFinal
PROPERTY ImplementsDurableExecution

\* The cluster rests when every workflow is over.
CHECK_DEADLOCK FALSE
