\* The owner changes, a snapshot is sent and a proposal fails, in any order.
\* One attempt: the timeouts in between are in the other runs.
SPECIFICATION Spec

CONSTANTS
    n1 = n1
    n2 = n2
    None = None
    Node = {n1, n2}
    Workflow <- OneWorkflow
    Key <- TwoKeys
    Program <- SameKey
    Registered <- Everywhere
    BusCapacity = 100
    MaxAttempts = 1
    MaxOwnerChanges = 1
    MaxSnapshots = 1
    MaxCrashes = 0
    MaxLost = 0
    MaxErrors = 1

SYMMETRY NodeSymmetry
INVARIANT StateAgreement
INVARIANT QueueIsSuffixOfHistory

\* The cluster rests when every workflow is over.
CHECK_DEADLOCK FALSE
