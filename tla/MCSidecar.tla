----------------------------- MODULE MCSidecar -----------------------------
\* Values for the constants of Sidecar.
EXTENDS Sidecar

\* Workflows are started in the first sub-cluster.
MCHome == [w \in Workflow |-> CHOOSE c \in Cluster : TRUE]
=============================================================================
