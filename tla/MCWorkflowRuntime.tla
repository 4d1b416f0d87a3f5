-------------------------- MODULE MCWorkflowRuntime --------------------------
(* Values for the constants of WorkflowRuntime. *)
EXTENDS WorkflowRuntime

CONSTANTS n1, n2

OneWorkflow == {<<"a">>}
TwoKeys == {<<"x">>, <<"y">>}
OneKey == {<<"x">>}

\* Every key is used once.
DistinctKeys == [w \in Workflow |-> <<<<"x">>, <<"y">>>>]
\* A replicated variable is created and then set.
SameKey == [w \in Workflow |-> <<<<"x">>, <<"x">>>>]
SingleKey == [w \in Workflow |-> <<<<"x">>>>]

NodeSymmetry == Permutations(Node)

Everywhere == [n \in Node |-> Workflow]
=============================================================================
