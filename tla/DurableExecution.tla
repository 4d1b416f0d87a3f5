--------------------------- MODULE DurableExecution ---------------------------
(***************************************************************************)
(* What replicated execution promises a workflow, without logs, queues or  *)
(* owners: the value of each checkpoint is decided once; the execution of  *)
(* the workflow on any node sees the decided values, in order; and the     *)
(* workflow has one outcome, computed from all of them.                    *)
(***************************************************************************)
EXTENDS Naturals, Sequences

CONSTANTS Node, Workflow, None,
          Val,     \* values of checkpoints
          Steps    \* [Workflow -> Nat]: the number of checkpoints of each

VARIABLES decided,  \* per workflow: the values decided so far
          seen,     \* per node and workflow: the values its execution has seen
          outcome   \* per workflow: the values its result rests on, or None

vars == <<decided, seen, outcome>>

Init ==
    /\ decided = [w \in Workflow |-> <<>>]
    /\ seen = [n \in Node |-> [w \in Workflow |-> <<>>]]
    /\ outcome = [w \in Workflow |-> None]

\* The value of the next checkpoint of w is decided.
Decide(w) ==
    /\ outcome[w] = None
    /\ Len(decided[w]) < Steps[w]
    /\ \E v \in Val : decided' = [decided EXCEPT ![w] = Append(@, v)]
    /\ UNCHANGED <<seen, outcome>>

\* The execution of w on n passes its next checkpoint.
See(n, w) ==
    /\ Len(seen[n][w]) < Len(decided[w])
    /\ seen' = [seen EXCEPT ![n][w] = Append(@, decided[w][Len(@) + 1])]
    /\ UNCHANGED <<decided, outcome>>

\* An execution that has seen every checkpoint ends the workflow.
Finish(w) ==
    /\ outcome[w] = None
    /\ Len(decided[w]) = Steps[w]
    /\ \E n \in Node : seen[n][w] = decided[w]
    /\ outcome' = [outcome EXCEPT ![w] = decided[w]]
    /\ UNCHANGED <<decided, seen>>

Next ==
    \E w \in Workflow : Decide(w) \/ Finish(w) \/ \E n \in Node : See(n, w)

Spec == Init /\ [][Next]_vars
=============================================================================
