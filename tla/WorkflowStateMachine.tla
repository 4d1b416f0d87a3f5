------------------------ MODULE WorkflowStateMachine ------------------------
(***************************************************************************)
(* The replicated state machine of an execution cluster                    *)
(* (src/workflow/state_machine.rs), as operators on its state.             *)
(*                                                                         *)
(* The fields of the Rust struct are kept apart in two values: the part    *)
(* that goes into a snapshot (`core`: workflows, inputs, results,          *)
(* checkpoint_history, ownership) and the transient checkpoint_queues,     *)
(* which executions on the same node pop outside of the log.               *)
(*                                                                         *)
(* A workflow id and a checkpoint key are sequences of the segments        *)
(* between their ':' characters, because the maps of the state machine are *)
(* keyed by the string "id:key".  Payloads are abstract; an input is only  *)
(* present or absent.                                                      *)
(***************************************************************************)
EXTENDS Naturals, Sequences

CONSTANTS Node,      \* node ids of the cluster
          Workflow,  \* workflow ids, as sequences of segments
          Key,       \* checkpoint keys, as sequences of segments
          None       \* the absent entry of a map

ASSUME IdAssumption ==
    /\ \A w \in Workflow : w \in Seq(STRING) /\ w # <<>>
    /\ \A k \in Key : k \in Seq(STRING) /\ k # <<>>
    /\ None \notin Node \cup {"Running", "Completed"}

(***************************************************************************)
(* The serialized value of a checkpoint, named by the computation it comes *)
(* from (node, incarnation of the node, workflow and step: a closure run   *)
(* again may return something else), and the serialized Result of an       *)
(* execution: whether it succeeded and the checkpoint values it saw.       *)
(***************************************************************************)
Value == [by : Node, inc : Nat, wf : Workflow, step : Nat]

Result == [res : {"Ok", "Err"}, got : Seq(Value)]

(***************************************************************************)
(* Commands.  The event an application publishes has the same fields as    *)
(* the command it applies (WorkflowStarted, WorkflowCompleted,             *)
(* CheckpointSet, OwnershipChanged), so the command stands for its event.  *)
(***************************************************************************)
StartCommand == [type : {"WorkflowStart"}, wf : Workflow, owner : Node]
EndCommand   == [type : {"WorkflowEnd"}, wf : Workflow, result : Result]
SetCommand   == [type : {"SetCheckpoint"}, wf : Workflow, key : Key, value : Value]
OwnerCommand == [type : {"OwnerChange"}, wf : Workflow, owner : Node]

Command == StartCommand \cup EndCommand \cup SetCommand \cup OwnerCommand

-----------------------------------------------------------------------------
\* format!("{}:{}", workflow_id, key): the segments of the id, then the key's.
make_queue_key(w, k) == w \o k

QueueKey == {make_queue_key(w, k) : w \in Workflow, k \in Key}

\* key.starts_with("id:"): the id's segments come first and more follow.
StartsWith(qk, w) == Len(w) < Len(qk) /\ SubSeq(qk, 1, Len(w)) = w

Core == [workflows : [Workflow -> {None, "Running", "Completed"}],
         inputs    : SUBSET Workflow,
         results   : [Workflow -> Result \cup {None}],
         history   : [QueueKey -> Seq(Value)],
         ownership : [Workflow -> Node \cup {None}]]

Queues == [QueueKey -> Seq(Value)]

\* WorkflowStateMachine::new: every map is empty.  An absent queue and an
\* empty one are the same to every reader.
NewQueues == [qk \in QueueKey |-> <<>>]

NewCore == [workflows |-> [w \in Workflow |-> None],
            inputs    |-> {},
            results   |-> [w \in Workflow |-> None],
            history   |-> NewQueues,
            ownership |-> [w \in Workflow |-> None]]

-----------------------------------------------------------------------------
\* What each arm of apply() does to the queues and, alike, to the history.
Push(q, c) ==
    LET qk == make_queue_key(c.wf, c.key)
    IN  [q EXCEPT ![qk] = Append(@, c.value)]

\* Mutant of Retain: the clean-up on completion is forgotten.
MutRetainNothing(q, w) == q

Retain(q, w) ==
    [qk \in QueueKey |-> IF StartsWith(qk, w) THEN <<>> ELSE q[qk]]

ApplyQueues(q, c) ==
    CASE c.type = "SetCheckpoint" -> Push(q, c)
      [] c.type = "WorkflowEnd"   -> Retain(q, c.wf)
      [] OTHER                    -> q

\* The arms of apply(), on the snapshotted part of the state.
ApplyStart(s, c) ==
    [s EXCEPT !.workflows = [@ EXCEPT ![c.wf] = "Running"],
              !.inputs    = @ \cup {c.wf},
              !.ownership = [@ EXCEPT ![c.wf] = c.owner]]

\* Mutant of ApplyEnd: whether the Result is Ok or Err is not stored.
MutEndDropsOutcome(s, c) ==
    [s EXCEPT !.workflows = [@ EXCEPT ![c.wf] = "Completed"],
              !.results   = [@ EXCEPT ![c.wf] = [got |-> c.result.got]],
              !.inputs    = @ \ {c.wf},
              !.history   = ApplyQueues(@, c)]

ApplyEnd(s, c) ==
    [s EXCEPT !.workflows = [@ EXCEPT ![c.wf] = "Completed"],
              !.results   = [@ EXCEPT ![c.wf] = c.result],
              !.inputs    = @ \ {c.wf},
              !.history   = ApplyQueues(@, c)]

ApplySet(s, c) == [s EXCEPT !.history = ApplyQueues(@, c)]

ApplyOwner(s, c) == [s EXCEPT !.ownership = [@ EXCEPT ![c.wf] = c.owner]]

ApplyCore(s, c) ==
    CASE c.type = "WorkflowStart" -> ApplyStart(s, c)
      [] c.type = "WorkflowEnd"   -> ApplyEnd(s, c)
      [] c.type = "SetCheckpoint" -> ApplySet(s, c)
      [] c.type = "OwnerChange"   -> ApplyOwner(s, c)

-----------------------------------------------------------------------------
\* pop_queued_checkpoint: pop_front of the queue of (w, k), if it has one.
HasQueued(q, w, k) == q[make_queue_key(w, k)] # <<>>

QueueFront(q, w, k) == Head(q[make_queue_key(w, k)])

\* Mutant of PopQueued: pop_back.
MutPopBack(q, w, k) ==
    IF HasQueued(q, w, k)
    THEN [q EXCEPT ![make_queue_key(w, k)] = SubSeq(@, 1, Len(@) - 1)]
    ELSE q

PopQueued(q, w, k) ==
    IF HasQueued(q, w, k)
    THEN [q EXCEPT ![make_queue_key(w, k)] = Tail(@)]
    ELSE q

\* Mutant of Snapshot: the owners are left out.
MutSnapshotWithoutOwners(s) ==
    [workflows |-> s.workflows, inputs |-> s.inputs, results |-> s.results,
     history |-> s.history, ownership |-> [w \in Workflow |-> None]]

\* snapshot() serializes five fields and leaves the queues out.
Snapshot(s) == [workflows |-> s.workflows, inputs |-> s.inputs,
                results |-> s.results, history |-> s.history,
                ownership |-> s.ownership]

\* restore() takes the five fields over and refills the queues with the
\* whole history.
RestoreCore(snap) ==
    [workflows |-> snap.workflows, inputs |-> snap.inputs,
     results |-> snap.results, history |-> snap.history,
     ownership |-> snap.ownership]

RestoreQueues(snap) == snap.history
=============================================================================
