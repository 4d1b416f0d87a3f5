--------------------------- MODULE WorkflowRuntime ---------------------------
(***************************************************************************)
(* An execution cluster running replicated workflows: every node applies   *)
(* the committed log to its WorkflowStateMachine and publishes the events, *)
(* an observer on every node spawns an execution of each started workflow, *)
(* and the executions meet at their checkpoints through the owner/wait     *)
(* pattern (src/workflow/runtime.rs, context.rs, replicated_var.rs).       *)
(*                                                                         *)
(* Raft is external here: one sequence `log` of committed entries that     *)
(* every node applies in order at its own pace, `pending` for proposals    *)
(* that are not committed yet.  A workflow function is the sequence        *)
(* Program[w] of the keys it checkpoints, which is all that its control    *)
(* needs when it is deterministic, as the documentation asks.              *)
(***************************************************************************)
EXTENDS WorkflowStateMachine, SequencesExt

CONSTANTS Program,         \* [Workflow -> Seq(Key)]: the set_checkpoint calls
          Registered,      \* [Node -> SUBSET Workflow]: functions in the registry
          BusCapacity,     \* events the broadcast channel of a node retains
          MaxAttempts,     \* max_retries of execute_owner_or_wait
          MaxOwnerChanges, \* bounds on what the environment does
          MaxSnapshots,
          MaxCrashes,
          MaxLost,
          MaxErrors

ASSUME RuntimeAssumption ==
    /\ Program \in [Workflow -> Seq(Key)]
    /\ Registered \in [Node -> SUBSET Workflow]
    /\ BusCapacity \in Nat \ {0}
    /\ MaxAttempts \in Nat \ {0}
    /\ {MaxOwnerChanges, MaxSnapshots, MaxCrashes, MaxLost, MaxErrors} \subseteq Nat

VARIABLES
    pending,  \* proposals handed to Raft and not committed
    log,      \* committed entries
    ref,      \* ghost: ref[i + 1] is the state after the first i entries
    up,       \* nodes that run
    inc,      \* incarnation of each node
    core,     \* per node: the snapshotted fields of the state machine
    queues,   \* per node: checkpoint_queues
    applied,  \* per node: number of log entries applied
    events,   \* per node: events published since it started
    obs,      \* per node: events the workflow observer has consumed
    exec,     \* per node and workflow: the spawned execution
    client,   \* per workflow: the caller of start_workflow
    env       \* what is left of the environment's bounds

raftVars == <<pending, log, ref>>
nodeVars == <<up, inc, core, queues, applied, events>>
taskVars == <<obs, exec, client>>
vars == <<pending, log, ref, up, inc, core, queues, applied, events,
          obs, exec, client, env>>

-----------------------------------------------------------------------------
\* The sync_id of a proposal: random in the code, so it is named by who waits
\* for it: the execution's step, or step 0 for start_workflow.
SyncId == [node : Node \cup {None}, inc : Nat, wf : Workflow, step : Nat]

Entry == [cmd : Command, sync : SyncId]

Pc == {"none", "spawned", "compute", "dequeue", "subscribe", "check",
       "await", "pop", "wait", "done", "exited"}

Exec == [pc : Pc, step : Nat, attempt : Nat, sub : Nat, res : {"Ok", "Err"},
         got : Seq(Value)]

NoExec == [pc |-> "none", step |-> 0, attempt |-> 0, sub |-> 0, res |-> "Ok",
           got |-> <<>>]

Spawned == [pc |-> "spawned", step |-> 1, attempt |-> 0, sub |-> 0, res |-> "Ok",
            got |-> <<>>]

Client == [pc : {"idle", "starting", "started", "waiting", "finished", "gone"},
           node : Node \cup {None}, sub : Nat]

Env == [owner : Nat, snapshot : Nat, crash : Nat, lost : Nat, error : Nat]

Init ==
    /\ pending = {}
    /\ log = <<>>
    /\ ref = <<NewCore>>
    /\ up = Node
    /\ inc = [n \in Node |-> 0]
    /\ core = [n \in Node |-> NewCore]
    /\ queues = [n \in Node |-> NewQueues]
    /\ applied = [n \in Node |-> 0]
    /\ events = [n \in Node |-> <<>>]
    /\ obs = [n \in Node |-> 0]
    /\ exec = [n \in Node |-> [w \in Workflow |-> NoExec]]
    /\ client = [w \in Workflow |-> [pc |-> "idle", node |-> None, sub |-> 0]]
    /\ env = [owner |-> MaxOwnerChanges, snapshot |-> MaxSnapshots,
              crash |-> MaxCrashes, lost |-> MaxLost, error |-> MaxErrors]

-----------------------------------------------------------------------------
(***************************************************************************)
(* The broadcast channel.  A receiver sees what was published after it     *)
(* subscribed; one that falls more than BusCapacity behind loses the       *)
(* oldest events (RecvError::Lagged) and goes on with the rest.            *)
(***************************************************************************)
Oldest(n, sub) ==
    IF sub + BusCapacity < Len(events[n]) THEN Len(events[n]) - BusCapacity ELSE sub

Visible(n, sub) == Oldest(n, sub) + 1 .. Len(events[n])

\* i is the first event after `sub` that the receiver reacts to.
FirstEvent(n, sub, i, Test(_)) ==
    /\ i \in Visible(n, sub)
    /\ Test(events[n][i])
    /\ \A j \in Visible(n, sub) : j < i => ~Test(events[n][j])

NoEvent(n, sub, Test(_)) == \A j \in Visible(n, sub) : ~Test(events[n][j])

-----------------------------------------------------------------------------
(***************************************************************************)
(* Raft, external: a pending proposal is committed, or lost when a leader  *)
(* steps down before replicating it.                                       *)
(***************************************************************************)
Propose(n, w, step, c) ==
    pending' = pending \cup
        {[cmd |-> c, sync |-> [node |-> n, inc |-> inc[n], wf |-> w, step |-> step]]}

Commit(e) ==
    /\ e \in pending
    /\ pending' = pending \ {e}
    /\ log' = Append(log, e)
    /\ ref' = Append(ref, ApplyCore(ref[Len(ref)], e.cmd))
    /\ UNCHANGED <<nodeVars, taskVars, env>>

Lose(e) ==
    /\ e \in pending
    /\ env.lost > 0
    /\ env' = [env EXCEPT !.lost = @ - 1]
    /\ pending' = pending \ {e}
    /\ UNCHANGED <<log, ref, nodeVars, taskVars>>

\* OwnerChange has no proposer in the repository; an operator's tool is assumed.
ChangeOwner(w, m) ==
    /\ env.owner > 0
    /\ client[w].pc \notin {"idle", "starting"}
    /\ env' = [env EXCEPT !.owner = @ - 1]
    /\ pending' = pending \cup
           {[cmd |-> [type |-> "OwnerChange", wf |-> w, owner |-> m],
             sync |-> [node |-> None, inc |-> env.owner, wf |-> w, step |-> 0]]}
    /\ UNCHANGED <<log, ref, nodeVars, taskVars>>

-----------------------------------------------------------------------------
(***************************************************************************)
(* The node: a committed entry is applied, its event published and the     *)
(* local waiter of its sync_id completed, all under the lock of the node.  *)
(***************************************************************************)
IsCheckpoint(w, step) == step <= Len(Program[w])

\* The oneshot channel of a proposal of this incarnation of the node fires.
Completed(n, e) == e.sync.node = n /\ e.sync.inc = inc[n]

\* Mutant of WakeExec: the waiter of WorkflowEnd's sync_id is woken, those of
\* the checkpoints are not.
MutWakeEndOnly(n, e, x) ==
    IF x.pc = "await" /\ e.sync.step = x.step /\ ~IsCheckpoint(e.sync.wf, x.step)
    THEN [x EXCEPT !.pc = "done"]
    ELSE x

WakeExec(n, e, x) ==
    IF x.pc = "await" /\ e.sync.step = x.step
    THEN [x EXCEPT !.pc = IF IsCheckpoint(e.sync.wf, x.step) THEN "pop" ELSE "done"]
    ELSE x

WakeClient(e, cl) ==
    IF cl.pc = "starting" /\ e.sync.step = 0
    THEN [cl EXCEPT !.pc = "started"]
    ELSE cl

\* Mutant of Apply: an entry of another incarnation's proposal is skipped.
MutApplySkipsForeign(n) ==
    /\ n \in up
    /\ applied[n] < Len(log)
    /\ LET e == log[applied[n] + 1]
           w == e.sync.wf
       IN  IF Completed(n, e)
           THEN /\ core' = [core EXCEPT ![n] = ApplyCore(@, e.cmd)]
                /\ queues' = [queues EXCEPT ![n] = ApplyQueues(@, e.cmd)]
                /\ events' = [events EXCEPT ![n] = Append(@, e.cmd)]
                /\ exec' = [exec EXCEPT ![n][w] = WakeExec(n, e, @)]
                /\ client' = [client EXCEPT ![w] = WakeClient(e, @)]
           ELSE UNCHANGED <<core, queues, events, exec, client>>
    /\ applied' = [applied EXCEPT ![n] = @ + 1]
    /\ UNCHANGED <<raftVars, up, inc, obs, env>>

Apply(n) ==
    /\ n \in up
    /\ applied[n] < Len(log)
    /\ LET e == log[applied[n] + 1]
           w == e.sync.wf
       IN  /\ core' = [core EXCEPT ![n] = ApplyCore(@, e.cmd)]
           /\ queues' = [queues EXCEPT ![n] = ApplyQueues(@, e.cmd)]
           /\ events' = [events EXCEPT ![n] = Append(@, e.cmd)]
           /\ IF Completed(n, e)
              THEN /\ exec' = [exec EXCEPT ![n][w] = WakeExec(n, e, @)]
                   /\ client' = [client EXCEPT ![w] = WakeClient(e, @)]
              ELSE UNCHANGED <<exec, client>>
    /\ applied' = [applied EXCEPT ![n] = @ + 1]
    /\ UNCHANGED <<raftVars, up, inc, obs, env>>

\* on_ready restores a snapshot sent by m: nothing is published and no
\* proposal is completed for the entries that are skipped.
InstallSnapshot(n, m) ==
    /\ {n, m} \subseteq up
    /\ applied[n] < applied[m]
    /\ env.snapshot > 0
    /\ env' = [env EXCEPT !.snapshot = @ - 1]
    /\ core' = [core EXCEPT ![n] = RestoreCore(Snapshot(core[m]))]
    /\ queues' = [queues EXCEPT ![n] = RestoreQueues(Snapshot(core[m]))]
    /\ applied' = [applied EXCEPT ![n] = applied[m]]
    /\ UNCHANGED <<raftVars, up, inc, events, taskVars>>

\* Mutant of Crash: the transient queues outlive the node.
MutCrashKeepsQueues(n) ==
    /\ n \in up
    /\ env.crash > 0
    /\ env' = [env EXCEPT !.crash = @ - 1]
    /\ up' = up \ {n}
    /\ inc' = [inc EXCEPT ![n] = @ + 1]
    /\ core' = [core EXCEPT ![n] = NewCore]
    /\ applied' = [applied EXCEPT ![n] = 0]
    /\ events' = [events EXCEPT ![n] = <<>>]
    /\ obs' = [obs EXCEPT ![n] = 0]
    /\ exec' = [exec EXCEPT ![n] = [w \in Workflow |-> NoExec]]
    /\ client' = [w \in Workflow |->
                    IF client[w].node = n THEN [client[w] EXCEPT !.pc = "gone", !.sub = 0]
                                          ELSE client[w]]
    /\ UNCHANGED <<raftVars, queues>>

\* A node with in-memory storage stops and loses everything, and comes back
\* empty: it applies the log from the start, or from a snapshot.
Crash(n) ==
    /\ n \in up
    /\ env.crash > 0
    /\ env' = [env EXCEPT !.crash = @ - 1]
    /\ up' = up \ {n}
    /\ inc' = [inc EXCEPT ![n] = @ + 1]
    /\ core' = [core EXCEPT ![n] = NewCore]
    /\ queues' = [queues EXCEPT ![n] = NewQueues]
    /\ applied' = [applied EXCEPT ![n] = 0]
    /\ events' = [events EXCEPT ![n] = <<>>]
    /\ obs' = [obs EXCEPT ![n] = 0]
    /\ exec' = [exec EXCEPT ![n] = [w \in Workflow |-> NoExec]]
    /\ client' = [w \in Workflow |->
                    IF client[w].node = n THEN [client[w] EXCEPT !.pc = "gone", !.sub = 0]
                                          ELSE client[w]]
    /\ UNCHANGED raftVars

Restart(n) ==
    /\ n \notin up
    /\ up' = up \cup {n}
    /\ UNCHANGED <<raftVars, inc, core, queues, applied, events, taskVars, env>>

-----------------------------------------------------------------------------
(***************************************************************************)
(* start_workflow and wait_for_completion.  Ids are fresh, as those        *)
(* workflow_service generates: each is started once.                       *)
(***************************************************************************)
StartWorkflow(n, w) ==
    /\ n \in up
    /\ client[w].pc = "idle"
    /\ client' = [client EXCEPT ![w] = [pc |-> "starting", node |-> n, sub |-> 0]]
    /\ Propose(n, w, 0, [type |-> "WorkflowStart", wf |-> w, owner |-> n])
    /\ UNCHANGED <<log, ref, nodeVars, obs, exec, env>>

\* The handle is returned first; the caller subscribes when it waits.
ClientSubscribe(w) ==
    /\ client[w].pc = "started"
    /\ client' = [client EXCEPT ![w] =
                     [@ EXCEPT !.pc = "waiting", !.sub = Len(events[client[w].node])]]
    /\ UNCHANGED <<raftVars, nodeVars, obs, exec, env>>

IsEnd(w, e) == e.type = "WorkflowEnd" /\ e.wf = w

ClientReceive(w) ==
    /\ client[w].pc = "waiting"
    /\ \E i \in Visible(client[w].node, client[w].sub) :
           IsEnd(w, events[client[w].node][i])
    /\ client' = [client EXCEPT ![w] = [@ EXCEPT !.pc = "finished", !.sub = 0]]
    /\ UNCHANGED <<raftVars, nodeVars, obs, exec, env>>

-----------------------------------------------------------------------------
(***************************************************************************)
(* run_workflow_observer and the start of execute_workflow.                *)
(***************************************************************************)
IsStart(e) == e.type = "WorkflowStart"

\* Where an execution stands once it has reached call number `step`: the
\* value of a checkpoint is computed first; the end is owner-or-wait at once.
EnterStep(w, step) == IF IsCheckpoint(w, step) THEN "compute" ELSE "subscribe"

Observe(n) ==
    /\ n \in up
    /\ \E i \in Visible(n, obs[n]) :
           /\ FirstEvent(n, obs[n], i, IsStart)
           /\ obs' = [obs EXCEPT ![n] = i]
           /\ exec' = [exec EXCEPT ![n][events[n][i].wf] = Spawned]
    /\ UNCHANGED <<raftVars, nodeVars, client, env>>

\* The execution returns at once when its function is not registered or its
\* input is not (or no longer) in the state machine.
Launch(n, w) ==
    /\ exec[n][w].pc = "spawned"
    /\ exec' = [exec EXCEPT ![n][w].pc =
                   IF w \in Registered[n] /\ w \in core[n].inputs
                   THEN EnterStep(w, exec[n][w].step) ELSE "exited"]
    /\ UNCHANGED <<raftVars, nodeVars, obs, client, env>>

-----------------------------------------------------------------------------
(***************************************************************************)
(* set_checkpoint (for the checkpoints) and the end of execute_workflow    *)
(* (for the step after the last), both through execute_owner_or_wait.      *)
(***************************************************************************)
MyValue(n, w, x) == [by |-> n, inc |-> inc[n], wf |-> w, step |-> x.step]

\* set_checkpoint returns v and the workflow goes on.
Return(w, x, v) ==
    [pc |-> EnterStep(w, x.step + 1), step |-> x.step + 1, attempt |-> 0,
     sub |-> 0, res |-> x.res, got |-> Append(x.got, v)]

\* An error of set_checkpoint ends the function, and the error becomes the
\* result; an error at the end is logged and the execution is over.
Fail(w, x) ==
    IF IsCheckpoint(w, x.step)
    THEN [pc |-> "subscribe", step |-> Len(Program[w]) + 1, attempt |-> 0,
          sub |-> 0, res |-> "Err", got |-> x.got]
    ELSE [x EXCEPT !.pc = "exited"]

\* The next round of the retry loop, or Err(Timeout) when there is none.
Retry(w, x) ==
    IF x.attempt + 1 < MaxAttempts
    THEN [pc |-> "subscribe", step |-> x.step, attempt |-> x.attempt + 1,
          sub |-> 0, res |-> x.res, got |-> x.got]
    ELSE Fail(w, x)

SetExec(n, w, x) == exec' = [exec EXCEPT ![n][w] = x]

\* ReplicatedVar::with_computation awaits the closure before anything else.
Compute(n, w) ==
    /\ exec[n][w].pc = "compute"
    /\ SetExec(n, w, [exec[n][w] EXCEPT !.pc = "dequeue"])
    /\ UNCHANGED <<raftVars, nodeVars, obs, client, env>>

TryDequeue(n, w) ==
    LET x == exec[n][w]
        k == Program[w][x.step]
    IN  /\ x.pc = "dequeue"
        /\ IF HasQueued(queues[n], w, k)
           THEN /\ SetExec(n, w, Return(w, x, QueueFront(queues[n], w, k)))
                /\ queues' = [queues EXCEPT ![n] = PopQueued(@, w, k)]
           ELSE /\ SetExec(n, w, [x EXCEPT !.pc = "subscribe"])
                /\ UNCHANGED queues
        /\ UNCHANGED <<raftVars, up, inc, core, applied, events, obs, client, env>>

Subscribe(n, w) ==
    /\ exec[n][w].pc = "subscribe"
    /\ SetExec(n, w, [exec[n][w] EXCEPT !.pc = "check", !.sub = Len(events[n])])
    /\ UNCHANGED <<raftVars, nodeVars, obs, client, env>>

\* Mutant of IsOwner: every node proposes.
MutEveryoneOwns(n, w) == TRUE

IsOwner(n, w) == core[n].ownership[w] \in {n, None}

StepCommand(n, w, x) ==
    IF IsCheckpoint(w, x.step)
    THEN [type |-> "SetCheckpoint", wf |-> w, key |-> Program[w][x.step],
          value |-> MyValue(n, w, x)]
    ELSE [type |-> "WorkflowEnd", wf |-> w, result |-> [res |-> x.res, got |-> x.got]]

OwnerPropose(n, w) ==
    LET x == exec[n][w]
    IN  /\ x.pc = "check"
        /\ IsOwner(n, w)
        /\ Propose(n, w, x.step, StepCommand(n, w, x))
        /\ SetExec(n, w, [x EXCEPT !.pc = "await", !.sub = 0])
        /\ UNCHANGED <<log, ref, nodeVars, obs, client, env>>

\* propose() finds no leader, or its forwarding fails: before the leader has
\* the proposal, or after, when only the reply is lost.
ProposeError(n, w) ==
    /\ exec[n][w].pc = "check"
    /\ IsOwner(n, w)
    /\ env.error > 0
    /\ env' = [env EXCEPT !.error = @ - 1]
    /\ \/ UNCHANGED pending
       \/ Propose(n, w, exec[n][w].step, StepCommand(n, w, exec[n][w]))
    /\ SetExec(n, w, Fail(w, exec[n][w]))
    /\ UNCHANGED <<log, ref, nodeVars, obs, client>>

\* The owner pops "the value we just enqueued" and returns its own.
PopOwn(n, w) ==
    LET x == exec[n][w]
    IN  /\ x.pc = "pop"
        /\ queues' = [queues EXCEPT ![n] = PopQueued(@, w, Program[w][x.step])]
        /\ SetExec(n, w, Return(w, x, MyValue(n, w, x)))
        /\ UNCHANGED <<raftVars, up, inc, core, applied, events, obs, client, env>>

BecomeWaiter(n, w) ==
    /\ exec[n][w].pc = "check"
    /\ ~IsOwner(n, w)
    /\ SetExec(n, w, [exec[n][w] EXCEPT !.pc = "wait"])
    /\ UNCHANGED <<raftVars, nodeVars, obs, client, env>>

\* Mutant of Awaited: the key of a CheckpointSet event is not compared.
MutAwaitedAnyKey(w, x, e) ==
    /\ e.wf = w
    /\ \/ e.type \in {"OwnerChange", "SetCheckpoint"}
       \/ ~IsCheckpoint(w, x.step) /\ e.type = "WorkflowEnd"

\* The event a waiter of this step reacts to, and its change of ownership.
Awaited(w, x, e) ==
    /\ e.wf = w
    /\ \/ e.type = "OwnerChange"
       \/ IsCheckpoint(w, x.step) /\ e.type = "SetCheckpoint" /\ e.key = Program[w][x.step]
       \/ ~IsCheckpoint(w, x.step) /\ e.type = "WorkflowEnd"

\* The waiter takes the value from the event and leaves the queue alone.
Receive(n, w) ==
    LET x == exec[n][w]
        Test(e) == Awaited(w, x, e)
    IN  /\ x.pc = "wait"
        /\ \E i \in Visible(n, x.sub) :
               /\ FirstEvent(n, x.sub, i, Test)
               /\ LET e == events[n][i]
                  IN  SetExec(n, w,
                        CASE e.type = "OwnerChange"   -> Retry(w, x)
                          [] e.type = "SetCheckpoint" -> Return(w, x, e.value)
                          [] e.type = "WorkflowEnd"   -> [x EXCEPT !.pc = "done", !.sub = 0])
        /\ UNCHANGED <<raftVars, nodeVars, obs, client, env>>

\* Mutant of Timeout: the waiter takes over without being the owner.
MutTimeoutTakesOver(n, w) ==
    LET x == exec[n][w]
        Test(e) == Awaited(w, x, e)
    IN  /\ x.pc = "wait"
        /\ x.attempt < MaxAttempts - 1
        /\ NoEvent(n, x.sub, Test)
        /\ Propose(n, w, x.step, StepCommand(n, w, x))
        /\ SetExec(n, w, [x EXCEPT !.pc = "await", !.sub = 0])
        /\ UNCHANGED <<log, ref, nodeVars, obs, client, env>>

\* Five seconds pass; the last attempt waits without a limit.
Timeout(n, w) ==
    LET x == exec[n][w]
        Test(e) == Awaited(w, x, e)
    IN  /\ x.pc = "wait"
        /\ x.attempt < MaxAttempts - 1
        /\ NoEvent(n, x.sub, Test)
        /\ SetExec(n, w, Retry(w, x))
        /\ UNCHANGED <<raftVars, nodeVars, obs, client, env>>

-----------------------------------------------------------------------------
ExecStep(n, w) ==
    \/ Launch(n, w)
    \/ Compute(n, w)
    \/ TryDequeue(n, w)
    \/ Subscribe(n, w)
    \/ OwnerPropose(n, w)
    \/ PopOwn(n, w)
    \/ BecomeWaiter(n, w)
    \/ Receive(n, w)
    \/ Timeout(n, w)

ClientStep(w) == ClientSubscribe(w) \/ ClientReceive(w)

Next ==
    \/ \E e \in pending : Commit(e) \/ Lose(e)
    \/ \E n \in Node : Apply(n) \/ Observe(n) \/ Crash(n) \/ Restart(n)
    \/ \E n, m \in Node : InstallSnapshot(n, m)
    \/ \E n \in Node, w \in Workflow :
           StartWorkflow(n, w) \/ ExecStep(n, w) \/ ProposeError(n, w)
    \/ \E w \in Workflow : ClientStep(w)
    \/ \E w \in Workflow, m \in Node : ChangeOwner(w, m)

Spec == Init /\ [][Next]_vars

\* No node has stopped.
Intact == \A n \in Node : inc[n] = 0

\* Every task that can run is scheduled, and the group commits what is proposed
\* while no node has stopped: the first send to one that has ends the event
\* loop of the leader (RaftGroup), and nothing is owed after that.  The
\* environment owes nothing.
Fairness ==
    /\ WF_vars(Intact /\ \E e \in pending : Commit(e))
    /\ \A n \in Node : WF_vars(Apply(n)) /\ WF_vars(Observe(n))
    /\ \A n \in Node, w \in Workflow : WF_vars(ExecStep(n, w))
    /\ \A w \in Workflow : WF_vars(ClientStep(w))

FairSpec == Spec /\ Fairness

-----------------------------------------------------------------------------
(***************************************************************************)
(* Properties                                                              *)
(***************************************************************************)

\* Every variable has its type: the state machine of each node, the positions
\* of the readers of its events and the local state of its tasks.
TypeOK ==
    /\ pending \subseteq Entry
    /\ log \in Seq(Entry)
    /\ ref \in Seq(Core) /\ ref # <<>>
    /\ up \subseteq Node
    /\ inc \in [Node -> Nat]
    /\ core \in [Node -> Core]
    /\ queues \in [Node -> Queues]
    /\ applied \in [Node -> Nat]
    /\ events \in [Node -> Seq(Command)]
    /\ obs \in [Node -> Nat]
    /\ exec \in [Node -> [Workflow -> Exec]]
    /\ client \in [Workflow -> Client]
    /\ \A w \in Workflow : client[w].pc # "idle" => client[w].node \in Node
    /\ env \in Env

\* The call an execution stands at is one of its program's: a value is only
\* computed, dequeued or popped for a checkpoint the program has.
StepInProgram ==
    \A n \in Node, w \in Workflow :
        LET x == exec[n][w]
        IN  /\ x.pc # "none" => x.step > 0
            /\ x.pc \in {"compute", "dequeue", "pop"} => IsCheckpoint(w, x.step)

\* The state machine is deterministic: two nodes that have applied the same
\* number of entries hold the same workflows, inputs, results, history and
\* owners, whether they applied the entries, were restored from a snapshot of
\* another node, or started over after a crash.
StateAgreement ==
    \A n, m \in Node : applied[n] = applied[m] => core[n] = core[m]

\* Why: each node holds the state the entries it has applied lead to.
ReplicasFollowLog ==
    /\ Len(ref) = Len(log) + 1
    /\ \A i \in 1..Len(log) : ref[i + 1] = ApplyCore(ref[i], log[i].cmd)
    /\ ref[1] = NewCore
    /\ \A n \in Node : applied[n] <= Len(log) /\ core[n] = ref[applied[n] + 1]

\* The last elements of h are those of q.
EndsWith(h, q) ==
    /\ Len(q) <= Len(h)
    /\ \A i \in 1..Len(q) : q[i] = h[Len(h) - Len(q) + i]

\* The transient queue of a checkpoint is what is left of its history: the
\* pops of executions, the pushes and clean-ups of apply() and the refill of
\* restore() never let it hold a value the history does not end with.
QueueIsSuffixOfHistory ==
    \A n \in Node, qk \in QueueKey : EndsWith(core[n].history[qk], queues[n][qk])

\* Deterministic replicated execution: the executions of a workflow on any
\* two nodes see the same values at the checkpoints both have passed.
ExecutionAgreement ==
    \A n, m \in Node, w \in Workflow :
        \/ IsPrefix(exec[n][w].got, exec[m][w].got)
        \/ IsPrefix(exec[m][w].got, exec[n][w].got)

\* Once a workflow is completed its checkpoints are gone from every replica:
\* no queue and no history of it is left behind, or comes back.
CleanedUpOnCompletion ==
    \A n \in Node, w \in Workflow, k \in Key :
        core[n].workflows[w] = "Completed" =>
            /\ core[n].history[make_queue_key(w, k)] = <<>>
            /\ queues[n][make_queue_key(w, k)] = <<>>

\* The state after the last committed entry.
Latest == ref[Len(ref)]

\* The result of a completed workflow, once committed, is never replaced.
ResultIsFinal ==
    [][\A w \in Workflow : Latest.workflows[w] = "Completed" =>
           ref'[Len(ref')].results[w] = Latest.results[w]]_vars

\* A workflow whose start was proposed is completed unless a node stops: from
\* the start to WorkflowEnd no wait of the owner, for its own proposals or in
\* its own queue, lasts forever, also when the executions of the followers
\* hang, as they may.
OwnerCompletes ==
    \A w \in Workflow :
        client[w].pc = "starting" ~> Latest.workflows[w] = "Completed" \/ ~Intact

\* Every execution that was spawned gets to its end on every node.
ExecutionsFinish ==
    \A n \in Node, w \in Workflow :
        exec[n][w].pc = "spawned" ~> exec[n][w].pc \in {"done", "exited"}

-----------------------------------------------------------------------------
(***************************************************************************)
(* What an execution cluster implements.                                   *)
(***************************************************************************)
\* The checkpoint values of w in the sequence l of entries, in order.
CheckpointValues(l, w) ==
    LET upTo[k \in 0..Len(l)] ==
            IF k = 0 THEN <<>>
            ELSE IF l[k].cmd.type = "SetCheckpoint" /\ l[k].cmd.wf = w
                 THEN Append(upTo[k - 1], l[k].cmd.value)
                 ELSE upTo[k - 1]
    IN  upTo[Len(l)]

\* What is decided of w: the values in the log.
Decided(w) == CheckpointValues(log, w)

Outcome(w) ==
    IF Latest.workflows[w] = "Completed" THEN Latest.results[w].got ELSE None

\* The values the programs can compute within the bound on crashes.
Computable ==
    UNION {[by : Node, inc : 0..MaxCrashes, wf : {w}, step : DOMAIN Program[w]]
              : w \in Workflow}

Durable == INSTANCE DurableExecution
    WITH Val     <- Computable,
         Steps   <- [w \in Workflow |-> Len(Program[w])],
         decided <- [w \in Workflow |-> Decided(w)],
         seen    <- [n \in Node |-> [w \in Workflow |-> exec[n][w].got]],
         outcome <- [w \in Workflow |-> Outcome(w)]

\* The cluster implements durable execution: each checkpoint has one value,
\* all executions see it, and the committed result rests on these values.
ImplementsDurableExecution == Durable!Spec
=============================================================================
