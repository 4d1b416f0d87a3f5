------------------------ MODULE WorkflowRuntimeProofs ------------------------
(* Proofs about WorkflowStateMachine and WorkflowRuntime. *)
EXTENDS WorkflowRuntime, WellFoundedInduction, TLAPS

-----------------------------------------------------------------------------
(* The operators of the state machine. *)

\* The composite key of a workflow and a key names a queue.
LEMMA QueueKeyType ==
    ASSUME NEW w \in Workflow, NEW k \in Key
    PROVE  make_queue_key(w, k) \in QueueKey
  BY DEF QueueKey

\* The maps of a new state machine are well typed.
LEMMA NewType == NewQueues \in Queues /\ NewCore \in Core
  BY DEF NewQueues, Queues, NewCore, Core

\* A member of Command is one of the four, and its type says which.
LEMMA CommandCases ==
    ASSUME NEW c \in Command
    PROVE  /\ c.wf \in Workflow
           /\ \/ c \in StartCommand /\ c.type = "WorkflowStart"
              \/ c \in EndCommand /\ c.type = "WorkflowEnd"
              \/ c \in SetCommand /\ c.type = "SetCheckpoint"
              \/ c \in OwnerCommand /\ c.type = "OwnerChange"
  BY DEF Command, StartCommand, EndCommand, SetCommand, OwnerCommand

\* apply() keeps the queues, and the history, well typed.
LEMMA ApplyQueuesType ==
    ASSUME NEW q \in Queues, NEW c \in Command
    PROVE  ApplyQueues(q, c) \in Queues
<1>1. CASE c \in SetCommand /\ c.type = "SetCheckpoint"
  <2>1. c.key \in Key /\ c.value \in Value /\ c.wf \in Workflow
    BY <1>1 DEF SetCommand
  <2>2. make_queue_key(c.wf, c.key) \in QueueKey
    BY <2>1, QueueKeyType
  <2>3. Push(q, c) \in Queues
    BY <2>1, <2>2 DEF Push, Queues
  <2>4. QED BY <1>1, <2>3 DEF ApplyQueues
<1>2. CASE c.type = "WorkflowEnd"
  BY <1>2 DEF ApplyQueues, Retain, Queues
<1>3. CASE c.type \in {"WorkflowStart", "OwnerChange"}
  BY <1>3 DEF ApplyQueues
<1>4. QED BY <1>1, <1>2, <1>3, CommandCases

\* apply() keeps the snapshotted fields well typed.
LEMMA ApplyCoreType ==
    ASSUME NEW s \in Core, NEW c \in Command
    PROVE  ApplyCore(s, c) \in Core
<1>1. s.history \in Queues /\ ApplyQueues(s.history, c) \in Queues
  BY ApplyQueuesType DEF Core, Queues
<1>2. CASE c \in StartCommand /\ c.type = "WorkflowStart"
  BY <1>2 DEF ApplyCore, ApplyStart, StartCommand, Core
<1>3. CASE c \in EndCommand /\ c.type = "WorkflowEnd"
  BY <1>1, <1>3 DEF ApplyCore, ApplyEnd, EndCommand, Core, Queues
<1>4. CASE c \in SetCommand /\ c.type = "SetCheckpoint"
  BY <1>1, <1>4 DEF ApplyCore, ApplySet, Core, Queues
<1>5. CASE c \in OwnerCommand /\ c.type = "OwnerChange"
  BY <1>5 DEF ApplyCore, ApplyOwner, OwnerCommand, Core
<1>6. QED BY <1>2, <1>3, <1>4, <1>5, CommandCases

\* pop_queued_checkpoint keeps the queues well typed, and what it pops is a value.
LEMMA PopType ==
    ASSUME NEW q \in Queues, NEW w \in Workflow, NEW k \in Key
    PROVE  /\ PopQueued(q, w, k) \in Queues
           /\ HasQueued(q, w, k) => QueueFront(q, w, k) \in Value
  BY QueueKeyType DEF PopQueued, HasQueued, QueueFront, Queues

\* A restored state machine is well typed and has the snapshot's fields.
LEMMA RestoreType ==
    ASSUME NEW s \in Core
    PROVE  /\ RestoreCore(Snapshot(s)) = s
           /\ RestoreQueues(Snapshot(s)) = s.history
           /\ RestoreQueues(Snapshot(s)) \in Queues
  BY DEF RestoreCore, RestoreQueues, Snapshot, Core, Queues

-----------------------------------------------------------------------------
(* The local states of an execution. *)

\* What an execution's state may be: the conjunct of StepInProgram for one x.
ExecOK(w, x) ==
    /\ x \in Exec
    /\ x.pc # "none" => x.step > 0
    /\ x.pc \in {"compute", "dequeue", "pop"} => IsCheckpoint(w, x.step)

\* The length of a program is a number and its calls are keys.
LEMMA ProgramType ==
    ASSUME NEW w \in Workflow
    PROVE  /\ Len(Program[w]) \in Nat
           /\ \A i \in Nat : i > 0 /\ IsCheckpoint(w, i) => Program[w][i] \in Key
  BY RuntimeAssumption DEF IsCheckpoint

\* The steps of an execution lead from well-formed states to such states.
LEMMA ExecStepsOK ==
    ASSUME NEW w \in Workflow, NEW x, ExecOK(w, x), x.pc # "none"
    PROVE  /\ \A v \in Value : ExecOK(w, Return(w, x, v))
           /\ ExecOK(w, Fail(w, x))
           /\ ExecOK(w, Retry(w, x))
<1>1. /\ x \in Exec
      /\ x.step \in Nat /\ x.step > 0 /\ x.attempt \in Nat
      /\ x.res \in {"Ok", "Err"} /\ x.got \in Seq(Value)
      /\ Len(Program[w]) \in Nat
  BY ProgramType DEF ExecOK, Exec
<1>2. ASSUME NEW v \in Value PROVE ExecOK(w, Return(w, x, v))
  <2>1. EnterStep(w, x.step + 1) \in Pc
    BY DEF EnterStep, Pc
  <2>2. Return(w, x, v) \in Exec
    BY <1>1, <2>1 DEF Return, Exec
  <2>3. QED BY <1>1, <2>2 DEF ExecOK, Return, EnterStep
<1>3. ExecOK(w, Fail(w, x))
  <2>1. CASE IsCheckpoint(w, x.step)
    BY <1>1, <2>1 DEF ExecOK, Fail, Exec, Pc
  <2>2. CASE ~IsCheckpoint(w, x.step)
    BY <1>1, <2>2 DEF ExecOK, Fail, Exec, Pc
  <2>3. QED BY <2>1, <2>2
<1>4. ExecOK(w, Retry(w, x))
  <2>1. CASE x.attempt + 1 < MaxAttempts
    BY <1>1, <2>1 DEF ExecOK, Retry, Exec, Pc
  <2>2. CASE ~(x.attempt + 1 < MaxAttempts)
    BY <1>3, <2>2 DEF Retry
  <2>3. QED BY <2>1, <2>2
<1>5. QED BY <1>2, <1>3, <1>4

\* The command an owner proposes at a step is well typed.
LEMMA StepCommandType ==
    ASSUME NEW n \in Node, NEW w \in Workflow, NEW x, ExecOK(w, x),
           x.pc # "none", inc \in [Node -> Nat]
    PROVE  StepCommand(n, w, x) \in Command
<1>1. x \in Exec /\ x.step \in Nat /\ x.step > 0
  BY DEF ExecOK, Exec
<1>2. MyValue(n, w, x) \in Value
  BY <1>1 DEF MyValue, Value
<1>3. CASE IsCheckpoint(w, x.step)
  <2>1. Program[w][x.step] \in Key
    BY <1>1, <1>3, ProgramType
  <2>2. StepCommand(n, w, x) \in SetCommand
    BY <1>2, <1>3, <2>1 DEF StepCommand, SetCommand
  <2>3. QED BY <2>2 DEF Command
<1>4. CASE ~IsCheckpoint(w, x.step)
  <2>1. StepCommand(n, w, x) \in EndCommand
    BY <1>1, <1>4 DEF StepCommand, EndCommand, Result, Exec
  <2>2. QED BY <2>1 DEF Command
<1>5. QED BY <1>3, <1>4

-----------------------------------------------------------------------------
(* Type correctness. *)

TypeInv == TypeOK /\ StepInProgram

\* The executions of a state that satisfies TypeInv are well formed.
LEMMA TypeInvExec ==
    ASSUME TypeInv, NEW n \in Node, NEW w \in Workflow
    PROVE  ExecOK(w, exec[n][w])
  BY DEF TypeInv, TypeOK, StepInProgram, ExecOK

\* Replacing the state of one execution by a well-formed one.
LEMMA SetExecOK ==
    ASSUME TypeInv, NEW n \in Node, NEW w \in Workflow, NEW y, ExecOK(w, y),
           SetExec(n, w, y)
    PROVE  /\ exec' \in [Node -> [Workflow -> Exec]]
           /\ StepInProgram'
<1>1. exec \in [Node -> [Workflow -> Exec]] /\ y \in Exec
  BY DEF TypeInv, TypeOK, ExecOK
<1>2. exec' = [exec EXCEPT ![n] = [exec[n] EXCEPT ![w] = y]]
  BY <1>1 DEF SetExec
<1>3. exec' \in [Node -> [Workflow -> Exec]]
  BY <1>1, <1>2
<1>4. \A i \in Node, v \in Workflow : ExecOK(v, exec'[i][v])
  <2> SUFFICES ASSUME NEW i \in Node, NEW v \in Workflow
               PROVE  ExecOK(v, exec'[i][v])
    OBVIOUS
  <2>1. exec'[i][v] = IF i = n /\ v = w THEN y ELSE exec[i][v]
    BY <1>1, <1>2
  <2>2. QED BY <2>1, TypeInvExec
<1>5. QED BY <1>3, <1>4 DEF StepInProgram, ExecOK, IsCheckpoint

\* A proposal of a well-typed command is a well-typed entry.
LEMMA ProposeType ==
    ASSUME TypeInv, NEW n \in Node, NEW w \in Workflow, NEW step \in Nat,
           NEW c \in Command, Propose(n, w, step, c)
    PROVE  pending' \subseteq Entry
  BY DEF TypeInv, TypeOK, Propose, Entry, SyncId

\* The events a receiver may see are events of the node.
LEMMA VisibleType ==
    ASSUME TypeInv, NEW n \in Node, NEW sub \in Nat, NEW i \in Visible(n, sub)
    PROVE  i \in Nat /\ i \in 1..Len(events[n]) /\ events[n][i] \in Command
<1>1. events[n] \in Seq(Command) /\ Len(events[n]) \in Nat /\ BusCapacity \in Nat
  BY RuntimeAssumption DEF TypeInv, TypeOK
<1>2. Oldest(n, sub) \in Nat
  BY <1>1 DEF Oldest
<1>3. i \in 1..Len(events[n])
  BY <1>1, <1>2 DEF Visible
<1>4. QED BY <1>1, <1>3

\* Initially every variable has its type.
LEMMA InitType == Init => TypeInv
<1> SUFFICES ASSUME Init PROVE TypeInv
  OBVIOUS
<1>1. NoExec \in Exec
  BY DEF NoExec, Exec, Pc
<1>2. /\ {} \subseteq Entry
      /\ <<>> \in Seq(Entry) /\ <<>> \in Seq(Command)
      /\ <<NewCore>> \in Seq(Core)
  BY NewType
<1>3. /\ client \in [Workflow -> Client]
      /\ \A w \in Workflow : client[w].pc # "idle" => client[w].node \in Node
  BY DEF Init, Client
<1>4. env \in Env
  BY RuntimeAssumption DEF Init, Env
<1>5. TypeOK
  BY <1>1, <1>2, <1>3, <1>4, NewType DEF Init, TypeOK
<1>6. StepInProgram
  BY DEF Init, StepInProgram, NoExec
<1>7. QED BY <1>5, <1>6 DEF TypeInv

\* Spending one unit of a bound on the environment.
LEMMA EnvType ==
    ASSUME NEW v \in Env
    PROVE  /\ v.owner > 0 => [v EXCEPT !.owner = @ - 1] \in Env
           /\ v.snapshot > 0 => [v EXCEPT !.snapshot = @ - 1] \in Env
           /\ v.crash > 0 => [v EXCEPT !.crash = @ - 1] \in Env
           /\ v.lost > 0 => [v EXCEPT !.lost = @ - 1] \in Env
           /\ v.error > 0 => [v EXCEPT !.error = @ - 1] \in Env
           /\ v.owner \in Nat
  BY DEF Env

\* What TypeInv says of each variable, for the leaves that need a few of them.
LEMMA TypeInvFacts ==
    ASSUME TypeInv
    PROVE  /\ pending \subseteq Entry /\ log \in Seq(Entry)
           /\ core \in [Node -> Core] /\ queues \in [Node -> Queues]
           /\ applied \in [Node -> Nat] /\ events \in [Node -> Seq(Command)]
           /\ exec \in [Node -> [Workflow -> Exec]]
           /\ client \in [Workflow -> Client] /\ env \in Env
           /\ \A w \in Workflow : client[w].pc # "idle" => client[w].node \in Node
  BY DEF TypeInv, TypeOK

\* What a caller's state may be, and the replacement of the state of one caller.
ClientOK(cl) == cl \in Client /\ (cl.pc # "idle" => cl.node \in Node)

LEMMA SetClientOK ==
    ASSUME TypeInv, NEW w \in Workflow, NEW cl, ClientOK(cl),
           client' = [client EXCEPT ![w] = cl]
    PROVE  /\ client' \in [Workflow -> Client]
           /\ \A v \in Workflow : client'[v].pc # "idle" => client'[v].node \in Node
  BY TypeInvFacts DEF ClientOK

\* Steps of the Raft layer and of the environment keep the types.
LEMMA RaftStepType ==
    ASSUME TypeInv
    PROVE  /\ \A e \in pending : Commit(e) \/ Lose(e) => TypeInv'
           /\ \A w \in Workflow, m \in Node : ChangeOwner(w, m) => TypeInv'
<1> USE DEF nodeVars, taskVars
<1>1. ASSUME NEW e \in pending, Commit(e) PROVE TypeInv'
  <2>1. e \in Entry /\ e.cmd \in Command
    BY DEF TypeInv, TypeOK, Entry
  <2>2. ref[Len(ref)] \in Core
    BY DEF TypeInv, TypeOK
  <2>3. ApplyCore(ref[Len(ref)], e.cmd) \in Core
    BY <2>1, <2>2, ApplyCoreType
  <2>4. ref' \in Seq(Core) /\ ref' # <<>> /\ log' \in Seq(Entry) /\ pending' \subseteq Entry
    <3>1. ref \in Seq(Core) /\ ref' = Append(ref, ApplyCore(ref[Len(ref)], e.cmd))
      BY <1>1 DEF Commit, TypeInv, TypeOK
    <3>2. ref' \in Seq(Core) /\ Len(ref') > 0
      BY <2>3, <3>1
    <3>3. log' \in Seq(Entry) /\ pending' \subseteq Entry
      BY <1>1, <2>1, TypeInvFacts DEF Commit
    <3>4. QED BY <3>2, <3>3
  <2>5. QED BY <1>1, <2>4 DEF Commit, TypeInv, TypeOK, StepInProgram
<1>2. ASSUME NEW e \in pending, Lose(e) PROVE TypeInv'
  <2>1. env' \in Env
    BY <1>2, EnvType, TypeInvFacts DEF Lose
  <2>2. QED BY <1>2, <2>1 DEF Lose, TypeInv, TypeOK, StepInProgram
<1>3. ASSUME NEW w \in Workflow, NEW m \in Node, ChangeOwner(w, m) PROVE TypeInv'
  <2>1. env' \in Env /\ env.owner \in Nat
    BY <1>3, EnvType, TypeInvFacts DEF ChangeOwner
  <2>2. [type |-> "OwnerChange", wf |-> w, owner |-> m] \in Command
    BY DEF Command, OwnerCommand
  <2>3. pending' \subseteq Entry
    <3> DEFINE e == [cmd |-> [type |-> "OwnerChange", wf |-> w, owner |-> m],
                     sync |-> [node |-> None, inc |-> env.owner, wf |-> w, step |-> 0]]
    <3>1. e \in Entry
      BY <2>1, <2>2 DEF Entry, SyncId
    <3>2. pending' = pending \cup {e}
      BY <1>3 DEF ChangeOwner
    <3>3. QED BY <3>1, <3>2, TypeInvFacts
  <2>4. QED BY <1>3, <2>1, <2>3 DEF ChangeOwner, TypeInv, TypeOK, StepInProgram
<1>4. QED BY <1>1, <1>2, <1>3

\* Steps of a node keep the types.
LEMMA NodeStepType ==
    ASSUME TypeInv, NEW n \in Node
    PROVE  /\ Apply(n) => TypeInv'
           /\ \A m \in Node : InstallSnapshot(n, m) => TypeInv'
           /\ Crash(n) => TypeInv'
           /\ Restart(n) => TypeInv'
<1> USE DEF raftVars, taskVars
<1>1. ASSUME Apply(n) PROVE TypeInv'
  <2> DEFINE e == log[applied[n] + 1]
             w == e.sync.wf
  <2>1. e \in Entry /\ e.cmd \in Command /\ w \in Workflow /\ e.sync.step \in Nat
    <3>1. applied[n] \in Nat /\ applied[n] < Len(log)
      BY <1>1, TypeInvFacts DEF Apply
    <3>2. e \in Entry
      BY <3>1, TypeInvFacts
    <3>3. QED BY <3>2 DEF Entry, SyncId
  <2>2. core' \in [Node -> Core]
    BY <1>1, <2>1, ApplyCoreType DEF Apply, TypeInv, TypeOK
  <2>3. queues' \in [Node -> Queues]
    BY <1>1, <2>1, ApplyQueuesType DEF Apply, TypeInv, TypeOK
  <2>4. events' \in [Node -> Seq(Command)] /\ applied' \in [Node -> Nat]
    BY <1>1, <2>1 DEF Apply, TypeInv, TypeOK
  <2>5. exec' \in [Node -> [Workflow -> Exec]] /\ StepInProgram'
    <3>1. CASE Completed(n, e)
      <4> DEFINE y == WakeExec(n, e, exec[n][w])
      <4>1. ExecOK(w, exec[n][w])
        BY <2>1, TypeInvExec
      <4>2. ExecOK(w, y)
        BY <4>1 DEF ExecOK, WakeExec, Exec, Pc
      <4>3. SetExec(n, w, y)
        BY <1>1, <3>1 DEF Apply, SetExec
      <4>4. QED BY <2>1, <4>2, <4>3, SetExecOK
    <3>2. CASE ~Completed(n, e)
      BY <1>1, <3>2 DEF Apply, TypeInv, TypeOK, StepInProgram
    <3>3. QED BY <3>1, <3>2
  <2>6. /\ client' \in [Workflow -> Client]
        /\ \A v \in Workflow : client'[v].pc # "idle" => client'[v].node \in Node
    <3>1. ClientOK(client[w])
      BY <2>1, TypeInvFacts DEF ClientOK
    <3>2. ClientOK(WakeClient(e, client[w]))
      BY <3>1 DEF ClientOK, WakeClient, Client
    <3>3. client' = [client EXCEPT ![w] = WakeClient(e, client[w])] \/ client' = client
      BY <1>1 DEF Apply
    <3>4. CASE client' = client
      BY <3>4, TypeInvFacts
    <3>5. QED BY <2>1, <3>2, <3>3, <3>4, SetClientOK
  <2>7. QED BY <1>1, <2>2, <2>3, <2>4, <2>5, <2>6 DEF Apply, TypeInv, TypeOK
<1>2. ASSUME NEW m \in Node, InstallSnapshot(n, m) PROVE TypeInv'
  <2>1. core[m] \in Core
    BY DEF TypeInv, TypeOK
  <2>2. core' \in [Node -> Core] /\ queues' \in [Node -> Queues]
    BY <1>2, <2>1, RestoreType DEF InstallSnapshot, TypeInv, TypeOK
  <2>3. env' \in Env /\ applied' \in [Node -> Nat]
    BY <1>2, EnvType, TypeInvFacts DEF InstallSnapshot
  <2>4. QED BY <1>2, <2>2, <2>3 DEF InstallSnapshot, TypeInv, TypeOK, StepInProgram
<1>3. ASSUME Crash(n) PROVE TypeInv'
  <2>1. env' \in Env
    BY <1>3, EnvType, TypeInvFacts DEF Crash
  <2>2. /\ client' \in [Workflow -> Client]
        /\ \A v \in Workflow : client'[v].pc # "idle" => client'[v].node \in Node
    <3>1. \A w \in Workflow : ClientOK(client[w])
      BY TypeInvFacts DEF ClientOK
    <3>2. \A w \in Workflow : client[w].node = n =>
              ClientOK([client[w] EXCEPT !.pc = "gone", !.sub = 0])
      BY <3>1 DEF ClientOK, Client
    <3>3. client' = [w \in Workflow |->
                       IF client[w].node = n
                       THEN [client[w] EXCEPT !.pc = "gone", !.sub = 0]
                       ELSE client[w]]
      BY <1>3 DEF Crash
    <3>4. \A w \in Workflow : ClientOK(client'[w])
      BY <3>1, <3>2, <3>3
    <3>5. QED BY <3>3, <3>4 DEF ClientOK
  <2>3. NoExec \in Exec /\ NoExec.pc = "none"
    BY DEF NoExec, Exec, Pc
  <2>4. exec' \in [Node -> [Workflow -> Exec]]
    BY <1>3, <2>3 DEF Crash, TypeInv, TypeOK
  <2>5. StepInProgram'
    BY <1>3, <2>3 DEF Crash, TypeInv, TypeOK, StepInProgram
  <2>6. core' \in [Node -> Core] /\ queues' \in [Node -> Queues]
    BY <1>3, NewType DEF Crash, TypeInv, TypeOK
  <2>7. /\ up' \subseteq Node /\ inc' \in [Node -> Nat] /\ applied' \in [Node -> Nat]
        /\ obs' \in [Node -> Nat] /\ events' \in [Node -> Seq(Command)]
    <3>1. up' \subseteq Node /\ obs' \in [Node -> Nat]
      BY <1>3 DEF Crash, TypeInv, TypeOK
    <3>2. inc' \in [Node -> Nat]
      <4>1. inc \in [Node -> Nat] /\ inc' = [inc EXCEPT ![n] = @ + 1]
        BY <1>3 DEF Crash, TypeInv, TypeOK
      <4>2. QED BY <4>1
    <3>3. applied' \in [Node -> Nat]
      BY <1>3 DEF Crash, TypeInv, TypeOK
    <3>4. events' \in [Node -> Seq(Command)]
      <4>1. <<>> \in Seq(Command)
        OBVIOUS
      <4>2. QED BY <1>3, <4>1, TypeInvFacts DEF Crash
    <3>5. QED BY <3>1, <3>2, <3>3, <3>4
  <2>8. QED BY <1>3, <2>1, <2>2, <2>4, <2>5, <2>6, <2>7 DEF Crash, TypeInv, TypeOK
<1>4. ASSUME Restart(n) PROVE TypeInv'
  BY <1>4 DEF Restart, TypeInv, TypeOK, StepInProgram
<1>5. QED BY <1>1, <1>2, <1>3, <1>4

\* Steps of the callers and of the observer keep the types.
LEMMA ClientStepType ==
    ASSUME TypeInv
    PROVE  /\ \A n \in Node, w \in Workflow : StartWorkflow(n, w) => TypeInv'
           /\ \A w \in Workflow : ClientStep(w) => TypeInv'
           /\ \A n \in Node : Observe(n) => TypeInv'
<1> USE DEF nodeVars, raftVars
<1>1. ASSUME NEW n \in Node, NEW w \in Workflow, StartWorkflow(n, w) PROVE TypeInv'
  <2>1. [type |-> "WorkflowStart", wf |-> w, owner |-> n] \in Command
    BY DEF Command, StartCommand
  <2>2. pending' \subseteq Entry
    BY <1>1, <2>1, ProposeType DEF StartWorkflow
  <2>3. /\ client' \in [Workflow -> Client]
        /\ \A v \in Workflow : client'[v].pc # "idle" => client'[v].node \in Node
    <3>1. ClientOK([pc |-> "starting", node |-> n, sub |-> 0])
      BY DEF ClientOK, Client
    <3>2. QED BY <1>1, <3>1, SetClientOK DEF StartWorkflow
  <2>4. QED BY <1>1, <2>2, <2>3 DEF StartWorkflow, TypeInv, TypeOK, StepInProgram
<1>2. ASSUME NEW w \in Workflow, ClientSubscribe(w) PROVE TypeInv'
  <2> DEFINE cl == [client[w] EXCEPT !.pc = "waiting", !.sub = Len(events[client[w].node])]
  <2>1. ClientOK(client[w]) /\ client[w].node \in Node
    BY <1>2, TypeInvFacts DEF ClientSubscribe, ClientOK
  <2>2. Len(events[client[w].node]) \in Nat
    BY <2>1, TypeInvFacts
  <2>3. ClientOK(cl)
    BY <2>1, <2>2 DEF ClientOK, Client
  <2>4. client' = [client EXCEPT ![w] = cl]
    BY <1>2, TypeInvFacts DEF ClientSubscribe
  <2>5. /\ client' \in [Workflow -> Client]
        /\ \A v \in Workflow : client'[v].pc # "idle" => client'[v].node \in Node
    BY <2>3, <2>4, SetClientOK
  <2>6. QED BY <1>2, <2>5 DEF ClientSubscribe, TypeInv, TypeOK, StepInProgram
<1>3. ASSUME NEW w \in Workflow, ClientReceive(w) PROVE TypeInv'
  <2> DEFINE cl == [client[w] EXCEPT !.pc = "finished", !.sub = 0]
  <2>1. ClientOK(client[w]) /\ client[w].node \in Node
    BY <1>3, TypeInvFacts DEF ClientReceive, ClientOK
  <2>2. ClientOK(cl)
    BY <2>1 DEF ClientOK, Client
  <2>3. client' = [client EXCEPT ![w] = cl]
    BY <1>3, TypeInvFacts DEF ClientReceive
  <2>4. /\ client' \in [Workflow -> Client]
        /\ \A v \in Workflow : client'[v].pc # "idle" => client'[v].node \in Node
    BY <2>2, <2>3, SetClientOK
  <2>5. QED BY <1>3, <2>4 DEF ClientReceive, TypeInv, TypeOK, StepInProgram
<1>4. ASSUME NEW n \in Node, Observe(n) PROVE TypeInv'
  <2>1. obs[n] \in Nat
    BY DEF TypeInv, TypeOK
  <2>2. PICK i \in Visible(n, obs[n]) :
            /\ obs' = [obs EXCEPT ![n] = i]
            /\ exec' = [exec EXCEPT ![n][events[n][i].wf] = Spawned]
    BY <1>4 DEF Observe
  <2>3. i \in Nat /\ events[n][i] \in Command
    BY <2>1, VisibleType
  <2>4. events[n][i].wf \in Workflow
    BY <2>3, CommandCases
  <2>5. ExecOK(events[n][i].wf, Spawned)
    BY DEF Spawned, ExecOK, Exec, Pc
  <2>6. exec' \in [Node -> [Workflow -> Exec]] /\ StepInProgram'
    BY <2>2, <2>4, <2>5, SetExecOK DEF SetExec
  <2>7. obs' \in [Node -> Nat]
    BY <2>2, <2>3 DEF TypeInv, TypeOK
  <2>8. QED BY <1>4, <2>6, <2>7 DEF Observe, TypeInv, TypeOK
<1>5. QED BY <1>1, <1>2, <1>3, <1>4 DEF ClientStep

\* Steps of an execution keep the types.
LEMMA ExecStepType ==
    ASSUME TypeInv, NEW n \in Node, NEW w \in Workflow
    PROVE  ExecStep(n, w) \/ ProposeError(n, w) => TypeInv'
<1> DEFINE x == exec[n][w]
<1> USE DEF nodeVars, raftVars
<1>0. /\ ExecOK(w, x) /\ x \in Exec /\ x.sub \in Nat /\ x.step \in Nat
      /\ x.pc # "none" => x.step > 0
  BY TypeInvExec DEF ExecOK, Exec
<1>a. ASSUME NEW y, ExecOK(w, y), SetExec(n, w, y),
             UNCHANGED <<log, ref, up, inc, core, applied, events, obs, client>>,
             queues' \in [Node -> Queues], pending' \subseteq Entry, env' \in Env
      PROVE  TypeInv'
  <2>1. exec' \in [Node -> [Workflow -> Exec]] /\ StepInProgram'
    BY <1>a, SetExecOK
  <2>2. QED BY <1>a, <2>1 DEF TypeInv, TypeOK
<1>1. ASSUME Launch(n, w) PROVE TypeInv'
  <2> DEFINE y == [x EXCEPT !.pc = IF w \in Registered[n] /\ w \in core[n].inputs
                                   THEN EnterStep(w, x.step) ELSE "exited"]
  <2>1. SetExec(n, w, y)
    BY <1>1, TypeInvFacts DEF Launch, SetExec
  <2>2. x.pc = "spawned" /\ x.step > 0
    BY <1>0, <1>1 DEF Launch
  <2>3. EnterStep(w, x.step) \in {"compute", "subscribe"} /\ "exited" \in Pc
    BY DEF EnterStep, Pc
  <2>4. ExecOK(w, y)
    <3>1. y \in Exec /\ y.step = x.step
      BY <1>0, <2>3 DEF Exec, Pc
    <3>2. y.pc = "compute" => IsCheckpoint(w, x.step)
      BY <1>0 DEF EnterStep, Exec
    <3>3. y.pc \in {"compute", "subscribe", "exited"}
      BY <1>0, <2>3 DEF Exec
    <3>4. QED BY <2>2, <3>1, <3>2, <3>3 DEF ExecOK
  <2>5. QED BY <1>1, <1>a, <2>1, <2>4, TypeInvFacts DEF Launch
<1>2. ASSUME Compute(n, w) PROVE TypeInv'
  <2>1. ExecOK(w, [x EXCEPT !.pc = "dequeue"])
    BY <1>0, <1>2 DEF Compute, ExecOK, Exec, Pc
  <2>2. QED BY <1>2, <1>a, <2>1, TypeInvFacts DEF Compute
<1>3. ASSUME TryDequeue(n, w) PROVE TypeInv'
  <2> DEFINE k == Program[w][x.step]
  <2>1. x.pc = "dequeue" /\ x.step > 0 /\ IsCheckpoint(w, x.step)
    BY <1>0, <1>3 DEF TryDequeue, ExecOK
  <2>2. k \in Key
    BY <1>0, <2>1, ProgramType
  <2>3. queues[n] \in Queues
    BY TypeInvFacts
  <2>4. CASE HasQueued(queues[n], w, k)
    <3>1. QueueFront(queues[n], w, k) \in Value /\ PopQueued(queues[n], w, k) \in Queues
      BY <2>2, <2>3, <2>4, PopType
    <3>2. ExecOK(w, Return(w, x, QueueFront(queues[n], w, k)))
      BY <1>0, <2>1, <3>1, ExecStepsOK
    <3>3. queues' \in [Node -> Queues]
      BY <1>3, <2>4, <3>1, TypeInvFacts DEF TryDequeue
    <3>4. QED BY <1>3, <1>a, <2>4, <3>2, <3>3, TypeInvFacts DEF TryDequeue
  <2>5. CASE ~HasQueued(queues[n], w, k)
    <3>1. ExecOK(w, [x EXCEPT !.pc = "subscribe"])
      BY <1>0, <2>1 DEF ExecOK, Exec, Pc
    <3>2. QED BY <1>3, <1>a, <2>5, <3>1, TypeInvFacts DEF TryDequeue
  <2>6. QED BY <2>4, <2>5
<1>4. ASSUME Subscribe(n, w) PROVE TypeInv'
  <2>1. Len(events[n]) \in Nat
    BY TypeInvFacts
  <2>2. ExecOK(w, [x EXCEPT !.pc = "check", !.sub = Len(events[n])])
    BY <1>0, <1>4, <2>1 DEF Subscribe, ExecOK, Exec, Pc
  <2>3. QED BY <1>4, <1>a, <2>2, TypeInvFacts DEF Subscribe
<1>5. ASSUME OwnerPropose(n, w) PROVE TypeInv'
  <2>1. x.pc = "check"
    BY <1>5 DEF OwnerPropose
  <2>2. StepCommand(n, w, x) \in Command
    BY <1>0, <2>1, StepCommandType DEF TypeInv, TypeOK
  <2>3. pending' \subseteq Entry
    BY <1>0, <1>5, <2>2, ProposeType DEF OwnerPropose
  <2>4. ExecOK(w, [x EXCEPT !.pc = "await", !.sub = 0])
    BY <1>0, <2>1 DEF ExecOK, Exec, Pc
  <2>5. QED BY <1>5, <1>a, <2>3, <2>4, TypeInvFacts DEF OwnerPropose
<1>6. ASSUME ProposeError(n, w) PROVE TypeInv'
  <2>1. ExecOK(w, Fail(w, x))
    BY <1>0, <1>6, ExecStepsOK DEF ProposeError
  <2>2. env' \in Env
    BY <1>6, EnvType, TypeInvFacts DEF ProposeError
  <2>3. x.pc = "check"
    BY <1>6 DEF ProposeError
  <2>4. StepCommand(n, w, x) \in Command
    BY <1>0, <2>3, StepCommandType DEF TypeInv, TypeOK
  <2>5. CASE Propose(n, w, x.step, StepCommand(n, w, x))
    <3>1. pending' \subseteq Entry
      BY <1>0, <2>4, <2>5, ProposeType
    <3>2. QED BY <1>6, <1>a, <2>1, <2>2, <3>1, TypeInvFacts DEF ProposeError
  <2>6. CASE UNCHANGED pending
    BY <1>6, <1>a, <2>1, <2>2, <2>6, TypeInvFacts DEF ProposeError
  <2>7. QED BY <1>6, <2>5, <2>6 DEF ProposeError
<1>7. ASSUME PopOwn(n, w) PROVE TypeInv'
  <2>1. x.pc = "pop" /\ x.step > 0 /\ IsCheckpoint(w, x.step)
    BY <1>0, <1>7 DEF PopOwn, ExecOK
  <2>2. Program[w][x.step] \in Key
    BY <1>0, <2>1, ProgramType
  <2>3. PopQueued(queues[n], w, Program[w][x.step]) \in Queues
    BY <2>2, PopType, TypeInvFacts
  <2>4. MyValue(n, w, x) \in Value
    BY <1>0 DEF MyValue, Value, TypeInv, TypeOK
  <2>5. ExecOK(w, Return(w, x, MyValue(n, w, x)))
    BY <1>0, <2>1, <2>4, ExecStepsOK
  <2>6. queues' \in [Node -> Queues]
    BY <1>7, <2>3, TypeInvFacts DEF PopOwn
  <2>7. QED BY <1>7, <1>a, <2>5, <2>6, TypeInvFacts DEF PopOwn
<1>8. ASSUME BecomeWaiter(n, w) PROVE TypeInv'
  <2>1. ExecOK(w, [x EXCEPT !.pc = "wait"])
    BY <1>0, <1>8 DEF BecomeWaiter, ExecOK, Exec, Pc
  <2>2. QED BY <1>8, <1>a, <2>1, TypeInvFacts DEF BecomeWaiter
<1>9. ASSUME Receive(n, w) PROVE TypeInv'
  <2> DEFINE After(e) == CASE e.type = "OwnerChange"   -> Retry(w, x)
                           [] e.type = "SetCheckpoint" -> Return(w, x, e.value)
                           [] e.type = "WorkflowEnd"   -> [x EXCEPT !.pc = "done", !.sub = 0]
  <2>1. PICK i \in Visible(n, x.sub) :
            Awaited(w, x, events[n][i]) /\ SetExec(n, w, After(events[n][i]))
    BY <1>9 DEF Receive, FirstEvent
  <2>2. events[n][i] \in Command
    BY <1>0, <2>1, VisibleType
  <2>3. x.pc = "wait"
    BY <1>9 DEF Receive
  <2>4. ExecOK(w, After(events[n][i]))
    <3> DEFINE e == events[n][i]
    <3>1. CASE e.type = "OwnerChange"
      BY <1>0, <2>3, <3>1, ExecStepsOK
    <3>2. CASE e.type = "SetCheckpoint"
      <4>1. e.value \in Value
        BY <2>2, <3>2, CommandCases DEF SetCommand
      <4>2. QED BY <1>0, <2>3, <3>2, <4>1, ExecStepsOK
    <3>3. CASE e.type = "WorkflowEnd"
      BY <1>0, <2>3, <3>3 DEF ExecOK, Exec, Pc
    <3>4. QED BY <2>1, <3>1, <3>2, <3>3 DEF Awaited
  <2>5. QED BY <1>9, <1>a, <2>1, <2>4, TypeInvFacts DEF Receive
<1>10. ASSUME Timeout(n, w) PROVE TypeInv'
  <2>1. ExecOK(w, Retry(w, x))
    BY <1>0, <1>10, ExecStepsOK DEF Timeout
  <2>2. QED BY <1>10, <1>a, <2>1, TypeInvFacts DEF Timeout
<1>11. QED
  BY <1>1, <1>2, <1>3, <1>4, <1>5, <1>6, <1>7, <1>8, <1>9, <1>10 DEF ExecStep

\* Every step keeps the types.
LEMMA NextType == TypeInv /\ [Next]_vars => TypeInv'
<1> SUFFICES ASSUME TypeInv, [Next]_vars PROVE TypeInv'
  OBVIOUS
<1>1. CASE UNCHANGED vars
  BY <1>1 DEF vars, TypeInv, TypeOK, StepInProgram
<1>2. CASE Next
  BY <1>2, RaftStepType, NodeStepType, ClientStepType, ExecStepType DEF Next
<1>3. QED BY <1>1, <1>2

\* Type correctness of the runtime of any cluster, program and fault bounds:
\* apply(), restore(), pops, retries and restarts keep every variable in its
\* type, and an execution never stands at a call its program does not have.
THEOREM TypeCorrect == Spec => [](TypeOK /\ StepInProgram)
<1>1. Spec => []TypeInv
  BY InitType, NextType, PTL DEF Spec
<1>2. QED BY <1>1, PTL DEF TypeInv

-----------------------------------------------------------------------------
(* Agreement of the replicas. *)

\* Initially no entry is committed and every node is new.
LEMMA InitFollows == Init => ReplicasFollowLog
  BY DEF Init, ReplicasFollowLog

\* A committed entry extends the reference; what it says of the past stays.
LEMMA CommitFollows ==
    ASSUME TypeInv, ReplicasFollowLog, NEW e \in pending, Commit(e)
    PROVE  ReplicasFollowLog'
<1> DEFINE s == ApplyCore(ref[Len(ref)], e.cmd)
<1>1. /\ log' = Append(log, e) /\ ref' = Append(ref, s)
      /\ core' = core /\ applied' = applied
  BY DEF Commit, nodeVars
<1>2. /\ log \in Seq(Entry) /\ ref \in Seq(Core)
      /\ Len(log) \in Nat /\ Len(ref) = Len(log) + 1 /\ e \in Entry
  BY DEF TypeInv, TypeOK, ReplicasFollowLog
<1>3. /\ Len(log') = Len(log) + 1 /\ Len(ref') = Len(ref) + 1
      /\ \A i \in 1..Len(log) : log'[i] = log[i]
      /\ \A i \in 1..Len(ref) : ref'[i] = ref[i]
      /\ log'[Len(log) + 1] = e /\ ref'[Len(ref) + 1] = s
  BY <1>1, <1>2
<1>4. \A i \in 1..Len(log') : ref'[i + 1] = ApplyCore(ref'[i], log'[i].cmd)
  <2> SUFFICES ASSUME NEW i \in 1..Len(log')
               PROVE  ref'[i + 1] = ApplyCore(ref'[i], log'[i].cmd)
    OBVIOUS
  <2>1. CASE i \in 1..Len(log)
    <3>1. i + 1 \in 1..Len(ref) /\ i \in 1..Len(ref)
      BY <1>2, <2>1
    <3>2. QED BY <1>3, <2>1, <3>1 DEF ReplicasFollowLog
  <2>2. CASE i = Len(log) + 1
    <3>1. i = Len(ref) /\ i \in 1..Len(ref)
      BY <1>2, <2>2
    <3>2. ref'[i + 1] = s /\ ref'[i] = ref[i] /\ log'[i] = e
      BY <1>2, <1>3, <2>2, <3>1
    <3>3. QED BY <3>1, <3>2
  <2>3. QED BY <1>2, <1>3, <2>1, <2>2
<1>5. ASSUME NEW n \in Node
      PROVE  applied'[n] <= Len(log') /\ core'[n] = ref'[applied'[n] + 1]
  <2>1. applied[n] \in Nat /\ applied[n] <= Len(log) /\ core[n] = ref[applied[n] + 1]
    BY DEF TypeInv, TypeOK, ReplicasFollowLog
  <2>2. applied[n] + 1 \in 1..Len(ref)
    BY <1>2, <2>1
  <2>3. QED BY <1>1, <1>2, <1>3, <2>1, <2>2
<1>6. ref'[1] = NewCore
  BY <1>2, <1>3 DEF ReplicasFollowLog
<1>7. QED BY <1>2, <1>3, <1>4, <1>5, <1>6 DEF ReplicasFollowLog

\* A node that applies an entry, is restored, or starts over follows the log.
LEMMA NodeFollows ==
    ASSUME TypeInv, ReplicasFollowLog, NEW n \in Node,
           \/ Apply(n)
           \/ \E m \in Node : InstallSnapshot(n, m)
           \/ Crash(n)
    PROVE  ReplicasFollowLog'
<1>1. /\ core \in [Node -> Core] /\ applied \in [Node -> Nat]
      /\ log \in Seq(Entry) /\ Len(log) \in Nat
  BY TypeInvFacts
<1>2. log' = log /\ ref' = ref
  BY DEF Apply, InstallSnapshot, Crash, raftVars
<1>3. ASSUME NEW s \in Core, NEW a \in Nat, a <= Len(log), s = ref[a + 1],
             core' = [core EXCEPT ![n] = s], applied' = [applied EXCEPT ![n] = a]
      PROVE  ReplicasFollowLog'
  <2>1. \A m \in Node : applied'[m] <= Len(log) /\ core'[m] = ref[applied'[m] + 1]
    BY <1>1, <1>3 DEF ReplicasFollowLog
  <2>2. QED BY <1>2, <2>1 DEF ReplicasFollowLog
<1>4. CASE Apply(n)
  <2> DEFINE c == log[applied[n] + 1].cmd
  <2>1. applied[n] \in Nat /\ applied[n] < Len(log) /\ core[n] \in Core
    BY <1>1, <1>4 DEF Apply
  <2>2. applied[n] + 1 \in 1..Len(log)
    BY <1>1, <2>1
  <2>3. c \in Command
    <3>1. log[applied[n] + 1] \in Entry
      BY <1>1, <2>2
    <3>2. QED BY <3>1 DEF Entry
  <2>4. core[n] = ref[applied[n] + 1]
    BY DEF ReplicasFollowLog
  <2>5. ref[(applied[n] + 1) + 1] = ApplyCore(core[n], c)
    BY <2>2, <2>4 DEF ReplicasFollowLog
  <2>6. core' = [core EXCEPT ![n] = ApplyCore(core[n], c)]
        /\ applied' = [applied EXCEPT ![n] = applied[n] + 1]
    BY <1>4 DEF Apply
  <2>7. ApplyCore(core[n], c) \in Core /\ applied[n] + 1 \in Nat /\ applied[n] + 1 <= Len(log)
    BY <1>1, <2>1, <2>3, ApplyCoreType
  <2>8. QED BY <1>3, <2>5, <2>6, <2>7
<1>5. CASE \E m \in Node : InstallSnapshot(n, m)
  <2>1. PICK m \in Node : InstallSnapshot(n, m)
    BY <1>5
  <2>2. core[m] \in Core /\ applied[m] \in Nat /\ applied[m] <= Len(log)
        /\ core[m] = ref[applied[m] + 1]
    BY <1>1 DEF ReplicasFollowLog
  <2>3. core' = [core EXCEPT ![n] = core[m]] /\ applied' = [applied EXCEPT ![n] = applied[m]]
    BY <2>1, <2>2, RestoreType DEF InstallSnapshot
  <2>4. QED BY <1>3, <2>2, <2>3
<1>6. CASE Crash(n)
  <2>1. core' = [core EXCEPT ![n] = NewCore] /\ applied' = [applied EXCEPT ![n] = 0]
    BY <1>6 DEF Crash
  <2>2. NewCore = ref[0 + 1] /\ 0 <= Len(log) /\ NewCore \in Core
    BY <1>1, NewType DEF ReplicasFollowLog
  <2>3. QED BY <1>3, <2>1, <2>2
<1>7. QED BY <1>4, <1>5, <1>6

\* The other steps leave the log and the replicas alone.
LEMMA OthersFollow ==
    ASSUME ReplicasFollowLog, UNCHANGED <<log, ref, core, applied>>
    PROVE  ReplicasFollowLog'
  BY DEF ReplicasFollowLog

\* An execution touches the queues of its node and proposes, and leaves the
\* log, the state and the other tasks alone.
LEMMA ExecFrame ==
    ASSUME NEW n \in Node, NEW w \in Workflow, ExecStep(n, w)
    PROVE  UNCHANGED <<log, ref, up, inc, core, applied, events, obs, client, env>>
<1> USE DEF raftVars, nodeVars
<1>1. CASE Launch(n, w)        BY <1>1 DEF Launch
<1>2. CASE Compute(n, w)       BY <1>2 DEF Compute
<1>3. CASE TryDequeue(n, w)    BY <1>3 DEF TryDequeue
<1>4. CASE Subscribe(n, w)     BY <1>4 DEF Subscribe
<1>5. CASE OwnerPropose(n, w)  BY <1>5 DEF OwnerPropose
<1>6. CASE PopOwn(n, w)        BY <1>6 DEF PopOwn
<1>7. CASE BecomeWaiter(n, w)  BY <1>7 DEF BecomeWaiter
<1>8. CASE Receive(n, w)       BY <1>8 DEF Receive
<1>9. CASE Timeout(n, w)       BY <1>9 DEF Timeout
<1>10. QED
  BY <1>1, <1>2, <1>3, <1>4, <1>5, <1>6, <1>7, <1>8, <1>9 DEF ExecStep

\* Every step keeps the replicas on the log.
LEMMA NextFollows ==
    TypeInv /\ ReplicasFollowLog /\ [Next]_vars => ReplicasFollowLog'
<1> SUFFICES ASSUME TypeInv, ReplicasFollowLog, [Next]_vars PROVE ReplicasFollowLog'
  OBVIOUS
<1> USE DEF raftVars, nodeVars, taskVars
<1>1. CASE UNCHANGED vars
  BY <1>1, OthersFollow DEF vars
<1>2. CASE \E e \in pending : Commit(e)
  BY <1>2, CommitFollows
<1>3. CASE \E n \in Node : Apply(n) \/ Crash(n) \/ \E m \in Node : InstallSnapshot(n, m)
  BY <1>3, NodeFollows
<1>4. CASE \/ \E e \in pending : Lose(e)
           \/ \E w \in Workflow, m \in Node : ChangeOwner(w, m)
           \/ \E n \in Node : Restart(n) \/ Observe(n)
           \/ \E w \in Workflow : ClientStep(w)
           \/ \E n \in Node, w \in Workflow : StartWorkflow(n, w) \/ ProposeError(n, w)
  BY <1>4, OthersFollow
     DEF Lose, ChangeOwner, Restart, Observe, ClientStep, ClientSubscribe,
         ClientReceive, StartWorkflow, ProposeError
<1>5. CASE \E n \in Node, w \in Workflow : ExecStep(n, w)
  BY <1>5, OthersFollow, ExecFrame
<1>6. QED BY <1>1, <1>2, <1>3, <1>4, <1>5 DEF Next

\* Replicas that have applied equally many entries hold the same workflows,
\* results, history and owners, for any number of nodes, crashes, restarts
\* and snapshot transfers.
THEOREM ReplicasAgree == Spec => []StateAgreement
<1>1. Init => TypeInv /\ ReplicasFollowLog
  BY InitType, InitFollows
<1>2. TypeInv /\ ReplicasFollowLog /\ [Next]_vars => (TypeInv /\ ReplicasFollowLog)'
  BY NextType, NextFollows
<1>3. ReplicasFollowLog => StateAgreement
  BY DEF ReplicasFollowLog, StateAgreement
<1>4. QED BY <1>1, <1>2, <1>3, PTL DEF Spec

-----------------------------------------------------------------------------
(* Queues and history. *)

\* What a push, a clean-up, a pop and a refill do to a queue and its history.
LEMMA EndsWithSteps ==
    ASSUME NEW h \in Seq(Value), NEW q \in Seq(Value), EndsWith(h, q)
    PROVE  /\ \A v \in Value : EndsWith(Append(h, v), Append(q, v))
           /\ q # <<>> => EndsWith(h, Tail(q))
<1>1. Len(h) \in Nat /\ Len(q) \in Nat /\ Len(q) <= Len(h)
  BY DEF EndsWith
<1>2. ASSUME NEW v \in Value PROVE EndsWith(Append(h, v), Append(q, v))
  <2> DEFINE g == Append(h, v)
             p == Append(q, v)
  <2>1. /\ Len(g) = Len(h) + 1 /\ Len(p) = Len(q) + 1
        /\ \A i \in 1..Len(h) : g[i] = h[i]
        /\ \A i \in 1..Len(q) : p[i] = q[i]
        /\ g[Len(h) + 1] = v /\ p[Len(q) + 1] = v
    OBVIOUS
  <2> HIDE DEF g, p
  <2>2. ASSUME NEW i \in 1..Len(p) PROVE p[i] = g[Len(g) - Len(p) + i]
    <3>1. CASE i \in 1..Len(q)
      <4>1. q[i] = h[Len(h) - Len(q) + i] /\ Len(h) - Len(q) + i \in 1..Len(h)
        BY <1>1, <3>1 DEF EndsWith
      <4>2. Len(g) - Len(p) + i = Len(h) - Len(q) + i
        BY <1>1, <2>1, <3>1
      <4>3. QED BY <2>1, <3>1, <4>1, <4>2
    <3>2. CASE i = Len(q) + 1
      <4>1. Len(g) - Len(p) + i = Len(h) + 1
        BY <1>1, <2>1, <3>2
      <4>2. QED BY <2>1, <3>2, <4>1
    <3>3. QED BY <1>1, <2>1, <3>1, <3>2
  <2>3. Len(p) <= Len(g)
    BY <1>1, <2>1
  <2>4. EndsWith(g, p)
    BY <2>2, <2>3 DEF EndsWith
  <2>5. QED BY <2>4 DEF g, p
<1>3. ASSUME q # <<>> PROVE EndsWith(h, Tail(q))
  <2> DEFINE t == Tail(q)
  <2>1. /\ Len(q) > 0 /\ Len(t) = Len(q) - 1
        /\ \A i \in 1..Len(t) : t[i] = q[i + 1]
    BY <1>1, <1>3
  <2> HIDE DEF t
  <2>2. ASSUME NEW i \in 1..Len(t) PROVE t[i] = h[Len(h) - Len(t) + i]
    <3>1. i + 1 \in 1..Len(q)
      BY <1>1, <2>1
    <3>2. q[i + 1] = h[Len(h) - Len(q) + (i + 1)]
      BY <3>1 DEF EndsWith
    <3>3. Len(h) - Len(q) + (i + 1) = Len(h) - Len(t) + i
      BY <1>1, <2>1, <3>1
    <3>4. QED BY <2>1, <3>2, <3>3
  <2>3. Len(t) <= Len(h)
    BY <1>1, <2>1
  <2>4. EndsWith(h, t)
    BY <2>2, <2>3 DEF EndsWith
  <2>5. QED BY <2>4 DEF t
<1>4. QED BY <1>2, <1>3

\* A queue ends with itself, and every history ends with the empty queue.
LEMMA EndsWithBase ==
    ASSUME NEW h \in Seq(Value)
    PROVE  EndsWith(h, h) /\ EndsWith(h, <<>>)
  BY DEF EndsWith

\* The queues q are what is left of the history h, key by key.
Left(h, q) == \A qk \in QueueKey : EndsWith(h[qk], q[qk])

\* apply() does to the queues what it does to the history.
LEMMA ApplyLeft ==
    ASSUME NEW h \in Queues, NEW q \in Queues, Left(h, q), NEW c \in Command
    PROVE  Left(ApplyQueues(h, c), ApplyQueues(q, c))
<1> SUFFICES ASSUME NEW qk \in QueueKey
             PROVE  EndsWith(ApplyQueues(h, c)[qk], ApplyQueues(q, c)[qk])
  BY DEF Left
<1>0. h[qk] \in Seq(Value) /\ q[qk] \in Seq(Value) /\ EndsWith(h[qk], q[qk])
  BY DEF Queues, Left
<1>1. CASE c \in SetCommand /\ c.type = "SetCheckpoint"
  <2> DEFINE ck == make_queue_key(c.wf, c.key)
  <2>1. c.value \in Value
    BY <1>1 DEF SetCommand
  <2>2. /\ ApplyQueues(h, c) = [h EXCEPT ![ck] = Append(@, c.value)]
        /\ ApplyQueues(q, c) = [q EXCEPT ![ck] = Append(@, c.value)]
    BY <1>1 DEF ApplyQueues, Push
  <2>3. CASE qk = ck
    <3>1. /\ ApplyQueues(h, c)[qk] = Append(h[qk], c.value)
          /\ ApplyQueues(q, c)[qk] = Append(q[qk], c.value)
      BY <2>2, <2>3 DEF Queues
    <3>2. QED BY <1>0, <2>1, <3>1, EndsWithSteps
  <2>4. CASE qk # ck
    <3>1. ApplyQueues(h, c)[qk] = h[qk] /\ ApplyQueues(q, c)[qk] = q[qk]
      BY <2>2, <2>4 DEF Queues
    <3>2. QED BY <1>0, <3>1
  <2>5. QED BY <2>3, <2>4
<1>2. CASE c.type = "WorkflowEnd"
  <2>1. /\ ApplyQueues(h, c)[qk] = IF StartsWith(qk, c.wf) THEN <<>> ELSE h[qk]
        /\ ApplyQueues(q, c)[qk] = IF StartsWith(qk, c.wf) THEN <<>> ELSE q[qk]
    BY <1>2 DEF ApplyQueues, Retain
  <2>2. EndsWith(<<>>, <<>>)
    <3>1. <<>> \in Seq(Value)
      OBVIOUS
    <3>2. QED BY <3>1, EndsWithBase
  <2>3. QED BY <1>0, <2>1, <2>2
<1>3. CASE c.type \in {"WorkflowStart", "OwnerChange"}
  BY <1>0, <1>3 DEF ApplyQueues
<1>4. QED BY <1>1, <1>2, <1>3, CommandCases

\* pop_queued_checkpoint leaves what is left of the history.
LEMMA PopLeft ==
    ASSUME NEW h \in Queues, NEW q \in Queues, Left(h, q),
           NEW w \in Workflow, NEW k \in Key
    PROVE  Left(h, PopQueued(q, w, k))
<1> SUFFICES ASSUME NEW qk \in QueueKey
             PROVE  EndsWith(h[qk], PopQueued(q, w, k)[qk])
  BY DEF Left
<1>1. h[qk] \in Seq(Value) /\ q[qk] \in Seq(Value) /\ EndsWith(h[qk], q[qk])
  BY DEF Queues, Left
<1>2. CASE qk = make_queue_key(w, k) /\ HasQueued(q, w, k)
  <2>1. PopQueued(q, w, k)[qk] = Tail(q[qk]) /\ q[qk] # <<>>
    BY <1>2 DEF PopQueued, HasQueued, Queues
  <2>2. QED BY <1>1, <2>1, EndsWithSteps
<1>3. CASE ~(qk = make_queue_key(w, k) /\ HasQueued(q, w, k))
  <2>1. PopQueued(q, w, k)[qk] = q[qk]
    BY <1>3 DEF PopQueued, Queues
  <2>2. QED BY <1>1, <2>1
<1>4. QED BY <1>2, <1>3

\* Initially queues and history are empty.
LEMMA InitLeft == Init => QueueIsSuffixOfHistory
<1>1. <<>> \in Seq(Value)
  OBVIOUS
<1>2. EndsWith(<<>>, <<>>)
  BY <1>1, EndsWithBase
<1>3. QED BY <1>2 DEF Init, QueueIsSuffixOfHistory, NewCore, NewQueues

\* Replacing the queues and the history of one node.
LEMMA NodeLeft ==
    ASSUME TypeInv, QueueIsSuffixOfHistory, NEW n \in Node, NEW s, NEW q,
           core' = [core EXCEPT ![n] = s], queues' = [queues EXCEPT ![n] = q],
           Left(s.history, q)
    PROVE  QueueIsSuffixOfHistory'
  BY TypeInvFacts DEF QueueIsSuffixOfHistory, Left

\* Every step keeps the queues what is left of the history.
LEMMA NextLeft ==
    TypeInv /\ QueueIsSuffixOfHistory /\ [Next]_vars => QueueIsSuffixOfHistory'
<1> SUFFICES ASSUME TypeInv, QueueIsSuffixOfHistory, [Next]_vars
             PROVE  QueueIsSuffixOfHistory'
  OBVIOUS
<1> USE DEF raftVars, nodeVars, taskVars
<1>0. ASSUME NEW n \in Node
      PROVE  /\ core[n] \in Core /\ core[n].history \in Queues /\ queues[n] \in Queues
             /\ Left(core[n].history, queues[n])
  BY TypeInvFacts DEF Core, Queues, QueueIsSuffixOfHistory, Left
<1>a. ASSUME UNCHANGED <<core, queues>> PROVE QueueIsSuffixOfHistory'
  BY <1>a DEF QueueIsSuffixOfHistory
<1>b. ASSUME NEW n \in Node, NEW w \in Workflow, NEW k \in Key, core' = core,
             queues' = [queues EXCEPT ![n] = PopQueued(@, w, k)]
      PROVE  QueueIsSuffixOfHistory'
  <2>1. Left(core[n].history, PopQueued(queues[n], w, k))
    BY <1>0, PopLeft
  <2>2. core' = [core EXCEPT ![n] = core[n]]
    BY <1>b, TypeInvFacts
  <2>3. QED BY <1>b, <2>1, <2>2, NodeLeft
<1>1. CASE UNCHANGED vars
  BY <1>1, <1>a DEF vars
<1>2. ASSUME NEW n \in Node, Apply(n) PROVE QueueIsSuffixOfHistory'
  <2> DEFINE c == log[applied[n] + 1].cmd
  <2>1. c \in Command
    <3>1. applied[n] \in Nat /\ applied[n] < Len(log) /\ log \in Seq(Entry)
      BY <1>2, TypeInvFacts DEF Apply
    <3>2. log[applied[n] + 1] \in Entry
      BY <3>1
    <3>3. QED BY <3>2 DEF Entry
  <2>2. ApplyCore(core[n], c).history = ApplyQueues(core[n].history, c)
    <3>1. CASE c.type \in {"WorkflowStart", "OwnerChange"}
      BY <1>0, <3>1 DEF ApplyCore, ApplyStart, ApplyOwner, ApplyQueues, Core
    <3>2. CASE c.type = "WorkflowEnd"
      BY <1>0, <3>2 DEF ApplyCore, ApplyEnd, Core
    <3>3. CASE c.type = "SetCheckpoint"
      BY <1>0, <3>3 DEF ApplyCore, ApplySet, Core
    <3>4. QED BY <2>1, <3>1, <3>2, <3>3, CommandCases
  <2>3. Left(ApplyCore(core[n], c).history, ApplyQueues(queues[n], c))
    BY <1>0, <2>1, <2>2, ApplyLeft
  <2>4. /\ core' = [core EXCEPT ![n] = ApplyCore(core[n], c)]
        /\ queues' = [queues EXCEPT ![n] = ApplyQueues(queues[n], c)]
    BY <1>2 DEF Apply
  <2>5. QED BY <2>3, <2>4, NodeLeft
<1>3. ASSUME NEW n \in Node, NEW m \in Node, InstallSnapshot(n, m)
      PROVE  QueueIsSuffixOfHistory'
  <2>1. /\ core' = [core EXCEPT ![n] = core[m]]
        /\ queues' = [queues EXCEPT ![n] = core[m].history]
    BY <1>0, <1>3, RestoreType DEF InstallSnapshot
  <2>2. Left(core[m].history, core[m].history)
    BY <1>0, EndsWithBase DEF Left, Queues
  <2>3. QED BY <2>1, <2>2, NodeLeft
<1>4. ASSUME NEW n \in Node, Crash(n) PROVE QueueIsSuffixOfHistory'
  <2>1. core' = [core EXCEPT ![n] = NewCore] /\ queues' = [queues EXCEPT ![n] = NewQueues]
    BY <1>4 DEF Crash
  <2>2. Left(NewCore.history, NewQueues)
    BY EndsWithBase, NewType DEF Left, Queues, NewCore
  <2>3. QED BY <2>1, <2>2, NodeLeft
<1>5. ASSUME NEW n \in Node, NEW w \in Workflow, TryDequeue(n, w)
      PROVE  QueueIsSuffixOfHistory'
  <2>1. Program[w][exec[n][w].step] \in Key
    <3>1. exec[n][w].step \in Nat /\ exec[n][w].step > 0 /\ IsCheckpoint(w, exec[n][w].step)
      BY <1>5, TypeInvExec DEF TryDequeue, ExecOK, Exec
    <3>2. QED BY <3>1, ProgramType
  <2>2. QED BY <1>5, <1>a, <1>b, <2>1 DEF TryDequeue
<1>6. ASSUME NEW n \in Node, NEW w \in Workflow, PopOwn(n, w)
      PROVE  QueueIsSuffixOfHistory'
  <2>1. Program[w][exec[n][w].step] \in Key
    <3>1. exec[n][w].step \in Nat /\ exec[n][w].step > 0 /\ IsCheckpoint(w, exec[n][w].step)
      BY <1>6, TypeInvExec DEF PopOwn, ExecOK, Exec
    <3>2. QED BY <3>1, ProgramType
  <2>2. QED BY <1>6, <1>b, <2>1 DEF PopOwn
<1>7. ASSUME NEW n \in Node, NEW w \in Workflow,
             \/ Launch(n, w) \/ Compute(n, w) \/ Subscribe(n, w) \/ OwnerPropose(n, w)
             \/ ProposeError(n, w) \/ BecomeWaiter(n, w) \/ Receive(n, w) \/ Timeout(n, w)
      PROVE  UNCHANGED <<core, queues>>
  <2>1. CASE Launch(n, w) \/ Compute(n, w) \/ Subscribe(n, w) \/ OwnerPropose(n, w)
    BY <2>1 DEF Launch, Compute, Subscribe, OwnerPropose
  <2>2. CASE ProposeError(n, w) \/ BecomeWaiter(n, w)
    BY <2>2 DEF ProposeError, BecomeWaiter
  <2>3. CASE Receive(n, w)
    BY <2>3 DEF Receive
  <2>4. CASE Timeout(n, w)
    BY <2>4 DEF Timeout
  <2>5. QED BY <1>7, <2>1, <2>2, <2>3, <2>4
<1>8. CASE \/ \E e \in pending : Commit(e) \/ Lose(e)
           \/ \E w \in Workflow, m \in Node : ChangeOwner(w, m)
           \/ \E n \in Node : Restart(n) \/ Observe(n)
           \/ \E w \in Workflow : ClientStep(w)
           \/ \E n \in Node, w \in Workflow : StartWorkflow(n, w)
  BY <1>8, <1>a DEF Commit, Lose, ChangeOwner, Restart, Observe, ClientStep,
                    ClientSubscribe, ClientReceive, StartWorkflow
<1>9. QED
  BY <1>1, <1>2, <1>3, <1>4, <1>5, <1>6, <1>7, <1>8, <1>a DEF Next, ExecStep

\* The transient queue of a checkpoint is always what is left of its history,
\* in every interleaving of apply(), restore(), restarts and the pops of the
\* executions: a late execution never dequeues a value that was not recorded.
THEOREM QueueIsLeftOfHistory == Spec => []QueueIsSuffixOfHistory
<1>1. Init => TypeInv /\ QueueIsSuffixOfHistory
  BY InitType, InitLeft
<1>2. TypeInv /\ QueueIsSuffixOfHistory /\ [Next]_vars
          => (TypeInv /\ QueueIsSuffixOfHistory)'
  BY NextType, NextLeft
<1>3. QED BY <1>1, <1>2, PTL DEF Spec

-----------------------------------------------------------------------------
(* Who proposes: executions in a cluster that is not disturbed. *)

\* No node crashes and no owner is changed.
Calm == MaxCrashes = 0 /\ MaxOwnerChanges = 0

\* Two checkpoints do not share the string "id:key".
Unambiguous ==
    \A v, w \in Workflow, k, l \in Key :
        make_queue_key(v, k) = make_queue_key(w, l) => v = w /\ k = l

\* A workflow sets each of its checkpoints once.
KeysUsedOnce ==
    \A w \in Workflow : \A i, j \in DOMAIN Program[w] :
        Program[w][i] = Program[w][j] => i = j

Undisturbed == env.crash = 0 /\ env.owner = 0 /\ \A n \in Node : inc[n] = 0

HasStarted(w) == client[w].pc # "idle"

\* The value of call i of w, as the node that started w computes it.
OwnValue(w, i) == [by |-> client[w].node, inc |-> 0, wf |-> w, step |-> i]

\* A value under a composite key is the one of the call that uses the key.
SoundValue(qk, v) ==
    /\ v.wf \in Workflow /\ HasStarted(v.wf)
    /\ v.step \in DOMAIN Program[v.wf] /\ v = OwnValue(v.wf, v.step)
    /\ qk = make_queue_key(v.wf, Program[v.wf][v.step])

SoundSet(c) ==
    /\ c.value.step \in DOMAIN Program[c.wf]
    /\ c.value = OwnValue(c.wf, c.value.step)
    /\ c.key = Program[c.wf][c.value.step]

SoundCommand(c) ==
    /\ HasStarted(c.wf)
    /\ c.type # "OwnerChange"
    /\ c.type = "WorkflowStart" => c.owner = client[c.wf].node
    /\ c.type = "SetCheckpoint" => SoundSet(c)

\* What every state the log leads to holds: only started workflows have an
\* owner, the node that started them, and only theirs are the values.
SoundOwner(s, w) ==
    /\ s.ownership[w] # None => HasStarted(w) /\ s.ownership[w] = client[w].node
    /\ w \in s.inputs => s.ownership[w] # None

SoundHistory(s) ==
    \A qk \in QueueKey : \A j \in DOMAIN s.history[qk] : SoundValue(qk, s.history[qk][j])

SoundCore(s) == SoundHistory(s) /\ \A w \in Workflow : SoundOwner(s, w)

\* An owner, once there is one, stays.
OwnersStay(s, t) ==
    \A w \in Workflow : s.ownership[w] # None => t.ownership[w] # None

States ==
    /\ \A i \in DOMAIN ref : SoundCore(ref[i])
    /\ \A i, j \in DOMAIN ref : i <= j => OwnersStay(ref[i], ref[j])

Commands ==
    /\ \A e \in pending : SoundCommand(e.cmd)
    /\ \A k \in DOMAIN log : SoundCommand(log[k].cmd)
    /\ \A n \in Node : \A k \in DOMAIN events[n] : SoundCommand(events[n][k])

\* Executions are of started workflows, only the owner proposes, and no
\* execution goes beyond the end of its program.
SoundExec(n, w, x) ==
    /\ x.pc # "none" => HasStarted(w) /\ x.step <= Len(Program[w]) + 1
    /\ x.pc \notin {"none", "spawned", "exited"} => core[n].ownership[w] # None
    /\ x.pc \in {"await", "pop"} => n = client[w].node

Execs == \A n \in Node, w \in Workflow : SoundExec(n, w, exec[n][w])

Owned == Undisturbed /\ States /\ Commands /\ Execs

\* What an execution has seen are the values of its owner, in order.
SoundGot(w, x) ==
    /\ x.pc = "none" => x.got = <<>>
    /\ \A j \in DOMAIN x.got : x.got[j] = OwnValue(w, j)
    /\ x.pc # "none" /\ IsCheckpoint(w, x.step) => Len(x.got) = x.step - 1

Seen == \A n \in Node, w \in Workflow : SoundGot(w, exec[n][w])

-----------------------------------------------------------------------------
\* What started stays started, by the same node.
ClientsStay ==
    \A w \in Workflow : HasStarted(w) => HasStarted(w)' /\ client'[w].node = client[w].node

\* No step withdraws the start of a workflow, or disturbs the cluster.
LEMMA ClientsStayLemma ==
    ASSUME TypeInv, Undisturbed, [Next]_vars
    PROVE  ClientsStay /\ Undisturbed'
<1> USE DEF raftVars, nodeVars, taskVars
<1>0. env \in Env /\ client \in [Workflow -> Client]
  BY TypeInvFacts
<1>a. ASSUME UNCHANGED <<inc, client>>, env'.crash = env.crash, env'.owner = env.owner
      PROVE  ClientsStay /\ Undisturbed'
  BY <1>a DEF ClientsStay, Undisturbed, HasStarted
<1>b. ASSUME UNCHANGED <<inc, env>>, NEW w \in Workflow, NEW cl,
             client' = [client EXCEPT ![w] = cl],
             HasStarted(w) => cl.pc # "idle" /\ cl.node = client[w].node
      PROVE  ClientsStay /\ Undisturbed'
  BY <1>0, <1>b DEF ClientsStay, Undisturbed, HasStarted
<1>1. CASE UNCHANGED vars
  BY <1>1, <1>a DEF vars
<1>2. CASE \E e \in pending : Commit(e)
  BY <1>2, <1>a DEF Commit
<1>3. CASE \E e \in pending : Lose(e)
  BY <1>0, <1>3, <1>a DEF Lose, Env
<1>4. CASE \E n \in Node, m \in Node : InstallSnapshot(n, m)
  BY <1>0, <1>4, <1>a DEF InstallSnapshot, Env
<1>5. CASE \E n \in Node : Observe(n) \/ Restart(n)
  BY <1>5, <1>a DEF Observe, Restart
<1>6. ~ (\E n \in Node : Crash(n)) /\ ~ (\E w \in Workflow, m \in Node : ChangeOwner(w, m))
  BY <1>0 DEF Crash, ChangeOwner, Undisturbed
<1>7. ASSUME NEW n \in Node, NEW w \in Workflow, ExecStep(n, w)
      PROVE  ClientsStay /\ Undisturbed'
  BY <1>7, <1>a, ExecFrame
<1>8. CASE \E n \in Node, w \in Workflow : ProposeError(n, w)
  BY <1>0, <1>8, <1>a DEF ProposeError, Env
<1>9. ASSUME NEW n \in Node, NEW w \in Workflow, StartWorkflow(n, w)
      PROVE  ClientsStay /\ Undisturbed'
  BY <1>9, <1>b DEF StartWorkflow, HasStarted
<1>10. ASSUME NEW w \in Workflow, ClientStep(w)
       PROVE  ClientsStay /\ Undisturbed'
  <2>1. client[w] \in Client
    BY <1>0
  <2>2. CASE ClientSubscribe(w)
    BY <1>b, <2>1, <2>2 DEF ClientSubscribe, HasStarted, Client
  <2>3. CASE ClientReceive(w)
    BY <1>b, <2>1, <2>3 DEF ClientReceive, HasStarted, Client
  <2>4. QED BY <1>10, <2>2, <2>3 DEF ClientStep
<1>11. ASSUME NEW n \in Node, Apply(n)
       PROVE  ClientsStay /\ Undisturbed'
  <2> DEFINE e == log[applied[n] + 1]
             w == e.sync.wf
  <2>1. w \in Workflow /\ client[w] \in Client
    <3>1. applied[n] \in Nat /\ applied[n] < Len(log)
      BY <1>11, TypeInvFacts DEF Apply
    <3>2. e \in Entry
      BY <3>1, TypeInvFacts
    <3>3. QED BY <1>0, <3>2 DEF Entry, SyncId
  <2>2. UNCHANGED <<inc, env>>
    BY <1>11 DEF Apply
  <2>3. client' = [client EXCEPT ![w] = WakeClient(e, client[w])] \/ client' = client
    BY <1>11 DEF Apply
  <2>4. HasStarted(w) => WakeClient(e, client[w]).pc # "idle"
                         /\ WakeClient(e, client[w]).node = client[w].node
    BY <2>1 DEF HasStarted, WakeClient, Client
  <2>5. CASE client' = client
    BY <1>a, <2>2, <2>5
  <2>6. QED BY <1>b, <2>1, <2>2, <2>3, <2>4, <2>5
<1>12. QED
  BY <1>1, <1>2, <1>3, <1>4, <1>5, <1>6, <1>7, <1>8, <1>9, <1>10, <1>11 DEF Next

\* What is sound stays sound, as it is about workflows that have started.
LEMMA SoundStays ==
    ASSUME ClientsStay
    PROVE  /\ \A qk, v : SoundValue(qk, v) => SoundValue(qk, v)'
           /\ \A c \in Command : SoundCommand(c) => SoundCommand(c)'
           /\ \A s : SoundCore(s) => SoundCore(s)'
<1>1. ASSUME NEW w \in Workflow, HasStarted(w), NEW i
      PROVE  OwnValue(w, i)' = OwnValue(w, i)
  BY <1>1 DEF ClientsStay, OwnValue
<1>2. ASSUME NEW qk, NEW v, SoundValue(qk, v) PROVE SoundValue(qk, v)'
  <2>1. v.wf \in Workflow /\ HasStarted(v.wf) /\ OwnValue(v.wf, v.step)' = OwnValue(v.wf, v.step)
    BY <1>1, <1>2 DEF SoundValue
  <2>2. QED BY <1>2, <2>1 DEF SoundValue, ClientsStay
<1>3. ASSUME NEW c \in Command, SoundCommand(c) PROVE SoundCommand(c)'
  <2>1. c.wf \in Workflow /\ HasStarted(c.wf) /\ HasStarted(c.wf)' /\ client'[c.wf].node = client[c.wf].node
    BY <1>3, CommandCases DEF SoundCommand, ClientsStay
  <2>2. OwnValue(c.wf, c.value.step)' = OwnValue(c.wf, c.value.step)
    BY <1>1, <2>1
  <2>3. QED BY <1>3, <2>1, <2>2 DEF SoundCommand, SoundSet
<1>4. ASSUME NEW s, SoundCore(s) PROVE SoundCore(s)'
  <2>1. SoundHistory(s)'
    BY <1>2, <1>4 DEF SoundCore, SoundHistory
  <2>2. ASSUME NEW w \in Workflow PROVE SoundOwner(s, w)'
    BY <1>4 DEF SoundCore, SoundOwner, ClientsStay
  <2>3. QED BY <2>1, <2>2 DEF SoundCore
<1>5. QED BY <1>2, <1>3, <1>4

\* apply() of a sound command leads from a sound state to one, and no owner
\* is withdrawn.
LEMMA ApplySound ==
    ASSUME NEW s \in Core, NEW c \in Command, SoundCore(s), SoundCommand(c)
    PROVE  SoundCore(ApplyCore(s, c)) /\ OwnersStay(s, ApplyCore(s, c))
<1> DEFINE t == ApplyCore(s, c)
<1>0. c.wf \in Workflow /\ HasStarted(c.wf) /\ None \notin Node
  BY CommandCases, IdAssumption DEF SoundCommand
<1>1. CASE c \in StartCommand /\ c.type = "WorkflowStart"
  <2>1. /\ t.history = s.history
        /\ t.inputs = s.inputs \cup {c.wf}
        /\ t.ownership = [s.ownership EXCEPT ![c.wf] = c.owner]
    BY <1>1 DEF ApplyCore, ApplyStart, Core
  <2>2. c.owner \in Node /\ c.owner = client[c.wf].node /\ s.ownership \in [Workflow -> Node \cup {None}]
    BY <1>1 DEF StartCommand, SoundCommand, Core
  <2>3. \A w \in Workflow : SoundOwner(t, w)
    BY <1>0, <2>1, <2>2 DEF SoundCore, SoundOwner
  <2>4. SoundHistory(t)
    BY <2>1 DEF SoundCore, SoundHistory
  <2>5. OwnersStay(s, t)
    BY <1>0, <2>1, <2>2 DEF OwnersStay
  <2>6. QED BY <2>3, <2>4, <2>5 DEF SoundCore
<1>2. CASE c \in EndCommand /\ c.type = "WorkflowEnd"
  <2>1. /\ t.history = Retain(s.history, c.wf)
        /\ t.inputs = s.inputs \ {c.wf}
        /\ t.ownership = s.ownership
    BY <1>2 DEF ApplyCore, ApplyEnd, ApplyQueues, Core
  <2>2. SoundHistory(t)
    <3> SUFFICES ASSUME NEW qk \in QueueKey, NEW j \in DOMAIN t.history[qk]
                 PROVE  SoundValue(qk, t.history[qk][j])
      BY DEF SoundHistory
    <3>1. t.history[qk] = IF StartsWith(qk, c.wf) THEN <<>> ELSE s.history[qk]
      BY <2>1 DEF Retain
    <3>2. t.history[qk] = s.history[qk]
      BY <3>1
    <3>3. QED BY <3>2 DEF SoundCore, SoundHistory
  <2>3. \A w \in Workflow : SoundOwner(t, w)
    BY <2>1 DEF SoundCore, SoundOwner
  <2>4. QED BY <2>1, <2>2, <2>3 DEF SoundCore, OwnersStay
<1>3. CASE c \in SetCommand /\ c.type = "SetCheckpoint"
  <2> DEFINE ck == make_queue_key(c.wf, c.key)
  <2>1. /\ t.history = [s.history EXCEPT ![ck] = Append(@, c.value)]
        /\ t.inputs = s.inputs
        /\ t.ownership = s.ownership
    BY <1>3 DEF ApplyCore, ApplySet, ApplyQueues, Push, Core
  <2>2. SoundValue(ck, c.value)
    <3>1. SoundSet(c)
      BY <1>3 DEF SoundCommand
    <3>2. c.value.wf = c.wf
      BY <3>1 DEF SoundSet, OwnValue
    <3>3. QED BY <1>0, <3>1, <3>2 DEF SoundSet, SoundValue
  <2>3. SoundHistory(t)
    <3> SUFFICES ASSUME NEW qk \in QueueKey, NEW j \in DOMAIN t.history[qk]
                 PROVE  SoundValue(qk, t.history[qk][j])
      BY DEF SoundHistory
    <3>1. s.history \in [QueueKey -> Seq(Value)] /\ s.history[qk] \in Seq(Value) /\ c.value \in Value
      BY <1>3 DEF Core, SetCommand
    <3>2. CASE qk = ck
      <4>1. t.history[qk] = Append(s.history[qk], c.value)
        BY <2>1, <3>1, <3>2
      <4>2. \/ j \in DOMAIN s.history[qk] /\ t.history[qk][j] = s.history[qk][j]
            \/ t.history[qk][j] = c.value
        BY <3>1, <4>1
      <4>3. QED BY <2>2, <3>2, <4>2 DEF SoundCore, SoundHistory
    <3>3. CASE qk # ck
      <4>1. t.history[qk] = s.history[qk]
        BY <2>1, <3>1, <3>3
      <4>2. QED BY <4>1 DEF SoundCore, SoundHistory
    <3>4. QED BY <3>2, <3>3
  <2>4. \A w \in Workflow : SoundOwner(t, w)
    BY <2>1 DEF SoundCore, SoundOwner
  <2>5. QED BY <2>1, <2>3, <2>4 DEF SoundCore, OwnersStay
<1>4. QED BY <1>1, <1>2, <1>3, CommandCases DEF SoundCommand

\* The states the log leads to stay sound: only a commit adds one.
LEMMA NextStates ==
    ASSUME TypeInv, ReplicasFollowLog, Owned, ClientsStay, [Next]_vars
    PROVE  States'
<1> USE DEF raftVars, nodeVars, taskVars
<1>a. ASSUME ref' = ref PROVE States'
  <2>1. \A i \in DOMAIN ref' : SoundCore(ref[i])'
    BY <1>a, SoundStays DEF Owned, States
  <2>2. QED BY <1>a, <2>1 DEF Owned, States, OwnersStay
<1>1. ASSUME NEW e \in pending, Commit(e) PROVE States'
  <2> DEFINE s == ref[Len(ref)]
             t == ApplyCore(s, e.cmd)
  <2>1. ref \in Seq(Core) /\ Len(ref) \in Nat \ {0} /\ s \in Core /\ e.cmd \in Command
    BY DEF TypeInv, TypeOK, Entry
  <2>2. SoundCore(s) /\ SoundCommand(e.cmd)
    BY <2>1 DEF Owned, States, Commands
  <2>3. SoundCore(t) /\ OwnersStay(s, t)
    BY <2>1, <2>2, ApplySound
  <2>4. ref' = Append(ref, t)
    BY <1>1 DEF Commit
  <2> HIDE DEF t
  <2>5. /\ DOMAIN ref' = 1..(Len(ref) + 1)
        /\ \A i \in 1..Len(ref) : ref'[i] = ref[i]
        /\ ref'[Len(ref) + 1] = t
    BY <2>1, <2>4
  <2>7. ASSUME NEW i \in DOMAIN ref' PROVE SoundCore(ref'[i])
    BY <2>1, <2>3, <2>5 DEF Owned, States
  <2>8. client' = client
    BY <1>1 DEF Commit
  <2>11. ASSUME NEW i \in DOMAIN ref', NEW j \in DOMAIN ref', i <= j
         PROVE  OwnersStay(ref'[i], ref'[j])
    <3>1. CASE j \in 1..Len(ref)
      <4>1. i \in 1..Len(ref) /\ ref'[i] = ref[i] /\ ref'[j] = ref[j]
        BY <2>1, <2>5, <2>11, <3>1
      <4>2. QED BY <2>1, <2>11, <3>1, <4>1 DEF Owned, States
    <3>2. CASE j = Len(ref) + 1 /\ i \in 1..Len(ref)
      <4>1. OwnersStay(ref[i], s)
        BY <2>1, <3>2 DEF Owned, States
      <4>2. QED BY <2>3, <2>5, <3>2, <4>1 DEF OwnersStay
    <3>3. CASE i = j
      BY <3>3 DEF OwnersStay
    <3>4. QED BY <2>1, <2>5, <2>11, <3>1, <3>2, <3>3
  <2>12. ASSUME NEW i \in DOMAIN ref' PROVE SoundCore(ref[i])'
    <3>1. PICK u : u = ref'[i]
      OBVIOUS
    <3>2. SoundCore(u)'
      BY <2>7, <2>12, <3>1, SoundStays
    <3>3. QED BY <3>1, <3>2
  <2>13. ASSUME NEW i \in DOMAIN ref', NEW j \in DOMAIN ref', i <= j
         PROVE  OwnersStay(ref[i], ref[j])'
    BY <2>11, <2>13 DEF OwnersStay
  <2>14. QED BY <2>12, <2>13 DEF States
<1>2. CASE UNCHANGED vars
  BY <1>2, <1>a DEF vars
<1>3. CASE \/ \E e \in pending : Lose(e)
           \/ \E w \in Workflow, m \in Node : ChangeOwner(w, m)
           \/ \E n \in Node : Restart(n) \/ Observe(n) \/ Apply(n) \/ Crash(n)
           \/ \E n, m \in Node : InstallSnapshot(n, m)
           \/ \E w \in Workflow : ClientStep(w)
           \/ \E n \in Node, w \in Workflow : StartWorkflow(n, w) \/ ProposeError(n, w)
  BY <1>3, <1>a
     DEF Lose, ChangeOwner, Restart, Observe, Apply, Crash, InstallSnapshot, ClientStep,
         ClientSubscribe, ClientReceive, StartWorkflow, ProposeError
<1>4. CASE \E n \in Node, w \in Workflow : ExecStep(n, w)
  BY <1>4, <1>a, ExecFrame
<1>5. QED BY <1>1, <1>2, <1>3, <1>4 DEF Next

\* The replicas are at states the log leads to.
LEMMA ReplicasSound ==
    ASSUME TypeInv, ReplicasFollowLog, Owned, NEW n \in Node
    PROVE  /\ applied[n] + 1 \in DOMAIN ref
           /\ core[n] = ref[applied[n] + 1]
           /\ SoundCore(core[n])
<1>1. /\ applied[n] \in Nat /\ applied[n] <= Len(log) /\ Len(ref) = Len(log) + 1
      /\ ref \in Seq(Core) /\ log \in Seq(Entry) /\ core[n] = ref[applied[n] + 1]
  BY DEF TypeInv, TypeOK, ReplicasFollowLog
<1>2. applied[n] + 1 \in DOMAIN ref
  BY <1>1
<1>3. QED BY <1>1, <1>2 DEF Owned, States

\* No replica loses the owner of a workflow.
LEMMA ReplicasKeepOwners ==
    ASSUME TypeInv, ReplicasFollowLog, Owned, [Next]_vars, NEW n \in Node
    PROVE  OwnersStay(core[n], core'[n])
<1> USE DEF raftVars, nodeVars, taskVars
<1>0. core \in [Node -> Core]
  BY TypeInvFacts
<1>a. ASSUME core' = core PROVE OwnersStay(core[n], core'[n])
  BY <1>a DEF OwnersStay
<1>b. ASSUME NEW i \in Node, NEW s, core' = [core EXCEPT ![i] = s], OwnersStay(core[i], s)
      PROVE  OwnersStay(core[n], core'[n])
  BY <1>0, <1>b DEF OwnersStay
<1>1. ASSUME NEW i \in Node, Apply(i) PROVE OwnersStay(core[n], core'[n])
  <2> DEFINE c == log[applied[i] + 1].cmd
  <2>1. c \in Command /\ SoundCommand(c)
    <3>1. applied[i] \in Nat /\ applied[i] < Len(log) /\ log \in Seq(Entry)
      BY <1>1, TypeInvFacts DEF Apply
    <3>2. applied[i] + 1 \in DOMAIN log /\ log[applied[i] + 1] \in Entry
      BY <3>1
    <3>3. QED BY <3>2 DEF Entry, Owned, Commands
  <2>2. OwnersStay(core[i], ApplyCore(core[i], c))
    BY <1>0, <2>1, ReplicasSound, ApplySound
  <2>3. core' = [core EXCEPT ![i] = ApplyCore(core[i], c)]
    BY <1>1 DEF Apply
  <2>4. QED BY <1>b, <2>2, <2>3
<1>2. ASSUME NEW i \in Node, NEW m \in Node, InstallSnapshot(i, m)
      PROVE  OwnersStay(core[n], core'[n])
  <2>1. core' = [core EXCEPT ![i] = core[m]]
    BY <1>0, <1>2, RestoreType DEF InstallSnapshot
  <2>2. applied[i] + 1 <= applied[m] + 1
    BY <1>2, TypeInvFacts DEF InstallSnapshot
  <2>3. OwnersStay(core[i], core[m])
    BY <2>2, ReplicasSound DEF Owned, States
  <2>4. QED BY <1>b, <2>1, <2>3
<1>3. CASE UNCHANGED vars
  BY <1>3, <1>a DEF vars
<1>4. CASE \/ \E e \in pending : Lose(e) \/ Commit(e)
           \/ \E w \in Workflow, m \in Node : ChangeOwner(w, m)
           \/ \E i \in Node : Restart(i) \/ Observe(i)
           \/ \E w \in Workflow : ClientStep(w)
           \/ \E i \in Node, w \in Workflow : StartWorkflow(i, w) \/ ProposeError(i, w)
  BY <1>4, <1>a
     DEF Lose, Commit, ChangeOwner, Restart, Observe, ClientStep,
         ClientSubscribe, ClientReceive, StartWorkflow, ProposeError
<1>5. CASE \E i \in Node, w \in Workflow : ExecStep(i, w)
  BY <1>5, <1>a, ExecFrame
<1>6. ASSUME NEW i \in Node PROVE ~Crash(i)
  BY TypeInvFacts DEF Crash, Owned, Undisturbed
<1>7. QED BY <1>1, <1>2, <1>3, <1>4, <1>5, <1>6 DEF Next

\* A node that takes itself for the owner is the one that started the
\* workflow, and what it proposes is sound.
LEMMA OwnerStarted ==
    ASSUME TypeInv, ReplicasFollowLog, Owned, NEW n \in Node, NEW w \in Workflow,
           exec[n][w].pc = "check", IsOwner(n, w)
    PROVE  n = client[w].node /\ SoundCommand(StepCommand(n, w, exec[n][w]))
<1> DEFINE x == exec[n][w]
<1>1. x.pc = "check" /\ SoundExec(n, w, x) /\ SoundOwner(core[n], w)
  BY ReplicasSound DEF Owned, Execs, SoundCore
<1>2. n = client[w].node /\ HasStarted(w)
  BY <1>1 DEF SoundExec, SoundOwner, IsOwner
<1>3. inc[n] = 0
  BY DEF Owned, Undisturbed
<1>4. x.step \in Nat /\ x.step > 0
  BY <1>1, TypeInvExec DEF ExecOK, Exec
<1>5. CASE IsCheckpoint(w, x.step)
  <2>1. x.step \in DOMAIN Program[w]
    BY <1>4, <1>5, ProgramType, RuntimeAssumption DEF IsCheckpoint
  <2>2. MyValue(n, w, x) = OwnValue(w, x.step)
    BY <1>2, <1>3 DEF MyValue, OwnValue
  <2>3. OwnValue(w, x.step).step = x.step
    BY DEF OwnValue
  <2> DEFINE c == StepCommand(n, w, x)
  <2>4. c.type = "SetCheckpoint" /\ c.wf = w /\ c.key = Program[w][x.step]
        /\ c.value = OwnValue(w, x.step)
    BY <1>5, <2>2 DEF StepCommand
  <2> HIDE DEF c
  <2>5. SoundCommand(c)
    BY <1>2, <2>1, <2>3, <2>4 DEF SoundCommand, SoundSet
  <2>6. QED BY <1>2, <2>5 DEF c
<1>6. CASE ~IsCheckpoint(w, x.step)
  BY <1>2, <1>6 DEF StepCommand, SoundCommand
<1>7. QED BY <1>5, <1>6

\* What is proposed, committed and published stays sound.
LEMMA NextCommands ==
    ASSUME TypeInv, ReplicasFollowLog, Owned, ClientsStay, [Next]_vars
    PROVE  Commands'
<1> USE DEF raftVars, nodeVars, taskVars
<1>0. /\ pending \subseteq Entry /\ log \in Seq(Entry) /\ events \in [Node -> Seq(Command)]
      /\ \A e \in Entry : e.cmd \in Command
  BY TypeInvFacts DEF Entry
<1>1. /\ \A e \in pending : SoundCommand(e.cmd) /\ e.cmd \in Command
      /\ \A k \in DOMAIN log : SoundCommand(log[k].cmd) /\ log[k].cmd \in Command
      /\ \A n \in Node : \A k \in DOMAIN events[n] :
            SoundCommand(events[n][k]) /\ events[n][k] \in Command
  BY <1>0 DEF Owned, Commands
<1>2. \A c \in Command : SoundCommand(c) => SoundCommand(c)'
  BY SoundStays
<1>p. ASSUME NEW p, pending' \subseteq pending \cup {p}, SoundCommand(p.cmd)'
      PROVE  \A e \in pending' : SoundCommand(e.cmd)'
  BY <1>1, <1>2, <1>p
<1>q. ASSUME pending' \subseteq pending
      PROVE  \A e \in pending' : SoundCommand(e.cmd)'
  BY <1>1, <1>2, <1>q
<1>l. ASSUME log' = log PROVE \A k \in DOMAIN log' : SoundCommand(log[k].cmd)'
  BY <1>1, <1>2, <1>l
<1>e. ASSUME events' = events
      PROVE  \A n \in Node : \A k \in DOMAIN events'[n] : SoundCommand(events[n][k])'
  BY <1>1, <1>2, <1>e
<1>3. ASSUME NEW e \in pending, Commit(e) PROVE Commands'
  <2>1. log' = Append(log, e) /\ events' = events /\ pending' \subseteq pending
    BY <1>3 DEF Commit
  <2>2. ASSUME NEW k \in DOMAIN log' PROVE SoundCommand(log[k].cmd)'
    <3>1. (k \in DOMAIN log /\ log'[k] = log[k]) \/ log'[k] = e
      BY <1>0, <2>1
    <3>2. QED BY <1>1, <1>2, <3>1
  <2>3. QED BY <1>e, <1>q, <2>1, <2>2 DEF Commands
<1>4. ASSUME NEW n \in Node, Apply(n) PROVE Commands'
  <2>1. pending' = pending /\ log' = log
    BY <1>4 DEF Apply
  <2>2. PICK c : c = log[applied[n] + 1].cmd
    OBVIOUS
  <2>3. events' = [events EXCEPT ![n] = Append(@, c)]
    BY <1>4, <2>2 DEF Apply
  <2>4. c \in Command /\ SoundCommand(c)
    <3>1. applied[n] \in Nat /\ applied[n] < Len(log)
      BY <1>4, TypeInvFacts DEF Apply
    <3>2. applied[n] + 1 \in DOMAIN log
      BY <1>0, <3>1
    <3>3. QED BY <1>1, <2>2, <3>2
  <2>5. ASSUME NEW i \in Node, NEW k \in DOMAIN events'[i] PROVE SoundCommand(events[i][k])'
    <3>1. (k \in DOMAIN events[i] /\ events'[i][k] = events[i][k]) \/ events'[i][k] = c
      BY <1>0, <2>3, <2>4
    <3>2. QED BY <1>1, <1>2, <2>4, <3>1
  <2>6. QED BY <1>l, <1>q, <2>1, <2>5 DEF Commands
<1>5. ASSUME NEW n \in Node, NEW w \in Workflow, StartWorkflow(n, w) PROVE Commands'
  <2> DEFINE c == [type |-> "WorkflowStart", wf |-> w, owner |-> n]
  <2>1. client'[w].pc = "starting" /\ client'[w].node = n
    BY <1>5, TypeInvFacts DEF StartWorkflow
  <2>2. SoundCommand(c)'
    BY <2>1 DEF SoundCommand, HasStarted
  <2>3. pending' = pending \cup
            {[cmd |-> c, sync |-> [node |-> n, inc |-> inc[n], wf |-> w, step |-> 0]]}
    BY <1>5 DEF StartWorkflow, Propose
  <2>4. PICK p : p.cmd = c /\ pending' = pending \cup {p}
    BY <2>3
  <2>5. SoundCommand(p.cmd)'
    BY <2>2, <2>4
  <2>6. \A e \in pending' : SoundCommand(e.cmd)'
    BY <1>p, <2>4, <2>5
  <2>7. QED BY <1>5, <1>l, <1>e, <2>6 DEF StartWorkflow, Commands
<1>6. ASSUME NEW n \in Node, NEW w \in Workflow, exec[n][w].pc = "check", IsOwner(n, w),
             Propose(n, w, exec[n][w].step, StepCommand(n, w, exec[n][w]))
      PROVE  \A e \in pending' : SoundCommand(e.cmd)'
  <2>1. PICK c : c = StepCommand(n, w, exec[n][w])
    OBVIOUS
  <2>2. SoundCommand(c) /\ c \in Command
    BY <1>6, <2>1, OwnerStarted, StepCommandType, TypeInvExec DEF TypeInv, TypeOK
  <2>3. PICK p : p.cmd = c /\ pending' = pending \cup {p}
    BY <1>6, <2>1 DEF Propose
  <2>4. SoundCommand(p.cmd)'
    BY <1>2, <2>2, <2>3
  <2>5. QED BY <1>p, <2>3, <2>4
<1>7. ASSUME NEW n \in Node, NEW w \in Workflow, OwnerPropose(n, w) \/ ProposeError(n, w)
      PROVE  Commands'
  <2>1. log' = log /\ events' = events
    BY <1>7 DEF OwnerPropose, ProposeError
  <2>2. \A e \in pending' : SoundCommand(e.cmd)'
    BY <1>6, <1>7, <1>q DEF OwnerPropose, ProposeError
  <2>3. QED BY <1>l, <1>e, <2>1, <2>2 DEF Commands
<1>8. ASSUME pending' \subseteq pending, log' = log, events' = events PROVE Commands'
  BY <1>8, <1>q, <1>l, <1>e DEF Commands
<1>9. CASE UNCHANGED vars
  BY <1>8, <1>9 DEF vars
<1>10. CASE \/ \E e \in pending : Lose(e)
            \/ \E n \in Node : Restart(n) \/ Observe(n)
            \/ \E n, m \in Node : InstallSnapshot(n, m)
            \/ \E w \in Workflow : ClientStep(w)
  BY <1>8, <1>10
     DEF Lose, Restart, Observe, InstallSnapshot, ClientStep, ClientSubscribe, ClientReceive
<1>11. ASSUME NEW n \in Node, NEW w \in Workflow, ExecStep(n, w), ~OwnerPropose(n, w)
       PROVE  Commands'
  <2>1. UNCHANGED <<log, events>>
    BY <1>11, ExecFrame
  <2>2. pending' = pending
    BY <1>11 DEF ExecStep, Launch, Compute, TryDequeue, Subscribe, PopOwn, BecomeWaiter,
                 Receive, Timeout
  <2>3. QED BY <1>8, <2>1, <2>2
<1>12. /\ ~ (\E n \in Node : Crash(n))
       /\ ~ (\E w \in Workflow, m \in Node : ChangeOwner(w, m))
  BY TypeInvFacts DEF Crash, ChangeOwner, Owned, Undisturbed
<1>13. QED BY <1>3, <1>4, <1>5, <1>7, <1>9, <1>10, <1>11, <1>12 DEF Next

\* The value a call reads is the one its owner computes for this call: what is
\* queued under its key, and what is published for it.
LEMMA QueuedIsOwn ==
    ASSUME TypeInv, ReplicasFollowLog, QueueIsSuffixOfHistory, Owned,
           Unambiguous, KeysUsedOnce,
           NEW n \in Node, NEW w \in Workflow, NEW i \in DOMAIN Program[w],
           HasQueued(queues[n], w, Program[w][i])
    PROVE  QueueFront(queues[n], w, Program[w][i]) = OwnValue(w, i)
<1> DEFINE k == Program[w][i]
           qk == make_queue_key(w, k)
           h == core[n].history[qk]
           q == queues[n][qk]
           v == Head(q)
<1>1. k \in Key /\ qk \in QueueKey
  BY RuntimeAssumption, QueueKeyType
<1>2. h \in Seq(Value) /\ q \in Seq(Value) /\ q # <<>> /\ EndsWith(h, q)
  BY <1>1, TypeInvFacts DEF Core, Queues, HasQueued, QueueIsSuffixOfHistory
<1> HIDE DEF h, q
<1>3. \E j \in DOMAIN h : v = h[j]
  <2>1. Len(q) > 0 /\ v = q[1] /\ Len(q) <= Len(h) /\ Len(q) \in Nat /\ Len(h) \in Nat
    BY <1>2 DEF EndsWith
  <2>2. q[1] = h[Len(h) - Len(q) + 1] /\ Len(h) - Len(q) + 1 \in 1..Len(h)
    BY <1>2, <2>1 DEF EndsWith
  <2>3. QED BY <1>2, <2>1, <2>2
<1>4. SoundValue(qk, v)
  <2>1. SoundHistory(core[n])
    BY ReplicasSound DEF SoundCore
  <2>2. QED BY <1>1, <1>3, <2>1 DEF SoundHistory, h
<1>5. v.wf \in Workflow /\ v.step \in DOMAIN Program[v.wf] /\ Program[v.wf][v.step] \in Key
      /\ v = OwnValue(v.wf, v.step) /\ qk = make_queue_key(v.wf, Program[v.wf][v.step])
  BY <1>4, RuntimeAssumption DEF SoundValue
<1>6. v.wf = w /\ Program[v.wf][v.step] = k
  BY <1>1, <1>5 DEF Unambiguous
<1>7. v.step = i
  BY <1>5, <1>6 DEF KeysUsedOnce
<1>8. QED BY <1>5, <1>6, <1>7 DEF QueueFront, q

\* The event that emit_event broadcasts for a checkpoint, and that a follower
\* waits for, carries the value the owner computed for this call.
LEMMA PublishedIsOwn ==
    ASSUME Owned, KeysUsedOnce, NEW n \in Node, NEW j \in DOMAIN events[n],
           NEW w \in Workflow, NEW i \in DOMAIN Program[w],
           events[n][j].type = "SetCheckpoint", events[n][j].wf = w,
           events[n][j].key = Program[w][i]
    PROVE  events[n][j].value = OwnValue(w, i)
<1>1. SoundSet(events[n][j])
  BY DEF Owned, Commands, SoundCommand
<1>2. QED BY <1>1 DEF SoundSet, KeysUsedOnce

\* What a step of an execution does to its state: it goes on within a call...
Goes(n, w, x, y) ==
    /\ y.step = x.step /\ y.got = x.got /\ y.res = x.res
    /\ \/ x.pc = "spawned" /\ y.pc = "exited"
       \/ x.pc = "spawned" /\ y.pc \in {"compute", "subscribe"} /\ w \in core[n].inputs
       \/ x.pc = "compute" /\ y.pc = "dequeue"
       \/ x.pc = "dequeue" /\ y.pc = "subscribe"
       \/ x.pc = "subscribe" /\ y.pc = "check"
       \/ x.pc = "check" /\ y.pc = "await" /\ IsOwner(n, w)
       \/ x.pc = "check" /\ y.pc = "wait"
       \/ x.pc = "wait" /\ y.pc \in {"subscribe", "done"}
       \/ x.pc \in {"check", "wait"} /\ y.pc = "exited" /\ ~IsCheckpoint(w, x.step)

\* ... or returns from set_checkpoint with a value it found in the queue, has
\* computed itself, or was told of...
Found(n, w, x, v) ==
    \/ /\ x.pc = "dequeue" /\ HasQueued(queues[n], w, Program[w][x.step])
       /\ v = QueueFront(queues[n], w, Program[w][x.step])
    \/ x.pc = "pop" /\ v = MyValue(n, w, x)
    \/ /\ x.pc = "wait"
       /\ \E j \in DOMAIN events[n] :
              /\ events[n][j].type = "SetCheckpoint" /\ events[n][j].wf = w
              /\ events[n][j].key = Program[w][x.step] /\ events[n][j].value = v

Returns(n, w, x, y) ==
    /\ IsCheckpoint(w, x.step)
    /\ y.pc = EnterStep(w, x.step + 1) /\ y.step = x.step + 1 /\ y.res = x.res
    /\ \E v \in Value : Found(n, w, x, v) /\ y.got = Append(x.got, v)

\* ... or ends its function with an error.
GivesUp(n, w, x, y) ==
    /\ IsCheckpoint(w, x.step)
    /\ x.pc \in {"check", "wait"} /\ y.pc = "subscribe"
    /\ y.step = Len(Program[w]) + 1 /\ y.got = x.got
    /\ env.error > 0 \/ \E j \in DOMAIN events[n] : events[n][j].type = "OwnerChange"

ExecMoves(n, w, x, y) == Goes(n, w, x, y) \/ Returns(n, w, x, y) \/ GivesUp(n, w, x, y)

\* An attempt that is repeated, or was the last.
LEMMA RetryMoves ==
    ASSUME NEW n \in Node, NEW w \in Workflow, NEW x \in Exec, x.pc = "wait",
           x.attempt + 1 < MaxAttempts \/ \E j \in DOMAIN events[n] : events[n][j].type = "OwnerChange"
    PROVE  ExecMoves(n, w, x, Retry(w, x))
<1>1. PICK y : y = Retry(w, x)
  OBVIOUS
<1>2. CASE x.attempt + 1 < MaxAttempts
  <2>1. y.pc = "subscribe" /\ y.step = x.step /\ y.got = x.got /\ y.res = x.res
    BY <1>1, <1>2 DEF Retry
  <2>2. Goes(n, w, x, y)
    BY <2>1 DEF Goes
  <2>3. QED BY <1>1, <2>2 DEF ExecMoves
<1>3. CASE ~(x.attempt + 1 < MaxAttempts) /\ IsCheckpoint(w, x.step)
  <2>1. y.pc = "subscribe" /\ y.step = Len(Program[w]) + 1 /\ y.got = x.got
    BY <1>1, <1>3 DEF Retry, Fail
  <2>2. GivesUp(n, w, x, y)
    BY <1>3, <2>1 DEF GivesUp
  <2>3. QED BY <1>1, <2>2 DEF ExecMoves
<1>4. CASE ~(x.attempt + 1 < MaxAttempts) /\ ~IsCheckpoint(w, x.step)
  <2>1. y.pc = "exited" /\ y.step = x.step /\ y.got = x.got /\ y.res = x.res
    BY <1>1, <1>4 DEF Retry, Fail, Exec
  <2>2. Goes(n, w, x, y)
    BY <1>4, <2>1 DEF Goes
  <2>3. QED BY <1>1, <2>2 DEF ExecMoves
<1>5. QED BY <1>2, <1>3, <1>4

\* Every step of an execution is one of these.
LEMMA ExecStepMoves ==
    ASSUME TypeInv, NEW n \in Node, NEW w \in Workflow,
           ExecStep(n, w) \/ ProposeError(n, w)
    PROVE  \E y \in Exec : SetExec(n, w, y) /\ ExecMoves(n, w, exec[n][w], y)
<1> DEFINE x == exec[n][w]
<1>0. /\ ExecOK(w, x) /\ x \in Exec /\ x.sub \in Nat /\ x.step \in Nat
      /\ x.attempt \in Nat /\ MaxAttempts \in Nat
      /\ exec \in [Node -> [Workflow -> Exec]]
  BY TypeInvExec, TypeInvFacts, RuntimeAssumption DEF ExecOK, Exec
<1>1. CASE Launch(n, w)
  <2> DEFINE y == [x EXCEPT !.pc = IF w \in Registered[n] /\ w \in core[n].inputs
                                   THEN EnterStep(w, x.step) ELSE "exited"]
  <2>1. SetExec(n, w, y) /\ x.pc = "spawned"
    BY <1>0, <1>1 DEF Launch, SetExec
  <2>2. y \in Exec /\ y.step = x.step /\ y.got = x.got /\ y.res = x.res
    BY <1>0 DEF Exec, Pc, EnterStep
  <2>3. \/ y.pc = "exited"
        \/ y.pc \in {"compute", "subscribe"} /\ w \in core[n].inputs
    BY <1>0 DEF Exec, EnterStep
  <2>4. Goes(n, w, x, y)
    BY <2>1, <2>2, <2>3 DEF Goes
  <2>5. QED BY <2>1, <2>2, <2>4 DEF ExecMoves
<1>2. CASE Compute(n, w)
  <2> DEFINE y == [x EXCEPT !.pc = "dequeue"]
  <2>1. SetExec(n, w, y) /\ x.pc = "compute"
    BY <1>2 DEF Compute
  <2>2. y \in Exec /\ y.step = x.step /\ y.got = x.got /\ y.res = x.res /\ y.pc = "dequeue"
    BY <1>0 DEF Exec, Pc
  <2>3. Goes(n, w, x, y)
    BY <2>1, <2>2 DEF Goes
  <2>4. QED BY <2>1, <2>2, <2>3 DEF ExecMoves
<1>3. CASE TryDequeue(n, w)
  <2> DEFINE k == Program[w][x.step]
  <2>1. x.pc = "dequeue" /\ x.step > 0 /\ IsCheckpoint(w, x.step)
    BY <1>0, <1>3 DEF TryDequeue, ExecOK
  <2>2. CASE HasQueued(queues[n], w, k)
    <3> DEFINE v == QueueFront(queues[n], w, k)
               y == Return(w, x, v)
    <3>1. v \in Value
      BY <1>0, <2>1, <2>2, PopType, ProgramType, TypeInvFacts
    <3>2. SetExec(n, w, y)
      BY <1>3, <2>2 DEF TryDequeue
    <3>3. y \in Exec
      BY <1>0, <2>1, <3>1, ExecStepsOK DEF ExecOK
    <3>4. Found(n, w, x, v)
      BY <2>1, <2>2 DEF Found
    <3>5. Returns(n, w, x, y)
      BY <2>1, <3>1, <3>4 DEF Returns, Return
    <3>6. QED BY <3>2, <3>3, <3>5 DEF ExecMoves
  <2>3. CASE ~HasQueued(queues[n], w, k)
    <3> DEFINE y == [x EXCEPT !.pc = "subscribe"]
    <3>1. SetExec(n, w, y)
      BY <1>3, <2>3 DEF TryDequeue
    <3>2. y \in Exec /\ y.step = x.step /\ y.got = x.got /\ y.res = x.res /\ y.pc = "subscribe"
      BY <1>0 DEF Exec, Pc
    <3>3. Goes(n, w, x, y)
      BY <2>1, <3>2 DEF Goes
    <3>4. QED BY <3>1, <3>2, <3>3 DEF ExecMoves
  <2>4. QED BY <2>2, <2>3
<1>4. CASE Subscribe(n, w)
  <2> DEFINE y == [x EXCEPT !.pc = "check", !.sub = Len(events[n])]
  <2>1. SetExec(n, w, y) /\ x.pc = "subscribe" /\ Len(events[n]) \in Nat
    BY <1>4, TypeInvFacts DEF Subscribe
  <2>2. y \in Exec /\ y.step = x.step /\ y.got = x.got /\ y.res = x.res /\ y.pc = "check"
    BY <1>0, <2>1 DEF Exec, Pc
  <2>3. Goes(n, w, x, y)
    BY <2>1, <2>2 DEF Goes
  <2>4. QED BY <2>1, <2>2, <2>3 DEF ExecMoves
<1>5. CASE OwnerPropose(n, w)
  <2> DEFINE y == [x EXCEPT !.pc = "await", !.sub = 0]
  <2>1. SetExec(n, w, y) /\ x.pc = "check" /\ IsOwner(n, w)
    BY <1>5 DEF OwnerPropose
  <2>2. y \in Exec /\ y.step = x.step /\ y.got = x.got /\ y.res = x.res /\ y.pc = "await"
    BY <1>0 DEF Exec, Pc
  <2>3. Goes(n, w, x, y)
    BY <2>1, <2>2 DEF Goes
  <2>4. QED BY <2>1, <2>2, <2>3 DEF ExecMoves
<1>6. CASE ProposeError(n, w)
  <2> DEFINE y == Fail(w, x)
  <2>1. SetExec(n, w, y) /\ x.pc = "check" /\ env.error > 0
    BY <1>6 DEF ProposeError
  <2>2. y \in Exec
    BY <1>0, <2>1, ExecStepsOK DEF ExecOK
  <2>3. CASE IsCheckpoint(w, x.step)
    <3>1. GivesUp(n, w, x, y)
      BY <2>1, <2>3 DEF Fail, GivesUp
    <3>2. QED BY <2>1, <2>2, <3>1 DEF ExecMoves
  <2>4. CASE ~IsCheckpoint(w, x.step)
    <3>1. Goes(n, w, x, y)
      BY <1>0, <2>1, <2>4 DEF Fail, Goes, Exec
    <3>2. QED BY <2>1, <2>2, <3>1 DEF ExecMoves
  <2>5. QED BY <2>3, <2>4
<1>7. CASE PopOwn(n, w)
  <2> DEFINE v == MyValue(n, w, x)
             y == Return(w, x, v)
  <2>1. x.pc = "pop" /\ IsCheckpoint(w, x.step) /\ SetExec(n, w, y)
    BY <1>0, <1>7 DEF PopOwn, ExecOK
  <2>2. v \in Value
    BY <1>0 DEF MyValue, Value, TypeInv, TypeOK
  <2>3. y \in Exec
    BY <1>0, <2>1, <2>2, ExecStepsOK DEF ExecOK
  <2>4. Found(n, w, x, v)
    BY <2>1 DEF Found
  <2>5. Returns(n, w, x, y)
    BY <2>1, <2>2, <2>4 DEF Returns, Return
  <2>6. QED BY <2>1, <2>3, <2>5 DEF ExecMoves
<1>8. CASE BecomeWaiter(n, w)
  <2> DEFINE y == [x EXCEPT !.pc = "wait"]
  <2>1. SetExec(n, w, y) /\ x.pc = "check"
    BY <1>8 DEF BecomeWaiter
  <2>2. y \in Exec /\ y.step = x.step /\ y.got = x.got /\ y.res = x.res /\ y.pc = "wait"
    BY <1>0 DEF Exec, Pc
  <2>3. Goes(n, w, x, y)
    BY <2>1, <2>2 DEF Goes
  <2>4. QED BY <2>1, <2>2, <2>3 DEF ExecMoves
<1>9. CASE Receive(n, w)
  <2> DEFINE After(e) == CASE e.type = "OwnerChange"   -> Retry(w, x)
                           [] e.type = "SetCheckpoint" -> Return(w, x, e.value)
                           [] e.type = "WorkflowEnd"   -> [x EXCEPT !.pc = "done", !.sub = 0]
  <2>1. PICK i \in Visible(n, x.sub) :
            Awaited(w, x, events[n][i]) /\ SetExec(n, w, After(events[n][i]))
    BY <1>9 DEF Receive, FirstEvent
  <2>2. i \in DOMAIN events[n] /\ events[n][i] \in Command
    <3>1. i \in 1..Len(events[n]) /\ events[n][i] \in Command
      BY <1>0, <2>1, VisibleType
    <3>2. events[n] \in Seq(Command)
      BY TypeInvFacts
    <3>3. QED BY <3>1, <3>2
  <2>3. x.pc = "wait"
    BY <1>9 DEF Receive
  <2> DEFINE e == events[n][i]
  <2>4. CASE e.type = "OwnerChange"
    <3>1. ExecMoves(n, w, x, Retry(w, x))
      BY <1>0, <2>2, <2>3, <2>4, RetryMoves
    <3>2. Retry(w, x) \in Exec
      BY <1>0, <2>3, ExecStepsOK DEF ExecOK
    <3>3. SetExec(n, w, Retry(w, x))
      BY <2>1, <2>4
    <3>4. QED BY <3>1, <3>2, <3>3
  <2>5. CASE e.type = "SetCheckpoint"
    <3> DEFINE v == e.value
               y == Return(w, x, v)
    <3>1. IsCheckpoint(w, x.step) /\ e.wf = w /\ e.key = Program[w][x.step]
      BY <2>1, <2>5 DEF Awaited
    <3>2. v \in Value
      BY <2>2, <2>5, CommandCases DEF SetCommand
    <3>3. y \in Exec
      BY <1>0, <2>3, <3>2, ExecStepsOK DEF ExecOK
    <3>4. SetExec(n, w, y)
      BY <2>1, <2>5
    <3>5. Found(n, w, x, v)
      BY <2>2, <2>3, <2>5, <3>1 DEF Found
    <3>6. Returns(n, w, x, y)
      BY <3>1, <3>2, <3>5 DEF Returns, Return
    <3>7. QED BY <3>3, <3>4, <3>6 DEF ExecMoves
  <2>6. CASE e.type = "WorkflowEnd"
    <3> DEFINE y == [x EXCEPT !.pc = "done", !.sub = 0]
    <3>1. SetExec(n, w, y)
      BY <2>1, <2>6
    <3>2. y \in Exec /\ y.step = x.step /\ y.got = x.got /\ y.res = x.res /\ y.pc = "done"
      BY <1>0 DEF Exec, Pc
    <3>3. Goes(n, w, x, y)
      BY <2>3, <3>2 DEF Goes
    <3>4. QED BY <3>1, <3>2, <3>3 DEF ExecMoves
  <2>7. QED BY <2>1, <2>4, <2>5, <2>6 DEF Awaited
<1>10. CASE Timeout(n, w)
  <2>1. SetExec(n, w, Retry(w, x)) /\ x.pc = "wait" /\ x.attempt + 1 < MaxAttempts
    BY <1>0, <1>10 DEF Timeout
  <2>2. ExecMoves(n, w, x, Retry(w, x))
    BY <1>0, <2>1, RetryMoves
  <2>3. Retry(w, x) \in Exec
    BY <1>0, <2>1, ExecStepsOK DEF ExecOK
  <2>4. QED BY <2>1, <2>2, <2>3
<1>11. QED
  BY <1>1, <1>2, <1>3, <1>4, <1>5, <1>6, <1>7, <1>8, <1>9, <1>10 DEF ExecStep

\* The execution is woken by the entry its node applies, or born of an event.
Woken(n, w, x, y) ==
    /\ \E k \in DOMAIN log : /\ k = applied[n] + 1 /\ log[k].sync.node = n
                             /\ log[k].sync.inc = inc[n] /\ log[k].sync.wf = w
                             /\ log[k].sync.step = x.step
    /\ x.pc = "await" /\ y.pc = IF IsCheckpoint(w, x.step) THEN "pop" ELSE "done"
    /\ y.step = x.step /\ y.got = x.got /\ y.res = x.res

Born(n, w, x, y) ==
    /\ y = Spawned
    /\ \E i \in DOMAIN events[n] : /\ i > obs[n] /\ IsStart(events[n][i]) /\ events[n][i].wf = w
                                   /\ obs' = [obs EXCEPT ![n] = i]

Changes(n, w, x, y) == ExecMoves(n, w, x, y) \/ Woken(n, w, x, y) \/ Born(n, w, x, y)

\* In a cluster that is not disturbed, a step changes at most one execution,
\* in one of these ways.
LEMMA ExecChanges ==
    ASSUME TypeInv, Undisturbed, [Next]_vars
    PROVE  \/ exec' = exec
           \/ \E n \in Node, w \in Workflow : \E y \in Exec :
                  SetExec(n, w, y) /\ Changes(n, w, exec[n][w], y)
<1> USE DEF raftVars, nodeVars, taskVars
<1>0. exec \in [Node -> [Workflow -> Exec]]
  BY TypeInvFacts
<1>1. ASSUME NEW n \in Node, NEW w \in Workflow, ExecStep(n, w) \/ ProposeError(n, w)
      PROVE  \E y \in Exec : SetExec(n, w, y) /\ Changes(n, w, exec[n][w], y)
  BY <1>1, ExecStepMoves DEF Changes
<1>2. ASSUME NEW n \in Node, Observe(n)
      PROVE  \E w \in Workflow : \E y \in Exec :
                 SetExec(n, w, y) /\ Changes(n, w, exec[n][w], y)
  <2>1. PICK i \in Visible(n, obs[n]) :
            /\ FirstEvent(n, obs[n], i, IsStart)
            /\ obs' = [obs EXCEPT ![n] = i]
            /\ exec' = [exec EXCEPT ![n][events[n][i].wf] = Spawned]
    BY <1>2 DEF Observe
  <2>2. obs[n] \in Nat /\ events[n] \in Seq(Command) /\ BusCapacity \in Nat
    BY TypeInvFacts, RuntimeAssumption DEF TypeInv, TypeOK
  <2>3. i \in 1..Len(events[n]) /\ events[n][i] \in Command
    BY <2>1, <2>2, VisibleType
  <2>4. i > obs[n]
    BY <2>1, <2>2, <2>3 DEF Visible, Oldest
  <2>5. IsStart(events[n][i])
    BY <2>1 DEF FirstEvent
  <2>6. Spawned \in Exec
    BY DEF Spawned, Exec, Pc
  <2>7. PICK w \in Workflow : w = events[n][i].wf
    BY <2>3, CommandCases
  <2>8. i \in DOMAIN events[n]
    BY <2>2, <2>3
  <2>9. Born(n, w, exec[n][w], Spawned)
    BY <2>1, <2>4, <2>5, <2>7, <2>8 DEF Born
  <2>10. SetExec(n, w, Spawned)
    BY <2>1, <2>7 DEF SetExec
  <2>11. QED BY <2>6, <2>9, <2>10 DEF Changes
<1>3. ASSUME NEW n \in Node, Apply(n), exec' # exec
      PROVE  \E w \in Workflow : \E y \in Exec :
                 SetExec(n, w, y) /\ Changes(n, w, exec[n][w], y)
  <2> DEFINE k == applied[n] + 1
             e == log[k]
             w == e.sync.wf
             x == exec[n][w]
             y == WakeExec(n, e, x)
  <2>1. k \in DOMAIN log /\ e \in Entry /\ w \in Workflow
    <3>1. applied[n] \in Nat /\ applied[n] < Len(log) /\ log \in Seq(Entry)
      BY <1>3, TypeInvFacts DEF Apply
    <3>2. k \in DOMAIN log /\ e \in Entry
      BY <3>1
    <3>3. QED BY <3>2 DEF Entry, SyncId
  <2>2. Completed(n, e) /\ SetExec(n, w, y)
    BY <1>3 DEF Apply, SetExec
  <2>3. x.pc = "await" /\ e.sync.step = x.step
    <3>1. CASE y = x
      <4>1. exec' = exec
        BY <1>0, <2>1, <2>2, <3>1 DEF SetExec
      <4>2. QED BY <1>3, <4>1
    <3>2. QED BY <3>1 DEF WakeExec
  <2>4. /\ y \in Exec /\ y.step = x.step /\ y.got = x.got /\ y.res = x.res
        /\ y.pc = IF IsCheckpoint(w, x.step) THEN "pop" ELSE "done"
    <3>1. PICK p : p = IF IsCheckpoint(w, x.step) THEN "pop" ELSE "done"
      OBVIOUS
    <3>2. y = [x EXCEPT !.pc = p] /\ p \in Pc
      BY <2>3, <3>1 DEF WakeExec, Pc
    <3>3. x \in Exec
      BY <1>0, <2>1
    <3>4. y \in Exec /\ y.step = x.step /\ y.got = x.got /\ y.res = x.res /\ y.pc = p
      BY <3>2, <3>3 DEF Exec
    <3>5. QED BY <3>1, <3>4
  <2>5. Woken(n, w, x, y)
    BY <2>1, <2>2, <2>3, <2>4 DEF Woken, Completed
  <2>6. QED BY <2>1, <2>2, <2>4, <2>5 DEF Changes
<1>4. CASE UNCHANGED vars
  BY <1>4 DEF vars
<1>5. CASE \/ \E e \in pending : Lose(e) \/ Commit(e)
           \/ \E n \in Node : Restart(n)
           \/ \E n, m \in Node : InstallSnapshot(n, m)
           \/ \E w \in Workflow : ClientStep(w)
           \/ \E n \in Node, w \in Workflow : StartWorkflow(n, w)
  BY <1>5
     DEF Lose, Commit, Restart, InstallSnapshot, ClientStep, ClientSubscribe,
         ClientReceive, StartWorkflow
<1>6. /\ ~ (\E n \in Node : Crash(n))
      /\ ~ (\E w \in Workflow, m \in Node : ChangeOwner(w, m))
  BY TypeInvFacts DEF Crash, ChangeOwner, Undisturbed
<1>7. QED BY <1>1, <1>2, <1>3, <1>4, <1>5, <1>6 DEF Next

\* A sound execution stays sound when others move.
LEMMA ExecStaysSound ==
    ASSUME ClientsStay, NEW n \in Node, NEW w \in Workflow, NEW x \in Exec,
           OwnersStay(core[n], core'[n]), SoundExec(n, w, x)
    PROVE  SoundExec(n, w, x)'
  BY DEF SoundExec, ClientsStay, OwnersStay

\* A sound execution changes to a sound one.
LEMMA ChangesSound ==
    ASSUME TypeInv, ReplicasFollowLog, Owned, NEW n \in Node, NEW w \in Workflow,
           NEW y \in Exec, Changes(n, w, exec[n][w], y)
    PROVE  SoundExec(n, w, y)
<1> DEFINE x == exec[n][w]
<1>0. x \in Exec /\ x.step \in Nat /\ Len(Program[w]) \in Nat
  BY TypeInvFacts, ProgramType DEF Exec
<1>1. SoundExec(n, w, x) /\ SoundOwner(core[n], w)
  BY ReplicasSound DEF Owned, Execs, SoundCore
<1>2. CASE Goes(n, w, x, y)
  <2>1. y.pc = "await" => n = client[w].node
    BY <1>1, <1>2 DEF Goes, SoundExec, SoundOwner, IsOwner
  <2>2. y.pc # "exited" => core[n].ownership[w] # None
    BY <1>1, <1>2 DEF Goes, SoundExec, SoundOwner
  <2>3. x.pc # "none" /\ y.step = x.step /\ y.pc # "pop"
    BY <1>2 DEF Goes
  <2>4. QED BY <1>1, <2>1, <2>2, <2>3 DEF SoundExec
<1>3. CASE Returns(n, w, x, y)
  <2>1. x.pc \in {"dequeue", "pop", "wait"} /\ y.pc \in {"compute", "subscribe"}
    BY <1>3 DEF Returns, Found, EnterStep
  <2>2. y.step <= Len(Program[w]) + 1
    BY <1>0, <1>3 DEF Returns, IsCheckpoint
  <2>3. QED BY <1>1, <2>1, <2>2 DEF SoundExec
<1>4. CASE GivesUp(n, w, x, y)
  BY <1>0, <1>1, <1>4 DEF GivesUp, SoundExec
<1>5. CASE Woken(n, w, x, y)
  BY <1>1, <1>5 DEF Woken, SoundExec
<1>6. CASE Born(n, w, x, y)
  <2>1. y.pc = "spawned" /\ y.step = 1
    BY <1>6 DEF Born, Spawned
  <2>2. HasStarted(w)
    BY <1>6 DEF Born, Owned, Commands, SoundCommand
  <2>3. QED BY <1>0, <2>1, <2>2 DEF SoundExec
<1>7. QED BY <1>2, <1>3, <1>4, <1>5, <1>6 DEF Changes, ExecMoves

\* Every step keeps the executions sound.
LEMMA NextExecs ==
    ASSUME TypeInv, ReplicasFollowLog, Owned, ClientsStay, [Next]_vars
    PROVE  Execs'
<1> SUFFICES ASSUME NEW i \in Node, NEW v \in Workflow PROVE SoundExec(i, v, exec[i][v])'
  BY DEF Execs
<1>0. exec \in [Node -> [Workflow -> Exec]]
  BY TypeInvFacts
<1>1. PICK z \in Exec : z = exec'[i][v] /\ SoundExec(i, v, z)
  <2>1. exec[i][v] \in Exec /\ SoundExec(i, v, exec[i][v])
    BY <1>0 DEF Owned, Execs
  <2>2. CASE exec' = exec
    BY <2>1, <2>2
  <2>3. ASSUME NEW n \in Node, NEW w \in Workflow, NEW y \in Exec, SetExec(n, w, y),
               Changes(n, w, exec[n][w], y)
        PROVE  exec'[i][v] \in Exec /\ SoundExec(i, v, exec'[i][v])
    <3>1. SoundExec(n, w, y)
      BY <2>3, ChangesSound
    <3>2. exec'[i][v] = IF i = n /\ v = w THEN y ELSE exec[i][v]
      BY <1>0, <2>3 DEF SetExec
    <3>3. QED BY <2>1, <3>1, <3>2
  <2>4. Undisturbed
    BY DEF Owned
  <2>5. QED BY <2>2, <2>3, <2>4, ExecChanges
<1>2. SoundExec(i, v, z)'
  BY <1>1, ReplicasKeepOwners, ExecStaysSound
<1>3. QED BY <1>1, <1>2

\* Initially nothing is started, proposed or executed.
LEMMA InitOwned ==
    ASSUME Calm, Init
    PROVE  Owned
<1>1. Undisturbed
  BY DEF Calm, Init, Undisturbed
<1>2. SoundCore(NewCore)
  <2>1. /\ NewCore.history = [qk \in QueueKey |-> <<>>] /\ NewCore.inputs = {}
        /\ NewCore.ownership = [w \in Workflow |-> None]
    BY DEF NewCore, NewQueues
  <2>2. QED BY <2>1 DEF SoundCore, SoundHistory, SoundOwner
<1>3. States
  <2>1. ref = <<NewCore>> /\ DOMAIN ref = {1} /\ ref[1] = NewCore
    BY DEF Init
  <2>2. QED BY <1>2, <2>1 DEF States, OwnersStay
<1>4. Commands
  BY DEF Init, Commands
<1>5. Execs
  BY DEF Init, Execs, SoundExec, NoExec
<1>6. QED BY <1>1, <1>3, <1>4, <1>5 DEF Owned

\* The invariant of a cluster that is not disturbed.
OwnedInv == TypeInv /\ ReplicasFollowLog /\ Owned

\* Every step of a node, a client or the network keeps the invariant: what is
\* proposed, committed, broadcast and stored comes from the owner.
LEMMA NextOwned ==
    ASSUME OwnedInv, [Next]_vars
    PROVE  OwnedInv' /\ ClientsStay
<1>1. TypeInv /\ ReplicasFollowLog /\ Owned /\ Undisturbed
  BY DEF OwnedInv, Owned
<1>2. TypeInv' /\ ReplicasFollowLog'
  BY <1>1, NextType, NextFollows
<1>3. ClientsStay /\ Undisturbed'
  BY <1>1, ClientsStayLemma
<1>4. States' /\ Commands' /\ Execs'
  BY <1>1, <1>3, NextStates, NextCommands, NextExecs
<1>5. QED BY <1>2, <1>3, <1>4 DEF OwnedInv, Owned

-----------------------------------------------------------------------------
(* Agreement of the executions. *)

\* The value a call returns with is the one its owner computes for this call.
LEMMA FoundIsOwn ==
    ASSUME OwnedInv, QueueIsSuffixOfHistory, Unambiguous, KeysUsedOnce,
           NEW n \in Node, NEW w \in Workflow, IsCheckpoint(w, exec[n][w].step),
           NEW v \in Value, Found(n, w, exec[n][w], v)
    PROVE  v = OwnValue(w, exec[n][w].step)
<1> DEFINE x == exec[n][w]
<1>0. TypeInv /\ ReplicasFollowLog /\ Owned
  BY DEF OwnedInv
<1>1. x.step \in DOMAIN Program[w]
  <2>1. x.step \in Nat /\ x.step > 0
    BY <1>0, TypeInvExec DEF ExecOK, Exec, Found
  <2>2. QED BY <2>1, ProgramType, RuntimeAssumption DEF IsCheckpoint
<1>2. CASE x.pc = "dequeue"
  BY <1>0, <1>1, <1>2, QueuedIsOwn DEF Found
<1>3. CASE x.pc = "pop"
  <2>1. n = client[w].node /\ inc[n] = 0
    BY <1>0, <1>3 DEF Owned, Execs, SoundExec, Undisturbed
  <2>2. v = MyValue(n, w, x)
    BY <1>3 DEF Found
  <2>3. QED BY <2>1, <2>2 DEF MyValue, OwnValue
<1>4. CASE x.pc = "wait"
  BY <1>0, <1>1, <1>4, PublishedIsOwn DEF Found
<1>5. QED BY <1>2, <1>3, <1>4 DEF Found

\* One more of its owner's values is seen.
LEMMA AppendOwn ==
    ASSUME NEW w, NEW s \in Seq(Value), NEW v \in Value, v = OwnValue(w, Len(s) + 1),
           \A j \in DOMAIN s : s[j] = OwnValue(w, j)
    PROVE  /\ \A j \in DOMAIN Append(s, v) : Append(s, v)[j] = OwnValue(w, j)
           /\ Len(Append(s, v)) = Len(s) + 1
<1>1. PICK t : t = Append(s, v)
  OBVIOUS
<1>2. /\ Len(t) = Len(s) + 1 /\ DOMAIN t = 1..(Len(s) + 1) /\ Len(s) \in Nat
      /\ DOMAIN s = 1..Len(s)
      /\ \A j \in 1..Len(s) : t[j] = s[j]
      /\ t[Len(s) + 1] = v
  BY <1>1
<1>3. ASSUME NEW j \in DOMAIN t PROVE t[j] = OwnValue(w, j)
  <2>1. j \in DOMAIN s \/ j = Len(s) + 1
    BY <1>2
  <2>2. QED BY <1>2, <2>1
<1>4. QED BY <1>1, <1>2, <1>3

\* Every change of an execution leaves it with its owner's values.
LEMMA ChangesSeen ==
    ASSUME OwnedInv, QueueIsSuffixOfHistory, Unambiguous, KeysUsedOnce, Seen,
           NEW n \in Node, NEW w \in Workflow, NEW y \in Exec,
           Changes(n, w, exec[n][w], y)
    PROVE  SoundGot(w, y)
<1> DEFINE x == exec[n][w]
<1>0. /\ x \in Exec /\ x.step \in Nat /\ x.got \in Seq(Value) /\ y.got \in Seq(Value)
      /\ Len(Program[w]) \in Nat
  BY TypeInvFacts, ProgramType DEF Exec, OwnedInv
<1>1. SoundGot(w, x)
  BY DEF Seen
<1>2. CASE Goes(n, w, x, y)
  BY <1>1, <1>2 DEF Goes, SoundGot
<1>3. CASE Returns(n, w, x, y)
  <2>1. PICK v \in Value : Found(n, w, x, v) /\ y.got = Append(x.got, v)
    BY <1>3 DEF Returns
  <2>2. x.pc # "none" /\ y.pc # "none" /\ y.step = x.step + 1 /\ IsCheckpoint(w, x.step)
    BY <1>3, <2>1 DEF Returns, Found, EnterStep
  <2>3. v = OwnValue(w, x.step) /\ Len(x.got) = x.step - 1
    BY <1>1, <2>1, <2>2, FoundIsOwn DEF SoundGot
  <2>4. PICK s \in Seq(Value) : s = x.got
    BY <1>0
  <2>5. v = OwnValue(w, Len(s) + 1) /\ Len(s) + 1 = x.step /\ y.got = Append(s, v)
    <3>1. PICK i \in Nat : i = x.step
      BY <1>0
    <3>2. Len(s) + 1 = i
      BY <2>3, <2>4, <3>1
    <3>3. QED BY <2>1, <2>3, <2>4, <3>1, <3>2
  <2>6. \A j \in DOMAIN s : s[j] = OwnValue(w, j)
    BY <1>1, <2>4 DEF SoundGot
  <2>7. (\A j \in DOMAIN y.got : y.got[j] = OwnValue(w, j)) /\ Len(y.got) = Len(s) + 1
    BY <2>5, <2>6, AppendOwn
  <2>8. QED BY <1>0, <2>2, <2>5, <2>7 DEF SoundGot
<1>4. CASE GivesUp(n, w, x, y)
  <2>1. ~IsCheckpoint(w, y.step) /\ y.got = x.got /\ y.pc # "none"
    BY <1>0, <1>4 DEF GivesUp, IsCheckpoint
  <2>2. QED BY <1>1, <2>1 DEF SoundGot
<1>5. CASE Woken(n, w, x, y)
  BY <1>1, <1>5 DEF Woken, SoundGot
<1>6. CASE Born(n, w, x, y)
  <2>1. y.got = <<>> /\ y.step = 1 /\ y.pc = "spawned"
    BY <1>6 DEF Born, Spawned
  <2>2. QED BY <2>1 DEF SoundGot
<1>7. QED BY <1>2, <1>3, <1>4, <1>5, <1>6 DEF Changes, ExecMoves

\* Every step keeps what the executions have seen: set_replicated_var returns
\* to each of them, owner or follower, the value of its owner for this call.
LEMMA NextSeen ==
    ASSUME OwnedInv, QueueIsSuffixOfHistory, Unambiguous, KeysUsedOnce, Seen, [Next]_vars
    PROVE  Seen'
<1> SUFFICES ASSUME NEW i \in Node, NEW u \in Workflow PROVE SoundGot(u, exec[i][u])'
  BY DEF Seen
<1>0. exec \in [Node -> [Workflow -> Exec]] /\ TypeInv /\ Undisturbed
  BY TypeInvFacts DEF OwnedInv, Owned
<1>1. PICK z \in Exec : z = exec'[i][u] /\ SoundGot(u, z) /\ SoundExec(i, u, z)
  <2>1. exec[i][u] \in Exec /\ SoundGot(u, exec[i][u]) /\ SoundExec(i, u, exec[i][u])
    BY <1>0 DEF Seen, OwnedInv, Owned, Execs
  <2>2. CASE exec' = exec
    BY <2>1, <2>2
  <2>3. ASSUME NEW n \in Node, NEW w \in Workflow, NEW y \in Exec, SetExec(n, w, y),
               Changes(n, w, exec[n][w], y)
        PROVE  exec'[i][u] \in Exec /\ SoundGot(u, exec'[i][u]) /\ SoundExec(i, u, exec'[i][u])
    <3>1. SoundGot(w, y) /\ SoundExec(n, w, y)
      BY <2>3, ChangesSeen, ChangesSound DEF OwnedInv
    <3>2. exec'[i][u] = IF i = n /\ u = w THEN y ELSE exec[i][u]
      BY <1>0, <2>3 DEF SetExec
    <3>3. QED BY <2>1, <3>1, <3>2
  <2>4. QED BY <1>0, <2>2, <2>3, ExecChanges
<1>2. SoundGot(u, z)'
  <2>1. CASE z.pc = "none"
    BY <1>1, <2>1 DEF SoundGot
  <2>2. CASE z.pc # "none"
    <3>1. HasStarted(u) /\ client'[u].node = client[u].node
      BY <1>1, <2>2, NextOwned DEF SoundExec, ClientsStay
    <3>2. \A j : OwnValue(u, j)' = OwnValue(u, j)
      BY <3>1 DEF OwnValue
    <3>3. QED BY <1>1, <3>2 DEF SoundGot
  <2>3. QED BY <2>1, <2>2
<1>3. QED BY <1>1, <1>2

\* Sequences that are made of the same values agree on their common part.
LEMMA SameValuesPrefix ==
    ASSUME NEW s \in Seq(Value), NEW t \in Seq(Value), Len(s) <= Len(t),
           \A j \in DOMAIN s : s[j] = t[j]
    PROVE  IsPrefix(s, t)
<1>1. Len(s) \in Nat /\ Len(t) \in Nat /\ DOMAIN s = 1..Len(s)
  OBVIOUS
<1>2. SubSeq(s, 1, Len(s)) = SubSeq(t, 1, Len(s))
  BY <1>1
<1>3. QED BY <1>2 DEF IsPrefix

\* Executions that have seen only their owner's values, in the order of the
\* program's calls, agree as far as both have come.
LEMMA SeenAgrees == ASSUME OwnedInv, Seen PROVE ExecutionAgreement
<1> SUFFICES ASSUME NEW n \in Node, NEW m \in Node, NEW w \in Workflow
             PROVE  \/ IsPrefix(exec[n][w].got, exec[m][w].got)
                    \/ IsPrefix(exec[m][w].got, exec[n][w].got)
  BY DEF ExecutionAgreement
<1>1. PICK s \in Seq(Value), t \in Seq(Value) : s = exec[n][w].got /\ t = exec[m][w].got
  BY TypeInvFacts DEF OwnedInv, Exec
<1>2. /\ \A j \in DOMAIN s : s[j] = OwnValue(w, j)
      /\ \A j \in DOMAIN t : t[j] = OwnValue(w, j)
  BY <1>1 DEF Seen, SoundGot
<1>3. Len(s) \in Nat /\ Len(t) \in Nat /\ DOMAIN s = 1..Len(s) /\ DOMAIN t = 1..Len(t)
  OBVIOUS
<1>4. CASE Len(s) <= Len(t)
  <2>1. \A j \in DOMAIN s : s[j] = t[j]
    BY <1>2, <1>3, <1>4
  <2>2. QED BY <1>1, <1>4, <2>1, SameValuesPrefix
<1>5. CASE Len(t) <= Len(s)
  <2>1. \A j \in DOMAIN t : t[j] = s[j]
    BY <1>2, <1>3, <1>5
  <2>2. QED BY <1>1, <1>5, <2>1, SameValuesPrefix
<1>6. QED BY <1>3, <1>4, <1>5

\* Whatever a node runs a workflow as - the owner, that proposes each
\* checkpoint, or a follower, that takes it from the queue or from the events -
\* set_replicated_var returns the same values in the same order: any two
\* executions of a workflow agree as far as both have come, for any number of
\* nodes, workflows, lost proposals and snapshots. No node crashes and no owner
\* is changed, and no two calls share a queue: neither by the string "id:key" nor
\* by a workflow that sets a key twice.
THEOREM ExecutionsAgree ==
    ASSUME Calm, Unambiguous, KeysUsedOnce
    PROVE  Spec => []ExecutionAgreement
<1> DEFINE Inv == OwnedInv /\ QueueIsSuffixOfHistory /\ Seen
<1>1. Init => Inv
  <2>1. Init => Seen
    BY DEF Init, Seen, SoundGot, NoExec
  <2>2. QED BY <2>1, InitType, InitFollows, InitLeft, InitOwned DEF OwnedInv
<1>2. Inv /\ [Next]_vars => Inv'
  BY NextOwned, NextLeft, NextSeen DEF OwnedInv
<1>3. Inv => ExecutionAgreement
  BY SeenAgrees
<1>4. QED BY <1>1, <1>2, <1>3, PTL DEF Spec

-----------------------------------------------------------------------------
(* The result of a workflow. *)

StartOf(w, c) == IsStart(c) /\ c.wf = w

\* Execution x has gone beyond the proposal of call i.
Past(x, i) ==
    /\ x.pc # "none"
    /\ x.step > i \/ (x.step = i /\ x.pc \in {"await", "pop", "done", "exited"})

\* The call a command comes from.
StepOf(c) ==
    CASE c.type = "WorkflowStart" -> 0
      [] c.type = "SetCheckpoint" -> c.value.step
      [] c.type = "WorkflowEnd"   -> Len(Program[c.wf]) + 1

\* An entry is named by the call it comes from, which its proposer has left.
Named(e) ==
    /\ e.sync = [node |-> client[e.cmd.wf].node, inc |-> 0, wf |-> e.cmd.wf,
                 step |-> StepOf(e.cmd)]
    /\ StepOf(e.cmd) > 0 =>
           Past(exec[client[e.cmd.wf].node][e.cmd.wf], StepOf(e.cmd))

Names == /\ \A e \in pending : Named(e)
         /\ \A k \in DOMAIN log : Named(log[k])

\* No call is proposed twice.
Distinct ==
    /\ \A e, f \in pending : e.sync = f.sync => e = f
    /\ \A j, k \in DOMAIN log : log[j].sync = log[k].sync => j = k
    /\ \A e \in pending, k \in DOMAIN log : e.sync # log[k].sync

\* Events come from the log, each node hears of the start of a workflow once,
\* and has an execution only when its observer has read it.
Published ==
    \A n \in Node : \A j \in DOMAIN events[n] :
        \E k \in DOMAIN log : k <= applied[n] /\ events[n][j] = log[k].cmd

StartedOnce ==
    \A n \in Node, w \in Workflow : \A j, k \in DOMAIN events[n] :
        StartOf(w, events[n][j]) /\ StartOf(w, events[n][k]) => j = k

Observed ==
    \A n \in Node, w \in Workflow : exec[n][w].pc # "none" =>
        \E j \in DOMAIN events[n] : j <= obs[n] /\ StartOf(w, events[n][j])

\* A completed workflow has its end in the log.
Ended ==
    \A i \in DOMAIN ref, w \in Workflow : ref[i].workflows[w] = "Completed" =>
        \E k \in DOMAIN log : IsEnd(w, log[k].cmd)

Once == Names /\ Distinct /\ Published /\ StartedOnce /\ Observed /\ Ended

\* An execution is born once, so it never goes back.
LEMMA PastStays ==
    ASSUME OwnedInv, StartedOnce, Observed, [Next]_vars,
           NEW n \in Node, NEW w \in Workflow, NEW i \in Nat, Past(exec[n][w], i)
    PROVE  Past(exec'[n][w], i)
<1>0. /\ exec \in [Node -> [Workflow -> Exec]] /\ TypeInv /\ Undisturbed /\ ReplicasFollowLog
      /\ Owned
  BY TypeInvFacts DEF OwnedInv, Owned
<1> DEFINE x == exec[n][w]
<1>1. CASE exec' = exec
  BY <1>1
<1>2. ASSUME NEW m \in Node, NEW v \in Workflow, NEW y \in Exec, SetExec(m, v, y),
             Changes(m, v, exec[m][v], y)
      PROVE  Past(exec'[n][w], i)
  <2>1. CASE ~(m = n /\ v = w)
    <3>1. exec'[n][w] = x
      BY <1>0, <1>2, <2>1 DEF SetExec
    <3>2. QED BY <3>1
  <2>2. CASE m = n /\ v = w
    <3>1. exec'[n][w] = y /\ Changes(n, w, x, y)
      BY <1>0, <1>2, <2>2 DEF SetExec
    <3>2. x.step \in Nat /\ y.step \in Nat /\ Len(Program[w]) \in Nat /\ x.pc # "none"
      BY <1>0, <1>2, ProgramType DEF Exec, Past
    <3>3. ASSUME Goes(n, w, x, y) PROVE Past(y, i)
      BY <3>2, <3>3 DEF Goes, Past
    <3>4. ASSUME Returns(n, w, x, y) PROVE Past(y, i)
      BY <3>2, <3>4 DEF Returns, Past, EnterStep
    <3>5. ASSUME GivesUp(n, w, x, y) PROVE Past(y, i)
      BY <3>2, <3>5 DEF GivesUp, Past, IsCheckpoint
    <3>6. ASSUME Woken(n, w, x, y) PROVE Past(y, i)
      BY <3>2, <3>6 DEF Woken, Past
    <3>7. CASE Born(n, w, x, y)
      <4>1. PICK j \in DOMAIN events[n] : j > obs[n] /\ StartOf(w, events[n][j])
        BY <3>7 DEF Born, StartOf
      <4>2. PICK k \in DOMAIN events[n] : k <= obs[n] /\ StartOf(w, events[n][k])
        BY <3>2 DEF Observed
      <4>3. j = k
        BY <4>1, <4>2 DEF StartedOnce
      <4>4. obs[n] \in Nat /\ j \in Nat
        BY <1>0, TypeInvFacts DEF TypeInv, TypeOK
      <4>5. QED BY <4>1, <4>2, <4>3, <4>4
    <3>8. QED BY <3>1, <3>3, <3>4, <3>5, <3>6, <3>7 DEF Changes, ExecMoves
  <2>3. QED BY <2>1, <2>2
<1>3. QED BY <1>0, <1>1, <1>2, ExecChanges

\* The entry p is new: the start of a workflow, or the proposal of an owner.
Proposed(n, w, p, y) ==
    LET x == exec[n][w] IN
    /\ x.pc = "check" /\ IsOwner(n, w) /\ SetExec(n, w, y)
    /\ (y.pc = "await" /\ y.step = x.step) \/ (env.error > 0 /\ y = Fail(w, x))
    /\ p.cmd = StepCommand(n, w, x)
    /\ p.sync = [node |-> n, inc |-> inc[n], wf |-> w, step |-> x.step]

Starting(n, w, p) ==
    /\ client[w].pc = "idle" /\ client'[w].node = n
    /\ p.cmd = [type |-> "WorkflowStart", wf |-> w, owner |-> n]
    /\ p.sync = [node |-> n, inc |-> inc[n], wf |-> w, step |-> 0]

NewEntry(p) ==
    \E n \in Node, w \in Workflow :
        Starting(n, w, p) \/ \E y \in Exec : Proposed(n, w, p, y)

\* What a step does to the proposals and to the log.
LEMMA EntryChanges ==
    ASSUME TypeInv, Undisturbed, [Next]_vars
    PROVE  \/ pending' \subseteq pending /\ log' = log
           \/ \E e \in pending : pending' = pending \ {e} /\ log' = Append(log, e)
           \/ \E p : pending' = pending \cup {p} /\ log' = log /\ NewEntry(p)
<1> USE DEF raftVars, nodeVars, taskVars
<1>1. ASSUME NEW n \in Node, NEW w \in Workflow, StartWorkflow(n, w)
      PROVE  \E p : pending' = pending \cup {p} /\ log' = log /\ NewEntry(p)
  <2> DEFINE p == [cmd |-> [type |-> "WorkflowStart", wf |-> w, owner |-> n],
                   sync |-> [node |-> n, inc |-> inc[n], wf |-> w, step |-> 0]]
  <2>1. client'[w].node = n
    BY <1>1, TypeInvFacts DEF StartWorkflow
  <2>2. Starting(n, w, p)
    BY <1>1, <2>1 DEF StartWorkflow, Starting
  <2>3. pending' = pending \cup {p} /\ log' = log
    BY <1>1 DEF StartWorkflow, Propose
  <2>4. QED BY <2>2, <2>3 DEF NewEntry
<1>2. ASSUME NEW n \in Node, NEW w \in Workflow, NEW y \in Exec,
             exec[n][w].pc = "check", IsOwner(n, w), SetExec(n, w, y),
             \/ y.pc = "await" /\ y.step = exec[n][w].step
             \/ env.error > 0 /\ y = Fail(w, exec[n][w]),
             Propose(n, w, exec[n][w].step, StepCommand(n, w, exec[n][w])), log' = log
      PROVE  \E p : pending' = pending \cup {p} /\ log' = log /\ NewEntry(p)
  <2> DEFINE p == [cmd |-> StepCommand(n, w, exec[n][w]),
                   sync |-> [node |-> n, inc |-> inc[n], wf |-> w, step |-> exec[n][w].step]]
  <2>1. Proposed(n, w, p, y)
    BY <1>2 DEF Proposed
  <2>2. pending' = pending \cup {p}
    BY <1>2 DEF Propose
  <2>3. QED BY <1>2, <2>1, <2>2 DEF NewEntry
<1>3. ASSUME NEW n \in Node, NEW w \in Workflow, OwnerPropose(n, w)
      PROVE  \E p : pending' = pending \cup {p} /\ log' = log /\ NewEntry(p)
  <2> DEFINE x == exec[n][w]
             y == [x EXCEPT !.pc = "await", !.sub = 0]
  <2>1. x \in Exec
    BY TypeInvFacts
  <2>2. y \in Exec /\ y.pc = "await" /\ y.step = x.step
    BY <2>1 DEF Exec, Pc
  <2>3. /\ x.pc = "check" /\ IsOwner(n, w) /\ SetExec(n, w, y) /\ log' = log
        /\ Propose(n, w, x.step, StepCommand(n, w, x))
    BY <1>3 DEF OwnerPropose
  <2>4. QED BY <1>2, <2>2, <2>3
<1>4. ASSUME NEW n \in Node, NEW w \in Workflow, ProposeError(n, w)
      PROVE  \/ pending' \subseteq pending /\ log' = log
             \/ \E p : pending' = pending \cup {p} /\ log' = log /\ NewEntry(p)
  <2>1. /\ exec[n][w].pc = "check" /\ IsOwner(n, w) /\ SetExec(n, w, Fail(w, exec[n][w]))
        /\ log' = log /\ env.error > 0
        /\ \/ UNCHANGED pending
           \/ Propose(n, w, exec[n][w].step, StepCommand(n, w, exec[n][w]))
    BY <1>4 DEF ProposeError
  <2>2. Fail(w, exec[n][w]) \in Exec
    BY <2>1, TypeInvExec, ExecStepsOK DEF ExecOK
  <2>3. QED BY <1>2, <2>1, <2>2
<1>5. ASSUME NEW n \in Node, NEW w \in Workflow, ExecStep(n, w), ~OwnerPropose(n, w)
      PROVE  pending' = pending /\ log' = log
  <2>1. log' = log
    BY <1>5, ExecFrame
  <2>2. pending' = pending
    BY <1>5 DEF ExecStep, Launch, Compute, TryDequeue, Subscribe, PopOwn, BecomeWaiter,
                Receive, Timeout
  <2>3. QED BY <2>1, <2>2
<1>6. CASE UNCHANGED vars
  BY <1>6 DEF vars
<1>7. CASE \/ \E e \in pending : Lose(e)
           \/ \E n \in Node : Restart(n) \/ Observe(n) \/ Apply(n)
           \/ \E n, m \in Node : InstallSnapshot(n, m)
           \/ \E w \in Workflow : ClientStep(w)
  BY <1>7 DEF Lose, Restart, Observe, Apply, InstallSnapshot, ClientStep, ClientSubscribe,
              ClientReceive
<1>8. CASE \E e \in pending : Commit(e)
  BY <1>8 DEF Commit
<1>9. /\ ~ (\E n \in Node : Crash(n))
      /\ ~ (\E w \in Workflow, m \in Node : ChangeOwner(w, m))
  BY TypeInvFacts DEF Crash, ChangeOwner, Undisturbed
<1>10. QED BY <1>1, <1>3, <1>4, <1>5, <1>6, <1>7, <1>8, <1>9 DEF Next

\* A named entry stays named: its workflow and its proposer stay what they are.
LEMMA NamedStays ==
    ASSUME OwnedInv, StartedOnce, Observed, ClientsStay, [Next]_vars,
           NEW e \in Entry, SoundCommand(e.cmd), Named(e)
    PROVE  Named(e)'
<1>1. PICK w \in Workflow : w = e.cmd.wf
  BY CommandCases DEF Entry
<1>2. /\ HasStarted(w) /\ client'[w].node = client[w].node /\ client[w].node \in Node
  BY <1>1, TypeInvFacts DEF SoundCommand, ClientsStay, HasStarted, OwnedInv
<1>3. StepOf(e.cmd) \in Nat
  <2>1. e.cmd \in Command
    BY DEF Entry
  <2>2. CASE e.cmd.type = "SetCheckpoint"
    BY <2>1, <2>2, CommandCases DEF StepOf, SetCommand, Value
  <2>3. CASE e.cmd.type = "WorkflowEnd"
    BY <1>1, <2>3, ProgramType DEF StepOf
  <2>4. CASE e.cmd.type = "WorkflowStart"
    BY <2>4 DEF StepOf
  <2>5. QED BY <2>1, <2>2, <2>3, <2>4, CommandCases DEF SoundCommand
<1>4. StepOf(e.cmd) > 0 => Past(exec'[client[w].node][w], StepOf(e.cmd))
  BY <1>1, <1>2, <1>3, PastStays DEF Named
<1>5. StepOf(e.cmd)' = StepOf(e.cmd)
  BY DEF StepOf
<1>6. QED BY <1>1, <1>2, <1>4 DEF Named, Past, StepOf

\* A new entry has the name of its call, which no other entry has.
LEMMA NewIsNamed ==
    ASSUME OwnedInv, Names, ClientsStay, [Next]_vars, NEW p, NewEntry(p)
    PROVE  /\ Named(p)'
           /\ \A e \in pending : e.sync # p.sync
           /\ \A k \in DOMAIN log : log[k].sync # p.sync
<1>0. /\ TypeInv /\ ReplicasFollowLog /\ Owned /\ Undisturbed
      /\ exec \in [Node -> [Workflow -> Exec]]
  BY TypeInvFacts DEF OwnedInv, Owned
<1>e. \A e \in Entry : Named(e) => e.sync.wf = e.cmd.wf /\ e.sync.step = StepOf(e.cmd)
  BY DEF Named
<1>t. /\ \A e \in pending : e \in Entry /\ Named(e) /\ SoundCommand(e.cmd)
      /\ \A k \in DOMAIN log : log[k] \in Entry /\ Named(log[k]) /\ SoundCommand(log[k].cmd)
  BY <1>0, TypeInvFacts DEF Names, Owned, Commands
<1>1. ASSUME NEW n \in Node, NEW w \in Workflow, Starting(n, w, p)
      PROVE  /\ Named(p)'
             /\ \A e \in Entry : Named(e) /\ SoundCommand(e.cmd) => e.sync # p.sync
  <2>1. /\ p.cmd.wf = w /\ StepOf(p.cmd) = 0 /\ client'[w].node = n /\ inc[n] = 0
        /\ p.sync = [node |-> n, inc |-> inc[n], wf |-> w, step |-> 0] /\ ~HasStarted(w)
    BY <1>0, <1>1 DEF Starting, StepOf, Undisturbed, HasStarted
  <2>2. Named(p)'
    <3>1. StepOf(p.cmd)' = 0 /\ ~(0 > 0)
      BY <1>1 DEF StepOf, Starting
    <3>2. QED BY <2>1, <3>1 DEF Named
  <2>3. ASSUME NEW e \in Entry, Named(e), SoundCommand(e.cmd) PROVE e.sync # p.sync
    <3>1. e.sync.wf # w
      BY <1>e, <2>1, <2>3 DEF SoundCommand
    <3>2. QED BY <2>1, <3>1
  <2>4. QED BY <2>2, <2>3
<1>2. ASSUME NEW n \in Node, NEW w \in Workflow, NEW y \in Exec, Proposed(n, w, p, y)
      PROVE  /\ Named(p)'
             /\ \A e \in Entry : Named(e) /\ SoundCommand(e.cmd) => e.sync # p.sync
  <2> DEFINE x == exec[n][w]
  <2>1. /\ x.pc = "check" /\ IsOwner(n, w) /\ SetExec(n, w, y)
        /\ (y.pc = "await" /\ y.step = x.step) \/ (env.error > 0 /\ y = Fail(w, x))
        /\ p.cmd = StepCommand(n, w, x)
        /\ p.sync = [node |-> n, inc |-> inc[n], wf |-> w, step |-> x.step]
    BY <1>2 DEF Proposed
  <2>2. /\ x \in Exec /\ x.step \in Nat /\ x.step > 0 /\ Len(Program[w]) \in Nat
        /\ x.step <= Len(Program[w]) + 1 /\ HasStarted(w)
    BY <1>0, <2>1, TypeInvExec, ProgramType DEF ExecOK, Exec, Owned, Execs, SoundExec
  <2>3. n = client[w].node /\ inc[n] = 0 /\ client'[w].node = n
    BY <1>0, <2>1, <2>2, OwnerStarted DEF ClientsStay, Undisturbed
  <2>4. p.cmd.wf = w /\ StepOf(p.cmd) = x.step
    <3>1. CASE IsCheckpoint(w, x.step)
      BY <2>1, <3>1 DEF StepCommand, StepOf, MyValue
    <3>2. CASE ~IsCheckpoint(w, x.step)
      BY <2>1, <2>2, <3>2 DEF StepCommand, StepOf, IsCheckpoint
    <3>3. QED BY <3>1, <3>2
  <2>5. Past(y, x.step)
    <3>1. CASE y.pc = "await" /\ y.step = x.step
      BY <3>1 DEF Past
    <3>2. CASE y = Fail(w, x) /\ IsCheckpoint(w, x.step)
      BY <2>2, <3>2 DEF Past, Fail, IsCheckpoint
    <3>3. CASE y = Fail(w, x) /\ ~IsCheckpoint(w, x.step)
      BY <2>2, <3>3 DEF Past, Fail, Exec
    <3>4. QED BY <2>1, <3>1, <3>2, <3>3
  <2>6. exec'[n][w] = y
    BY <1>0, <2>1 DEF SetExec
  <2>7. Named(p)'
    <3>1. Past(exec'[client'[w].node][w], x.step)
      BY <2>3, <2>5, <2>6
    <3>2. StepOf(p.cmd)' = x.step
      BY <2>4 DEF StepOf
    <3>3. QED BY <2>1, <2>3, <2>4, <3>1, <3>2 DEF Named, Past, StepOf
  <2>8. ASSUME NEW e \in Entry, Named(e), SoundCommand(e.cmd) PROVE e.sync # p.sync
    <3>1. SUFFICES ASSUME e.sync = p.sync PROVE FALSE
      OBVIOUS
    <3>2. e.cmd.wf = w /\ StepOf(e.cmd) = x.step
      BY <1>e, <2>1, <2>8, <3>1
    <3>3. Past(x, x.step)
      BY <2>2, <2>3, <2>8, <3>2 DEF Named
    <3>4. QED BY <2>1, <2>2, <3>3 DEF Past
  <2>9. QED BY <2>7, <2>8
<1>3. QED BY <1>1, <1>2, <1>t DEF NewEntry

\* Every entry stays named, and no call is proposed twice.
LEMMA NextNames ==
    ASSUME OwnedInv, Once, ClientsStay, [Next]_vars
    PROVE  Names' /\ Distinct'
<1>0. TypeInv /\ Undisturbed /\ Names /\ Distinct /\ StartedOnce /\ Observed /\ log \in Seq(Entry)
  BY TypeInvFacts DEF OwnedInv, Owned, Once
<1>t. /\ \A e \in pending : e \in Entry /\ Named(e) /\ SoundCommand(e.cmd)
      /\ \A k \in DOMAIN log : log[k] \in Entry /\ Named(log[k]) /\ SoundCommand(log[k].cmd)
  BY <1>0, TypeInvFacts DEF Names, OwnedInv, Owned, Commands
<1>s. \A e \in Entry : SoundCommand(e.cmd) /\ Named(e) => Named(e)'
  BY <1>0, NamedStays
<1>1. CASE pending' \subseteq pending /\ log' = log
  <2>1. Names'
    BY <1>1, <1>t, <1>s DEF Names
  <2>2. QED BY <1>0, <1>1, <2>1 DEF Distinct
<1>2. ASSUME NEW e \in pending, pending' = pending \ {e}, log' = Append(log, e)
      PROVE  Names' /\ Distinct'
  <2>1. /\ DOMAIN log' = 1..(Len(log) + 1) /\ DOMAIN log = 1..Len(log) /\ Len(log) \in Nat
        /\ \A k \in DOMAIN log : log'[k] = log[k]
        /\ log'[Len(log) + 1] = e
    BY <1>0, <1>2
  <2>2. ASSUME NEW k \in DOMAIN log' PROVE Named(log[k])'
    <3>1. PICK f \in Entry : f = log'[k] /\ Named(f) /\ SoundCommand(f.cmd)
      BY <1>t, <2>1
    <3>2. QED BY <1>s, <3>1
  <2>3. \A f \in pending' : Named(f)'
    BY <1>2, <1>t, <1>s
  <2>4. ASSUME NEW j \in DOMAIN log', NEW k \in DOMAIN log', log'[j].sync = log'[k].sync
        PROVE  j = k
    <3>1. CASE j \in DOMAIN log /\ k \in DOMAIN log
      BY <1>0, <2>1, <2>4, <3>1 DEF Distinct
    <3>2. CASE j = Len(log) + 1 /\ k \in DOMAIN log
      BY <1>0, <2>1, <2>4, <3>2 DEF Distinct
    <3>3. CASE k = Len(log) + 1 /\ j \in DOMAIN log
      BY <1>0, <2>1, <2>4, <3>3 DEF Distinct
    <3>4. QED BY <2>1, <3>1, <3>2, <3>3
  <2>5. ASSUME NEW f \in pending', NEW k \in DOMAIN log' PROVE f.sync # log'[k].sync
    <3>1. CASE k \in DOMAIN log
      BY <1>0, <1>2, <2>1, <3>1 DEF Distinct
    <3>2. CASE k = Len(log) + 1
      BY <1>0, <1>2, <2>1, <3>2 DEF Distinct
    <3>3. QED BY <2>1, <3>1, <3>2
  <2>6. Names'
    BY <2>2, <2>3 DEF Names
  <2>7. \A f, g \in pending' : f.sync = g.sync => f = g
    BY <1>0, <1>2 DEF Distinct
  <2>8. QED BY <2>4, <2>5, <2>6, <2>7 DEF Distinct
<1>3. ASSUME NEW p, pending' = pending \cup {p}, log' = log, NewEntry(p)
      PROVE  Names' /\ Distinct'
  <2>1. /\ Named(p)'
        /\ \A e \in pending : e.sync # p.sync
        /\ \A k \in DOMAIN log : log[k].sync # p.sync
    BY <1>0, <1>3, NewIsNamed
  <2>2. \A e \in pending' : Named(e)'
    BY <1>3, <1>t, <1>s, <2>1
  <2>3. \A k \in DOMAIN log' : Named(log[k])'
    BY <1>3, <1>t, <1>s
  <2>4. Names'
    BY <2>2, <2>3 DEF Names
  <2>5. QED BY <1>0, <1>3, <2>1, <2>4 DEF Distinct
<1>4. QED BY <1>0, <1>1, <1>2, <1>3, EntryChanges

\* The log only grows.
LEMMA LogGrows ==
    ASSUME TypeInv, Undisturbed, [Next]_vars
    PROVE  \A k \in DOMAIN log : k \in DOMAIN log' /\ log'[k] = log[k]
<1>0. log \in Seq(Entry) /\ pending \subseteq Entry
  BY TypeInvFacts
<1>1. ASSUME NEW e \in pending, log' = Append(log, e)
      PROVE  \A k \in DOMAIN log : k \in DOMAIN log' /\ log'[k] = log[k]
  BY <1>0, <1>1
<1>2. QED BY <1>1, EntryChanges

\* A node publishes the entries it applies; other steps publish nothing.
LEMMA EventChanges ==
    ASSUME TypeInv, Undisturbed, [Next]_vars
    PROVE  \/ events' = events /\ \A n \in Node : applied'[n] >= applied[n]
           \/ \E n \in Node :
                 /\ applied[n] + 1 \in DOMAIN log
                 /\ events' = [events EXCEPT ![n] = Append(@, log[applied[n] + 1].cmd)]
                 /\ applied' = [applied EXCEPT ![n] = applied[n] + 1]
                 /\ obs' = obs
<1> USE DEF raftVars, nodeVars, taskVars
<1>0. applied \in [Node -> Nat] /\ log \in Seq(Entry)
  BY TypeInvFacts
<1>a. ASSUME applied' = applied, events' = events
      PROVE  events' = events /\ \A n \in Node : applied'[n] >= applied[n]
  BY <1>0, <1>a
<1>1. ASSUME NEW n \in Node, Apply(n)
      PROVE  /\ applied[n] + 1 \in DOMAIN log
             /\ events' = [events EXCEPT ![n] = Append(@, log[applied[n] + 1].cmd)]
             /\ applied' = [applied EXCEPT ![n] = applied[n] + 1]
             /\ obs' = obs
  BY <1>0, <1>1 DEF Apply
<1>2. ASSUME NEW n \in Node, NEW m \in Node, InstallSnapshot(n, m)
      PROVE  events' = events /\ \A i \in Node : applied'[i] >= applied[i]
  <2>1. /\ applied' = [applied EXCEPT ![n] = applied[m]] /\ applied[n] < applied[m]
        /\ events' = events
    BY <1>2 DEF InstallSnapshot
  <2>2. ASSUME NEW i \in Node PROVE applied'[i] >= applied[i]
    <3>1. applied'[i] = IF i = n THEN applied[m] ELSE applied[i]
      BY <1>0, <2>1
    <3>2. applied[i] \in Nat /\ applied[m] \in Nat
      BY <1>0
    <3>3. QED BY <2>1, <3>1, <3>2
  <2>3. QED BY <2>1, <2>2
<1>3. CASE UNCHANGED vars
  BY <1>3, <1>a DEF vars
<1>4. CASE \/ \E e \in pending : Lose(e) \/ Commit(e)
           \/ \E n \in Node : Restart(n) \/ Observe(n)
           \/ \E w \in Workflow : ClientStep(w)
           \/ \E n \in Node, w \in Workflow : StartWorkflow(n, w) \/ ProposeError(n, w)
  BY <1>4, <1>a
     DEF Lose, Commit, Restart, Observe, ClientStep, ClientSubscribe, ClientReceive,
         StartWorkflow, ProposeError
<1>5. CASE \E n \in Node, w \in Workflow : ExecStep(n, w)
  BY <1>5, <1>a, ExecFrame
<1>6. /\ ~ (\E n \in Node : Crash(n))
      /\ ~ (\E w \in Workflow, m \in Node : ChangeOwner(w, m))
  BY TypeInvFacts DEF Crash, ChangeOwner, Undisturbed
<1>7. QED BY <1>1, <1>2, <1>3, <1>4, <1>5, <1>6 DEF Next

\* The events of a node come from entries it has applied, one start for each.
LEMMA NextPublished ==
    ASSUME OwnedInv, Once, [Next]_vars
    PROVE  Published' /\ StartedOnce'
<1>0. /\ TypeInv /\ Undisturbed /\ Published /\ StartedOnce
      /\ events \in [Node -> Seq(Command)] /\ applied \in [Node -> Nat] /\ log \in Seq(Entry)
  BY TypeInvFacts DEF OwnedInv, Owned, Once
<1>1. \A k \in DOMAIN log : k \in DOMAIN log' /\ log'[k] = log[k] /\ k \in Nat
  BY <1>0, LogGrows
<1>2. ASSUME events' = events, \A n \in Node : applied'[n] >= applied[n]
      PROVE  Published' /\ StartedOnce'
  <2>1. ASSUME NEW n \in Node, NEW j \in DOMAIN events'[n]
        PROVE  \E k \in DOMAIN log' : k <= applied'[n] /\ events'[n][j] = log'[k].cmd
    <3>1. PICK k \in DOMAIN log : k <= applied[n] /\ events[n][j] = log[k].cmd
      BY <1>0, <1>2, <2>1 DEF Published
    <3>2. applied'[n] \in Nat
      BY <1>0, NextType DEF TypeInv, TypeOK
    <3>3. k <= applied'[n]
      BY <1>0, <1>1, <1>2, <3>1, <3>2
    <3>4. QED BY <1>1, <1>2, <3>1, <3>3
  <2>2. QED BY <1>0, <1>2, <2>1 DEF Published, StartedOnce, StartOf, IsStart
<1>3. ASSUME NEW n \in Node, applied[n] + 1 \in DOMAIN log,
             events' = [events EXCEPT ![n] = Append(@, log[applied[n] + 1].cmd)],
             applied' = [applied EXCEPT ![n] = applied[n] + 1]
      PROVE  Published' /\ StartedOnce'
  <2> DEFINE a == applied[n] + 1
             e == log[a]
             L == Len(events[n])
  <2>1. a \in DOMAIN log /\ e \in Entry /\ e.cmd \in Command /\ L \in Nat /\ a \in Nat
    <3>1. a \in DOMAIN log /\ a \in Nat /\ events[n] \in Seq(Command)
      BY <1>0, <1>3
    <3>2. e \in Entry
      BY <1>0, <3>1
    <3>3. QED BY <3>1, <3>2 DEF Entry
  <2>2. /\ events'[n] = Append(events[n], e.cmd) /\ applied'[n] = a
        /\ \A i \in Node : i # n => events'[i] = events[i] /\ applied'[i] = applied[i]
    BY <1>0, <1>3
  <2>3. /\ DOMAIN events'[n] = 1..(L + 1) /\ DOMAIN events[n] = 1..L
        /\ \A j \in DOMAIN events[n] : events'[n][j] = events[n][j]
        /\ events'[n][L + 1] = e.cmd
    BY <1>0, <2>1, <2>2
  <2>4. ASSUME NEW i \in Node, NEW j \in DOMAIN events'[i]
        PROVE  \E k \in DOMAIN log' : k <= applied'[i] /\ events'[i][j] = log'[k].cmd
    <3>1. CASE i = n /\ j = L + 1
      BY <1>1, <2>1, <2>2, <2>3, <3>1
    <3>2. CASE ~(i = n /\ j = L + 1)
      <4>1. j \in DOMAIN events[i] /\ events'[i][j] = events[i][j]
        BY <2>2, <2>3, <2>4, <3>2
      <4>2. PICK k \in DOMAIN log : k <= applied[i] /\ events[i][j] = log[k].cmd
        BY <1>0, <4>1 DEF Published
      <4>3. k \in Nat /\ applied[i] \in Nat /\ (applied'[i] = applied[i] \/ applied'[i] = applied[i] + 1)
        BY <1>0, <1>1, <2>2
      <4>4. k <= applied'[i]
        BY <4>2, <4>3
      <4>5. QED BY <1>1, <4>1, <4>2, <4>4
    <3>3. QED BY <3>1, <3>2
  <2>5. ASSUME NEW w \in Workflow, NEW j \in DOMAIN events[n],
               StartOf(w, events[n][j]), StartOf(w, e.cmd)
        PROVE  FALSE
    <3>1. PICK k \in DOMAIN log : k <= applied[n] /\ events[n][j] = log[k].cmd
      BY <1>0, <2>5 DEF Published
    <3>2. Named(log[k]) /\ Named(e)
      BY <2>1 DEF Once, Names
    <3>3. StepOf(log[k].cmd) = 0 /\ StepOf(e.cmd) = 0 /\ log[k].cmd.wf = w /\ e.cmd.wf = w
      BY <2>5, <3>1 DEF StepOf, StartOf, IsStart
    <3>4. log[k].sync = e.sync
      BY <3>2, <3>3 DEF Named
    <3>5. k = a
      BY <2>1, <3>4 DEF Once, Distinct
    <3>6. QED BY <1>0, <1>1, <3>1, <3>5
  <2>6. ASSUME NEW i \in Node, NEW w \in Workflow,
               NEW j \in DOMAIN events'[i], NEW k \in DOMAIN events'[i],
               StartOf(w, events'[i][j]), StartOf(w, events'[i][k])
        PROVE  j = k
    <3>1. CASE i # n
      BY <1>0, <2>2, <2>6, <3>1 DEF StartedOnce
    <3>2. CASE i = n /\ j \in DOMAIN events[n] /\ k \in DOMAIN events[n]
      BY <1>0, <2>3, <2>6, <3>2 DEF StartedOnce
    <3>3. CASE i = n /\ j = L + 1 /\ k \in DOMAIN events[n]
      BY <2>3, <2>5, <2>6, <3>3
    <3>4. CASE i = n /\ k = L + 1 /\ j \in DOMAIN events[n]
      BY <2>3, <2>5, <2>6, <3>4
    <3>5. QED BY <2>1, <2>3, <2>6, <3>1, <3>2, <3>3, <3>4
  <2>7. Published'
    BY <2>4 DEF Published
  <2>8. StartedOnce'
    BY <2>6 DEF StartedOnce, StartOf, IsStart
  <2>9. QED BY <2>7, <2>8
<1>4. QED BY <1>0, <1>2, <1>3, EventChanges

\* An execution exists only when the observer of its node has read its start.
LEMMA NextObserved ==
    ASSUME OwnedInv, Once, [Next]_vars
    PROVE  Observed'
<1>0. /\ TypeInv /\ Undisturbed /\ Observed /\ exec \in [Node -> [Workflow -> Exec]]
      /\ events \in [Node -> Seq(Command)] /\ obs \in [Node -> Nat]
  BY TypeInvFacts DEF OwnedInv, Owned, Once, TypeInv, TypeOK
<1>1. \A n \in Node : \A j \in DOMAIN events[n] :
          j \in DOMAIN events'[n] /\ events'[n][j] = events[n][j] /\ j \in Nat
  <2>1. ASSUME NEW n \in Node, applied[n] + 1 \in DOMAIN log,
               events' = [events EXCEPT ![n] = Append(@, log[applied[n] + 1].cmd)],
               NEW i \in Node, NEW j \in DOMAIN events[i]
        PROVE  j \in DOMAIN events'[i] /\ events'[i][j] = events[i][j] /\ j \in Nat
    <3>1. CASE i = n
      <4>1. PICK s \in Seq(Command), c \in Command : s = events[n] /\ c = log[applied[n] + 1].cmd
        <5>1. log[applied[n] + 1] \in Entry /\ events[n] \in Seq(Command)
          BY <1>0, <2>1, TypeInvFacts
        <5>2. QED BY <5>1 DEF Entry
      <4>2. events'[i] = Append(s, c) /\ j \in DOMAIN s
        BY <1>0, <2>1, <3>1, <4>1
      <4>3. QED BY <3>1, <4>1, <4>2
    <3>2. CASE i # n
      BY <1>0, <2>1, <3>2
    <3>3. QED BY <3>1, <3>2
  <2>2. QED BY <1>0, <2>1, EventChanges
<1>2. \A n \in Node : obs'[n] >= obs[n]
  <2>1. ASSUME NEW n \in Node, Observe(n) PROVE \A i \in Node : obs'[i] >= obs[i]
    <3>1. PICK i \in Visible(n, obs[n]) : obs' = [obs EXCEPT ![n] = i]
      BY <2>1 DEF Observe
    <3>2. i \in Nat
      BY <1>0, VisibleType
    <3>3. i > obs[n]
      <4>1. events[n] \in Seq(Command) /\ BusCapacity \in Nat /\ Len(events[n]) \in Nat /\ obs[n] \in Nat
        BY <1>0, RuntimeAssumption
      <4>2. QED BY <3>1, <3>2, <4>1 DEF Visible, Oldest
    <3>4. QED BY <1>0, <3>1, <3>2, <3>3
  <2>2. CASE obs' = obs
    BY <1>0, <2>2
  <2>3. ASSUME NEW n \in Node, NEW w \in Workflow, ExecStep(n, w) PROVE obs' = obs
    BY <2>3, ExecFrame
  <2>4. CASE UNCHANGED vars
    BY <2>2, <2>4 DEF vars
  <2>5. CASE \/ \E e \in pending : Lose(e) \/ Commit(e)
             \/ \E n \in Node : Restart(n) \/ Apply(n)
             \/ \E n, m \in Node : InstallSnapshot(n, m)
             \/ \E w \in Workflow : ClientStep(w)
             \/ \E n \in Node, w \in Workflow : StartWorkflow(n, w) \/ ProposeError(n, w)
    BY <2>2, <2>5
       DEF Lose, Commit, Restart, Apply, InstallSnapshot, ClientStep, ClientSubscribe,
           ClientReceive, StartWorkflow, ProposeError, raftVars, nodeVars, taskVars
  <2>6. /\ ~ (\E n \in Node : Crash(n))
        /\ ~ (\E w \in Workflow, m \in Node : ChangeOwner(w, m))
    BY <1>0, TypeInvFacts DEF Crash, ChangeOwner, Undisturbed
  <2>7. QED BY <2>1, <2>2, <2>3, <2>4, <2>5, <2>6 DEF Next
<1>3. obs' \in [Node -> Nat]
  BY <1>0, NextType DEF TypeInv, TypeOK
<1>4. ASSUME NEW n \in Node, NEW w \in Workflow, NEW j \in DOMAIN events[n],
             j <= obs'[n], StartOf(w, events[n][j])
      PROVE  \E k \in DOMAIN events'[n] : k <= obs'[n] /\ StartOf(w, events'[n][k])
  BY <1>1, <1>4
<1>5. ASSUME NEW n \in Node, NEW w \in Workflow, exec[n][w].pc # "none"
      PROVE  \E k \in DOMAIN events'[n] : k <= obs'[n] /\ StartOf(w, events'[n][k])
  <2>1. PICK j \in DOMAIN events[n] : j <= obs[n] /\ StartOf(w, events[n][j])
    BY <1>0, <1>5 DEF Observed
  <2>2. j <= obs'[n]
    BY <1>0, <1>1, <1>2, <1>3, <2>1
  <2>3. QED BY <1>4, <2>1, <2>2
<1>6. ASSUME NEW i \in Node, NEW v \in Workflow, exec'[i][v].pc # "none"
      PROVE  \E k \in DOMAIN events'[i] : k <= obs'[i] /\ StartOf(v, events'[i][k])
  <2>1. CASE exec[i][v].pc # "none"
    BY <1>5, <2>1
  <2>2. CASE exec[i][v].pc = "none"
    <3>1. PICK n \in Node, w \in Workflow, y \in Exec :
              SetExec(n, w, y) /\ Changes(n, w, exec[n][w], y)
      BY <1>0, <1>6, <2>2, ExecChanges
    <3>2. exec'[i][v] = IF i = n /\ v = w THEN y ELSE exec[i][v]
      BY <1>0, <3>1 DEF SetExec
    <3>3. n = i /\ w = v
      BY <1>6, <2>2, <3>2
    <3>4. Born(i, v, exec[i][v], y)
      BY <2>2, <3>1, <3>3 DEF Changes, ExecMoves, Goes, Returns, Found, GivesUp, Woken
    <3>5. PICK j \in DOMAIN events[i] : StartOf(v, events[i][j]) /\ obs' = [obs EXCEPT ![i] = j]
      BY <3>4 DEF Born, StartOf
    <3>6. obs'[i] = j /\ j <= j
      BY <1>0, <1>1, <3>5
    <3>7. QED BY <1>4, <3>5, <3>6
  <2>3. QED BY <2>1, <2>2
<1>7. QED BY <1>6 DEF Observed, StartOf, IsStart

\* Only the end of a workflow completes it and sets its result.
LEMMA OnlyEndCompletes ==
    ASSUME NEW s \in Core, NEW c \in Command, NEW w \in Workflow, ~IsEnd(w, c)
    PROVE  /\ ApplyCore(s, c).workflows[w] = "Completed" => s.workflows[w] = "Completed"
           /\ ApplyCore(s, c).results[w] = s.results[w]
<1>0. s.workflows \in [Workflow -> {None, "Running", "Completed"}]
      /\ s.results \in [Workflow -> Result \cup {None}] /\ c.wf \in Workflow
  BY CommandCases DEF Core
<1>1. CASE c.type = "WorkflowStart"
  <2>1. /\ ApplyCore(s, c).workflows = [s.workflows EXCEPT ![c.wf] = "Running"]
        /\ ApplyCore(s, c).results = s.results
    BY <1>1 DEF ApplyCore, ApplyStart, Core
  <2>2. QED BY <1>0, <2>1
<1>2. CASE c.type = "WorkflowEnd"
  <2>1. /\ ApplyCore(s, c).workflows = [s.workflows EXCEPT ![c.wf] = "Completed"]
        /\ ApplyCore(s, c).results = [s.results EXCEPT ![c.wf] = c.result]
    BY <1>2 DEF ApplyCore, ApplyEnd, Core
  <2>2. c.wf # w
    BY <1>2 DEF IsEnd
  <2>3. QED BY <1>0, <2>1, <2>2
<1>3. CASE c.type = "SetCheckpoint"
  <2>1. /\ ApplyCore(s, c).workflows = s.workflows
        /\ ApplyCore(s, c).results = s.results
    BY <1>3 DEF ApplyCore, ApplySet, Core
  <2>2. QED BY <2>1
<1>4. CASE c.type = "OwnerChange"
  <2>1. /\ ApplyCore(s, c).workflows = s.workflows
        /\ ApplyCore(s, c).results = s.results
    BY <1>4 DEF ApplyCore, ApplyOwner, Core
  <2>2. QED BY <2>1
<1>5. QED BY <1>1, <1>2, <1>3, <1>4, CommandCases

\* Only a commit adds a state.
LEMMA RefChanges ==
    ASSUME [Next]_vars
    PROVE  ref' = ref \/ \E e \in pending : Commit(e)
<1> USE DEF raftVars, nodeVars, taskVars
<1>1. CASE UNCHANGED vars
  BY <1>1 DEF vars
<1>2. CASE \/ \E e \in pending : Lose(e)
           \/ \E w \in Workflow, m \in Node : ChangeOwner(w, m)
           \/ \E n \in Node : Restart(n) \/ Observe(n) \/ Apply(n) \/ Crash(n)
           \/ \E n, m \in Node : InstallSnapshot(n, m)
           \/ \E w \in Workflow : ClientStep(w)
           \/ \E n \in Node, w \in Workflow : StartWorkflow(n, w) \/ ProposeError(n, w)
  BY <1>2
     DEF Lose, ChangeOwner, Restart, Observe, Apply, Crash, InstallSnapshot, ClientStep,
         ClientSubscribe, ClientReceive, StartWorkflow, ProposeError
<1>3. CASE \E n \in Node, w \in Workflow : ExecStep(n, w)
  BY <1>3, ExecFrame
<1>4. QED BY <1>1, <1>2, <1>3 DEF Next

\* What a commit makes of the states.
LEMMA CommitRef ==
    ASSUME TypeInv, NEW e \in pending, Commit(e)
    PROVE  /\ Latest \in Core /\ e \in Entry /\ e.cmd \in Command
           /\ Len(ref) \in DOMAIN ref
           /\ DOMAIN ref' = DOMAIN ref \cup {Len(ref')}
           /\ \A i \in DOMAIN ref : ref'[i] = ref[i]
           /\ ref'[Len(ref')] = ApplyCore(Latest, e.cmd)
           /\ log' = Append(log, e) /\ log'[Len(log')] = e /\ Len(log') \in DOMAIN log'
<1>1. ref \in Seq(Core) /\ Len(ref) \in Nat \ {0} /\ log \in Seq(Entry) /\ e \in Entry
  BY DEF TypeInv, TypeOK
<1>2. Latest \in Core /\ e.cmd \in Command
  BY <1>1 DEF Latest, Entry
<1>3. PICK t \in Core : t = ApplyCore(Latest, e.cmd)
  BY <1>2, ApplyCoreType
<1>4. ref' = Append(ref, t) /\ log' = Append(log, e)
  BY <1>3 DEF Commit, Latest
<1>5. Len(ref) \in DOMAIN ref /\ DOMAIN ref' = DOMAIN ref \cup {Len(ref')}
      /\ (\A i \in DOMAIN ref : ref'[i] = ref[i]) /\ ref'[Len(ref')] = t
  BY <1>1, <1>4
<1>6. log'[Len(log')] = e /\ Len(log') \in DOMAIN log'
  BY <1>1, <1>4
<1>7. QED BY <1>1, <1>2, <1>3, <1>4, <1>5, <1>6

\* Every completed workflow has its end in the log.
LEMMA NextEnded ==
    ASSUME OwnedInv, Once, [Next]_vars
    PROVE  Ended'
<1>0. TypeInv /\ Undisturbed /\ Ended
  BY DEF OwnedInv, Owned, Once
<1>1. \A k \in DOMAIN log : k \in DOMAIN log' /\ log'[k] = log[k]
  BY <1>0, LogGrows
<1> SUFFICES ASSUME NEW i \in DOMAIN ref', NEW w \in Workflow, ref'[i].workflows[w] = "Completed"
             PROVE  \E k \in DOMAIN log' : IsEnd(w, log'[k].cmd)
  BY DEF Ended, IsEnd
<1>2. ASSUME NEW j \in DOMAIN ref, ref[j].workflows[w] = "Completed"
      PROVE  \E k \in DOMAIN log' : IsEnd(w, log'[k].cmd)
  BY <1>0, <1>1, <1>2 DEF Ended
<1>3. CASE ref' = ref
  BY <1>2, <1>3
<1>4. ASSUME NEW e \in pending, Commit(e) PROVE \E k \in DOMAIN log' : IsEnd(w, log'[k].cmd)
  <2>1. CASE i \in DOMAIN ref
    BY <1>0, <1>2, <1>4, <2>1, CommitRef
  <2>2. CASE i = Len(ref') /\ IsEnd(w, e.cmd)
    BY <1>0, <1>4, <2>2, CommitRef
  <2>3. CASE i = Len(ref') /\ ~IsEnd(w, e.cmd)
    <3>1. Latest.workflows[w] = "Completed"
      BY <1>0, <1>4, <2>3, CommitRef, OnlyEndCompletes
    <3>2. QED BY <1>0, <1>2, <1>4, <3>1, CommitRef DEF Latest
  <2>4. QED BY <1>0, <1>4, <2>1, <2>2, <2>3, CommitRef
<1>5. QED BY <1>3, <1>4, RefChanges

\* Every step keeps that a call is committed once and a workflow is born once
\* on a node.
LEMMA NextOnce ==
    ASSUME OwnedInv, Once, [Next]_vars
    PROVE  Once'
<1>1. Names' /\ Distinct'
  BY NextNames, NextOwned
<1>2. QED BY <1>1, NextPublished, NextObserved, NextEnded DEF Once

\* At the start nothing is proposed, committed or broadcast.
LEMMA InitOnce == Init => Once
<1> SUFFICES ASSUME Init PROVE Once
  OBVIOUS
<1>1. pending = {} /\ DOMAIN log = {} /\ \A n \in Node : DOMAIN events[n] = {}
  BY DEF Init
<1>2. Names /\ Distinct /\ Published /\ StartedOnce
  BY <1>1 DEF Names, Distinct, Published, StartedOnce
<1>3. Observed
  BY DEF Init, Observed, NoExec
<1>4. Ended
  <2>1. DOMAIN ref = {1} /\ ref[1] = NewCore
    BY DEF Init
  <2>2. \A w \in Workflow : NewCore.workflows[w] = None
    BY DEF NewCore
  <2>3. QED BY <2>1, <2>2, IdAssumption DEF Ended
<1>5. QED BY <1>2, <1>3, <1>4 DEF Once

\* The end of a workflow is committed once.
LEMMA OneEnd ==
    ASSUME Once, NEW w \in Workflow, NEW e \in pending, NEW k \in DOMAIN log,
           IsEnd(w, e.cmd), IsEnd(w, log[k].cmd)
    PROVE  FALSE
<1>1. Named(e) /\ Named(log[k]) /\ e.sync # log[k].sync
  BY DEF Once, Names, Distinct
<1>2. StepOf(e.cmd) = StepOf(log[k].cmd) /\ e.cmd.wf = log[k].cmd.wf
  BY DEF IsEnd, StepOf
<1>3. QED BY <1>1, <1>2 DEF Named

\* A client that learns the result of a workflow from wait_for_completion learns
\* the only one: apply() of WorkflowEnd, which overwrites the result without
\* looking at the status, is never committed for a workflow that is completed,
\* because its owner proposes the end once. No node crashes and no owner is
\* changed.
THEOREM ResultsAreFinal ==
    ASSUME Calm
    PROVE  Spec => ResultIsFinal
<1> DEFINE Inv == OwnedInv /\ Once
           Kept == \A w \in Workflow : Latest.workflows[w] = "Completed" =>
                       ref'[Len(ref')].results[w] = Latest.results[w]
<1>1. Init => Inv
  BY InitType, InitFollows, InitOwned, InitOnce DEF OwnedInv
<1>2. Inv /\ [Next]_vars => Inv'
  BY NextOwned, NextOnce
<1>3. Inv /\ [Next]_vars => [Kept]_vars
  <2> SUFFICES ASSUME OwnedInv, Once, [Next]_vars, NEW w \in Workflow,
                      Latest.workflows[w] = "Completed"
               PROVE  ref'[Len(ref')].results[w] = Latest.results[w]
    OBVIOUS
  <2>0. TypeInv /\ Len(ref) \in DOMAIN ref
    <3>1. TypeInv /\ ref \in Seq(Core) /\ ref # <<>>
      BY DEF OwnedInv, TypeInv, TypeOK
    <3>2. QED BY <3>1
  <2>1. CASE ref' = ref
    BY <2>1 DEF Latest
  <2>2. ASSUME NEW e \in pending, Commit(e)
        PROVE  ref'[Len(ref')].results[w] = Latest.results[w]
    <3>1. PICK k \in DOMAIN log : IsEnd(w, log[k].cmd)
      BY <2>0 DEF Once, Ended, Latest
    <3>2. ~IsEnd(w, e.cmd)
      BY <3>1, OneEnd
    <3>3. QED BY <2>0, <2>2, <3>2, CommitRef, OnlyEndCompletes
  <2>3. QED BY <2>1, <2>2, RefChanges
<1>4. QED BY <1>1, <1>2, <1>3, PTL DEF Spec, ResultIsFinal

-----------------------------------------------------------------------------
(* Clean-up on completion. *)

\* No proposal fails.
NoErrors == MaxErrors = 0

\* The owner waits for what it has proposed.
Waiting ==
    /\ env.error = 0
    /\ \A e \in pending : StepOf(e.cmd) > 0 =>
           LET x == exec[client[e.cmd.wf].node][e.cmd.wf]
           IN  x.pc = "await" /\ x.step = StepOf(e.cmd)

\* A completed workflow has no history, in every state the log leads to.
Cleaned ==
    \A i \in DOMAIN ref, w \in Workflow, k \in Key :
        ref[i].workflows[w] = "Completed" => ref[i].history[make_queue_key(w, k)] = <<>>

\* The composite key of a checkpoint starts with the id of its workflow.
LEMMA KeyStartsWithId ==
    ASSUME NEW w \in Workflow, NEW k \in Key
    PROVE  StartsWith(make_queue_key(w, k), w)
<1>1. w \in Seq(STRING) /\ k \in Seq(STRING) /\ k # <<>>
  BY IdAssumption
<1>2. Len(w) \in Nat /\ Len(k) \in Nat /\ Len(k) > 0 /\ w \o k \in Seq(STRING)
      /\ Len(w \o k) = Len(w) + Len(k)
      /\ \A i \in 1..Len(w) : (w \o k)[i] = w[i]
  BY <1>1
<1>3. PICK s \in Seq(STRING) : s = w \o k
  BY <1>2
<1>4. SubSeq(s, 1, Len(w)) = w
  <2>1. Len(w) <= Len(s) /\ Len(s) \in Nat /\ \A i \in 1..Len(w) : s[i] = w[i]
    BY <1>2, <1>3
  <2>2. QED BY <1>1, <1>2, <2>1
<1>5. QED BY <1>2, <1>3, <1>4 DEF StartsWith, make_queue_key

\* Without errors none appear.
LEMMA NoErrorStays ==
    ASSUME TypeInv, Undisturbed, env.error = 0, [Next]_vars
    PROVE  env'.error = 0
<1> USE DEF raftVars, nodeVars, taskVars
<1>0. env \in Env
  BY TypeInvFacts
<1>1. CASE env' = env
  BY <1>1
<1>2. CASE UNCHANGED vars
  BY <1>2 DEF vars
<1>3. CASE \E e \in pending : Lose(e)
  BY <1>0, <1>3 DEF Lose, Env
<1>4. CASE \E n, m \in Node : InstallSnapshot(n, m)
  BY <1>0, <1>4 DEF InstallSnapshot, Env
<1>5. CASE \/ \E e \in pending : Commit(e)
           \/ \E n \in Node : Restart(n) \/ Observe(n) \/ Apply(n)
           \/ \E w \in Workflow : ClientStep(w)
           \/ \E n \in Node, w \in Workflow : StartWorkflow(n, w)
  BY <1>1, <1>5 DEF Commit, Restart, Observe, Apply, ClientStep, ClientSubscribe,
                    ClientReceive, StartWorkflow
<1>6. CASE \E n \in Node, w \in Workflow : ExecStep(n, w)
  BY <1>1, <1>6, ExecFrame
<1>7. /\ ~ (\E n \in Node : Crash(n))
      /\ ~ (\E w \in Workflow, m \in Node : ChangeOwner(w, m))
      /\ ~ (\E n \in Node, w \in Workflow : ProposeError(n, w))
  BY <1>0 DEF Crash, ChangeOwner, ProposeError, Undisturbed
<1>8. QED BY <1>2, <1>3, <1>4, <1>5, <1>6, <1>7 DEF Next

\* An owner that awaits an entry goes on only when the entry is committed.
LEMMA AwaitStays ==
    ASSUME OwnedInv, Once, [Next]_vars, NEW e \in pending, StepOf(e.cmd) > 0,
           exec[client[e.cmd.wf].node][e.cmd.wf].pc = "await",
           exec[client[e.cmd.wf].node][e.cmd.wf].step = StepOf(e.cmd)
    PROVE  exec'[client[e.cmd.wf].node][e.cmd.wf] = exec[client[e.cmd.wf].node][e.cmd.wf]
<1>0. TypeInv /\ Undisturbed /\ exec \in [Node -> [Workflow -> Exec]] /\ e \in Entry
  BY TypeInvFacts DEF OwnedInv, Owned
<1>1. PICK w \in Workflow, n \in Node : w = e.cmd.wf /\ n = client[w].node
  <2>1. e.cmd \in Command /\ e.cmd.wf \in Workflow /\ SoundCommand(e.cmd)
    BY <1>0, CommandCases DEF Entry, OwnedInv, Owned, Commands
  <2>2. client[e.cmd.wf].node \in Node
    BY <1>0, <2>1, TypeInvFacts DEF SoundCommand, HasStarted
  <2>3. QED BY <2>1, <2>2
<1> DEFINE x == exec[n][w]
<1>2. /\ x \in Exec /\ x.pc = "await" /\ x.step = StepOf(e.cmd) /\ x.step \in Nat /\ x.step > 0
      /\ e.sync = [node |-> n, inc |-> 0, wf |-> w, step |-> x.step]
  <2>1. x.pc = "await" /\ x.step = StepOf(e.cmd)
    BY <1>1
  <2>2. x \in Exec
    BY <1>0
  <2>3. x.step \in Nat
    BY <2>2 DEF Exec
  <2>4. Named(e)
    BY DEF Once, Names
  <2>5. e.sync = [node |-> n, inc |-> 0, wf |-> w, step |-> x.step]
    BY <1>1, <2>1, <2>4 DEF Named
  <2>6. QED BY <2>1, <2>2, <2>3, <2>5
<1>3. SUFFICES exec'[n][w] = x
  BY <1>1
<1>4. CASE exec' = exec
  BY <1>4
<1>5. ASSUME NEW m \in Node, NEW v \in Workflow, NEW y \in Exec, SetExec(m, v, y),
             Changes(m, v, exec[m][v], y)
      PROVE  exec'[n][w] = x
  <2>1. CASE ~(m = n /\ v = w)
    BY <1>0, <1>5, <2>1 DEF SetExec
  <2>2. CASE m = n /\ v = w
    <3>1. exec'[n][w] = y /\ Changes(n, w, x, y)
      BY <1>0, <1>5, <2>2 DEF SetExec
    <3>2. ~ExecMoves(n, w, x, y)
      BY <1>2 DEF ExecMoves, Goes, Returns, Found, GivesUp
    <3>3. CASE Woken(n, w, x, y)
      <4>1. PICK k \in DOMAIN log : log[k].sync.wf = w /\ log[k].sync.step = x.step
        BY <3>3 DEF Woken
      <4>2. Named(log[k])
        BY DEF Once, Names
      <4>3. PICK v1, s1 : log[k].sync = [node |-> client[v1].node, inc |-> 0,
                                         wf |-> v1, step |-> s1]
        BY <4>2 DEF Named
      <4>4. v1 = w /\ s1 = x.step
        BY <4>1, <4>3
      <4>5. log[k].sync = e.sync
        BY <1>1, <1>2, <4>3, <4>4
      <4>6. QED BY <4>5 DEF Once, Distinct
    <3>4. CASE Born(n, w, x, y)
      <4>1. Past(x, x.step)
        BY <1>2 DEF Past
      <4>2. Past(y, x.step)
        BY <1>2, <3>1, <4>1, PastStays DEF Once
      <4>3. y.pc = "spawned" /\ y.step = 1
        BY <3>4 DEF Born, Spawned
      <4>4. QED BY <1>2, <4>2, <4>3 DEF Past
    <3>5. QED BY <3>1, <3>2, <3>3, <3>4 DEF Changes
  <2>3. QED BY <2>1, <2>2
<1>6. QED BY <1>0, <1>4, <1>5, ExecChanges

\* The owner of an entry that is not committed yet waits for it.
LEMMA NextWaiting ==
    ASSUME OwnedInv, Once, Waiting, [Next]_vars
    PROVE  Waiting'
<1>0. TypeInv /\ Undisturbed /\ ReplicasFollowLog /\ Owned /\ exec \in [Node -> [Workflow -> Exec]]
      /\ pending \subseteq Entry
  BY TypeInvFacts DEF OwnedInv, Owned
<1>1. env'.error = 0
  BY <1>0, NoErrorStays DEF Waiting
<1>2. ClientsStay
  BY NextOwned
<1> DEFINE Awaits(e) == LET x == exec'[client'[e.cmd.wf].node][e.cmd.wf]
                        IN  x.pc = "await" /\ x.step = StepOf(e.cmd)
<1>3. ASSUME NEW e \in pending, StepOf(e.cmd) > 0 PROVE Awaits(e)
  <2>1. client'[e.cmd.wf].node = client[e.cmd.wf].node
    BY <1>0, <1>2, CommandCases DEF ClientsStay, Owned, Commands, SoundCommand, Entry
  <2>2. QED BY <1>3, <2>1, AwaitStays DEF Waiting
<1>4. ASSUME NEW p, NewEntry(p), StepOf(p.cmd) > 0 PROVE Awaits(p)
  <2>1. ASSUME NEW n \in Node, NEW w \in Workflow, Starting(n, w, p) PROVE FALSE
    BY <1>4, <2>1 DEF Starting, StepOf
  <2>2. PICK n \in Node, w \in Workflow, y \in Exec : Proposed(n, w, p, y)
    BY <1>4, <2>1 DEF NewEntry
  <2>3. Named(p)'
    BY <1>2, <1>4, NewIsNamed DEF Once
  <2>4. /\ SetExec(n, w, y) /\ y.pc = "await" /\ y.step = exec[n][w].step
        /\ p.sync = [node |-> n, inc |-> inc[n], wf |-> w, step |-> exec[n][w].step]
    <3>1. ~(env.error > 0)
      BY DEF Waiting
    <3>2. QED BY <2>2, <3>1 DEF Proposed
  <2>5. exec'[n][w] = y
    BY <1>0, <2>4 DEF SetExec
  <2>6. client'[p.cmd.wf].node = n /\ p.cmd.wf = w /\ StepOf(p.cmd)' = exec[n][w].step
    BY <2>3, <2>4 DEF Named
  <2>7. StepOf(p.cmd)' = StepOf(p.cmd)
    BY DEF StepOf
  <2>8. QED BY <2>4, <2>5, <2>6, <2>7
<1>5. ASSUME NEW e \in pending', StepOf(e.cmd) > 0 PROVE Awaits(e)
  BY <1>0, <1>3, <1>4, <1>5, EntryChanges
<1>6. \A e : StepOf(e.cmd)' = StepOf(e.cmd)
  BY DEF StepOf
<1>7. QED BY <1>1, <1>5, <1>6 DEF Waiting, StepOf

\* What an entry makes of the history of a completed workflow.
LEMMA ApplyCleans ==
    ASSUME Unambiguous, NEW s \in Core, NEW c \in Command, NEW w \in Workflow, NEW k \in Key,
           s.workflows[w] = "Completed" => s.history[make_queue_key(w, k)] = <<>>,
           s.workflows[w] = "Completed" => ~(c.type = "SetCheckpoint" /\ c.wf = w),
           ApplyCore(s, c).workflows[w] = "Completed"
    PROVE  ApplyCore(s, c).history[make_queue_key(w, k)] = <<>>
<1> DEFINE qk == make_queue_key(w, k)
           t == ApplyCore(s, c)
<1>0. qk \in QueueKey /\ s.history \in [QueueKey -> Seq(Value)] /\ c.wf \in Workflow
  BY QueueKeyType, CommandCases DEF Core
<1>1. CASE c.type = "WorkflowEnd"
  <2>1. t.history = Retain(s.history, c.wf)
    BY <1>1 DEF ApplyCore, ApplyEnd, ApplyQueues, Core
  <2>2. t.history[qk] = IF StartsWith(qk, c.wf) THEN <<>> ELSE s.history[qk]
    BY <1>0, <2>1 DEF Retain
  <2>3. CASE c.wf = w
    BY <2>2, <2>3, KeyStartsWithId
  <2>4. CASE c.wf # w
    <3>1. s.workflows[w] = "Completed"
      BY <2>4, OnlyEndCompletes DEF IsEnd
    <3>2. QED BY <2>2, <3>1
  <2>5. QED BY <2>3, <2>4
<1>2. CASE c.type # "WorkflowEnd"
  <2>1. s.workflows[w] = "Completed"
    BY <1>2, OnlyEndCompletes DEF IsEnd
  <2>2. CASE c \in SetCommand /\ c.type = "SetCheckpoint"
    <3>1. t.history = [s.history EXCEPT ![make_queue_key(c.wf, c.key)] = Append(@, c.value)]
      BY <2>2 DEF ApplyCore, ApplySet, ApplyQueues, Push, Core
    <3>2. make_queue_key(c.wf, c.key) # qk
      BY <1>0, <2>1, <2>2 DEF Unambiguous, SetCommand
    <3>3. QED BY <1>0, <2>1, <3>1, <3>2
  <2>3. CASE c.type = "WorkflowStart"
    <3>1. t.history = s.history
      BY <2>3 DEF ApplyCore, ApplyStart, Core
    <3>2. QED BY <2>1, <3>1
  <2>4. CASE c.type = "OwnerChange"
    <3>1. t.history = s.history
      BY <2>4 DEF ApplyCore, ApplyOwner, Core
    <3>2. QED BY <2>1, <3>1
  <2>5. QED BY <1>2, <2>2, <2>3, <2>4, CommandCases
<1>3. QED BY <1>1, <1>2

\* No checkpoint is set after the end of its workflow.
LEMMA NoSetAfterEnd ==
    ASSUME OwnedInv, Once, Waiting, NEW w \in Workflow, NEW e \in pending, NEW k \in DOMAIN log,
           e.cmd.type = "SetCheckpoint", e.cmd.wf = w, IsEnd(w, log[k].cmd)
    PROVE  FALSE
<1>0. /\ TypeInv /\ Len(Program[w]) \in Nat /\ Program[w] \in Seq(Key)
      /\ SoundCommand(e.cmd) /\ Named(log[k])
  BY ProgramType, RuntimeAssumption DEF OwnedInv, Owned, Commands, Once, Names
<1>1. StepOf(e.cmd) \in 1..Len(Program[w]) /\ StepOf(log[k].cmd) = Len(Program[w]) + 1
      /\ log[k].cmd.wf = w
  BY <1>0 DEF StepOf, SoundCommand, SoundSet, IsEnd
<1> DEFINE x == exec[client[w].node][w]
<1>2. x.step = StepOf(e.cmd)
  BY <1>0, <1>1 DEF Waiting
<1>3. Past(x, Len(Program[w]) + 1)
  BY <1>0, <1>1 DEF Named
<1>4. QED BY <1>0, <1>1, <1>2, <1>3 DEF Past

\* Every step keeps it: apply() of WorkflowEnd empties the queues of its
\* workflow, and nothing that is committed later fills them.
LEMMA NextCleaned ==
    ASSUME Unambiguous, OwnedInv, Once, Waiting, Cleaned, [Next]_vars
    PROVE  Cleaned'
<1>0. TypeInv /\ Len(ref) \in DOMAIN ref
  <2>1. TypeInv /\ ref \in Seq(Core) /\ ref # <<>>
    BY DEF OwnedInv, TypeInv, TypeOK
  <2>2. QED BY <2>1
<1>1. CASE ref' = ref
  BY <1>1 DEF Cleaned
<1>2. ASSUME NEW e \in pending, Commit(e) PROVE Cleaned'
  <2> SUFFICES ASSUME NEW i \in DOMAIN ref', NEW w \in Workflow, NEW k \in Key,
                      ref'[i].workflows[w] = "Completed"
               PROVE  ref'[i].history[make_queue_key(w, k)] = <<>>
    BY DEF Cleaned
  <2>1. CASE i \in DOMAIN ref
    <3>1. ref'[i] = ref[i]
      BY <1>0, <1>2, <2>1, CommitRef
    <3>2. QED BY <2>1, <3>1 DEF Cleaned
  <2>2. CASE i = Len(ref')
    <3>1. /\ Latest \in Core /\ e.cmd \in Command /\ ref'[i] = ApplyCore(Latest, e.cmd)
      BY <1>0, <1>2, <2>2, CommitRef
    <3>2. Latest.workflows[w] = "Completed" => Latest.history[make_queue_key(w, k)] = <<>>
      BY <1>0 DEF Cleaned, Latest
    <3>3. Latest.workflows[w] = "Completed" => ~(e.cmd.type = "SetCheckpoint" /\ e.cmd.wf = w)
      <4>1. Latest.workflows[w] = "Completed" => \E j \in DOMAIN log : IsEnd(w, log[j].cmd)
        BY <1>0 DEF Once, Ended, Latest
      <4>2. QED BY <4>1, NoSetAfterEnd
    <3>4. ApplyCore(Latest, e.cmd).workflows[w] = "Completed"
      BY <3>1
    <3>5. QED BY <3>1, <3>2, <3>3, <3>4, ApplyCleans
  <2>3. QED BY <1>0, <1>2, <2>1, <2>2, CommitRef
<1>3. QED BY <1>1, <1>2, RefChanges

\* The clean-up of apply() for WorkflowEnd is final: once a workflow is
\* completed its queues are empty and stay so, since its owner awaits each
\* checkpoint before it proposes the end and no SetCheckpoint of it can be
\* committed behind the end. No node crashes, no owner is changed and no proposal
\* fails (after a failure the owner goes on while its command is still on the
\* way), and no two checkpoints share the string "id:key".
THEOREM CompletionCleansUp ==
    ASSUME Calm, NoErrors, Unambiguous
    PROVE  Spec => []CleanedUpOnCompletion
<1> DEFINE Inv == OwnedInv /\ QueueIsSuffixOfHistory /\ Once /\ Waiting /\ Cleaned
<1>1. Init => Inv
  <2>1. Init => Waiting
    BY DEF Init, Waiting, NoErrors
  <2>2. Init => Cleaned
    <3> SUFFICES ASSUME Init PROVE Cleaned
      OBVIOUS
    <3>1. DOMAIN ref = {1} /\ ref[1] = NewCore
      BY DEF Init
    <3>2. \A qk \in QueueKey : NewCore.history[qk] = <<>>
      BY DEF NewCore, NewQueues
    <3>3. QED BY <3>1, <3>2, QueueKeyType DEF Cleaned
  <2>3. QED BY <2>1, <2>2, InitType, InitFollows, InitLeft, InitOwned, InitOnce DEF OwnedInv
<1>2. Inv /\ [Next]_vars => Inv'
  BY NextOwned, NextLeft, NextOnce, NextWaiting, NextCleaned DEF OwnedInv
<1>3. Inv => CleanedUpOnCompletion
  <2> SUFFICES ASSUME OwnedInv, QueueIsSuffixOfHistory, Cleaned,
                      NEW n \in Node, NEW w \in Workflow, NEW k \in Key,
                      core[n].workflows[w] = "Completed"
               PROVE  /\ core[n].history[make_queue_key(w, k)] = <<>>
                      /\ queues[n][make_queue_key(w, k)] = <<>>
    BY DEF CleanedUpOnCompletion
  <2> DEFINE qk == make_queue_key(w, k)
  <2>1. applied[n] + 1 \in DOMAIN ref /\ core[n] = ref[applied[n] + 1]
    BY ReplicasSound DEF OwnedInv
  <2>2. core[n].history[qk] = <<>>
    BY <2>1 DEF Cleaned
  <2>3. EndsWith(core[n].history[qk], queues[n][qk]) /\ queues[n][qk] \in Seq(Value)
    BY QueueKeyType, TypeInvFacts DEF OwnedInv, Queues, QueueIsSuffixOfHistory
  <2>4. PICK q \in Seq(Value) : q = queues[n][qk]
    BY <2>3
  <2>5. Len(q) <= 0
    BY <2>2, <2>3, <2>4 DEF EndsWith
  <2>6. q = <<>>
    BY <2>5
  <2>7. QED BY <2>2, <2>4, <2>6
<1>4. QED BY <1>1, <1>2, <1>3, PTL DEF Spec

-----------------------------------------------------------------------------
(* Refinement of DurableExecution: the decided values, the values of the log, *)
(* come in the order of the owner's calls.                                    *)

\* How many values of w are decided while its owner stands at x.
DecidedAt(w, x, d) ==
    IF x.pc = "none" THEN d = 0
    ELSE IF x.pc = "pop" THEN d = x.step
    ELSE d = x.step - 1 \/ (d = x.step /\ x.pc = "await" /\ IsCheckpoint(w, x.step))

\* The decided values are the owner's, in the order of its calls, and the owner
\* is at most one behind.
InOrder(w) ==
    /\ Decided(w) \in Seq(Value)
    /\ \A i \in DOMAIN Decided(w) : Decided(w)[i] = OwnValue(w, i)
    /\ ~HasStarted(w) => Len(Decided(w)) = 0
    /\ HasStarted(w) => DecidedAt(w, exec[client[w].node][w], Len(Decided(w)))

\* A value in the log is counted among the decided ones.
Counted ==
    \A k \in DOMAIN log, w \in Workflow :
        log[k].cmd.type = "SetCheckpoint" /\ log[k].cmd.wf = w =>
            log[k].cmd.value.step <= Len(Decided(w))

\* Every value of a history is in the log.
Recorded ==
    \A i \in DOMAIN ref, qk \in QueueKey : \A j \in DOMAIN ref[i].history[qk] :
        \E k \in DOMAIN log : /\ log[k].cmd.type = "SetCheckpoint"
                              /\ log[k].cmd.value = ref[i].history[qk][j]

\* What is proposed comes next.
NextUp(e) ==
    /\ e.cmd.type = "SetCheckpoint" => Len(Decided(e.cmd.wf)) = e.cmd.value.step - 1
    /\ e.cmd.type = "WorkflowEnd" =>
           /\ Len(e.cmd.result.got) = Len(Program[e.cmd.wf])
           /\ \A j \in DOMAIN e.cmd.result.got : e.cmd.result.got[j] = OwnValue(e.cmd.wf, j)

\* An execution has a value of each call behind it.
Full == \A n \in Node, w \in Workflow :
            exec[n][w].pc # "none" => Len(exec[n][w].got) = exec[n][w].step - 1

\* The log, the owners and the proposals agree on how far each workflow has come.
Ordered ==
    /\ \A w \in Workflow : InOrder(w)
    /\ Counted /\ Recorded /\ Full
    /\ \A e \in pending : NextUp(e)

-----------------------------------------------------------------------------
(* The values in the log. *)

\* A set of natural numbers has a least one.
LEMMA LeastNumber ==
    ASSUME NEW T \in SUBSET Nat, T # {}
    PROVE  \E x \in T : \A y \in T : x <= y
<1>1. IsWellFoundedOn(OpToRel(<, Nat), Nat)
  BY NatLessThanWellFounded, Zenon
<1>2. PICK x \in T : \A y \in T : ~ (<<y, x>> \in OpToRel(<, Nat))
  BY <1>1, WFMin, Zenon
<1>3. \A y \in T : ~ (y < x)
  BY <1>2 DEF OpToRel
<1>4. QED BY <1>3

\* What entry e adds to the values s of w.
AddValue(s, w, e) ==
    IF e.cmd.type = "SetCheckpoint" /\ e.cmd.wf = w THEN Append(s, e.cmd.value) ELSE s

\* The functions that satisfy the recursion of CheckpointValues up to n.
Gathers(f, l, w, n) ==
    f = [k \in 0..n |-> IF k = 0 THEN <<>> ELSE AddValue(f[k - 1], w, l[k])]

\* There is one.
LEMMA GathersExists ==
    ASSUME NEW l, NEW w, NEW n \in Nat
    PROVE  \E f : Gathers(f, l, w, n)
<1> DEFINE Bad == {x \in Nat : ~ \E f : Gathers(f, l, w, x)}
<1>1. SUFFICES ASSUME Bad # {} PROVE FALSE
  OBVIOUS
<1>2. PICK x \in Bad : \A y \in Bad : x <= y
  BY <1>1, LeastNumber
<1>3. x # 0
  <2>1. ASSUME x = 0 PROVE Gathers([k \in 0..x |-> <<>>], l, w, x)
    BY <2>1 DEF Gathers
  <2>2. QED BY <2>1
<1>4. x - 1 \in Nat /\ x - 1 \notin Bad
  BY <1>2, <1>3
<1>5. PICK f : Gathers(f, l, w, x - 1)
  BY <1>4
<1> DEFINE g == [k \in 0..x |-> IF k = x THEN AddValue(f[k - 1], w, l[k]) ELSE f[k]]
<1>6. \A k \in 0..x : g[k] = IF k = 0 THEN <<>> ELSE AddValue(g[k - 1], w, l[k])
  <2> SUFFICES ASSUME NEW k \in 0..x
               PROVE  g[k] = IF k = 0 THEN <<>> ELSE AddValue(g[k - 1], w, l[k])
    OBVIOUS
  <2>1. k # 0 => k - 1 \in 0..x /\ k - 1 # x /\ g[k - 1] = f[k - 1]
    BY <1>2, <1>3
  <2>2. CASE k = x
    BY <1>3, <2>1, <2>2
  <2>3. CASE k # x
    <3>1. k \in 0..x - 1 /\ g[k] = f[k]
      BY <1>2, <2>3
    <3>2. f[k] = IF k = 0 THEN <<>> ELSE AddValue(f[k - 1], w, l[k])
      BY <1>5, <3>1 DEF Gathers
    <3>3. QED BY <2>1, <3>1, <3>2
  <2>4. QED BY <2>2, <2>3
<1>7. Gathers(g, l, w, x)
  BY <1>6 DEF Gathers
<1>8. QED BY <1>2, <1>7

\* CheckpointValues is what such a function has for the last entry.
LEMMA ValuesGathered ==
    ASSUME NEW l, NEW w, Len(l) \in Nat
    PROVE  \E f : Gathers(f, l, w, Len(l)) /\ CheckpointValues(l, w) = f[Len(l)]
<1> DEFINE upTo[k \in 0..Len(l)] ==
               IF k = 0 THEN <<>>
               ELSE IF l[k].cmd.type = "SetCheckpoint" /\ l[k].cmd.wf = w
                    THEN Append(upTo[k - 1], l[k].cmd.value)
                    ELSE upTo[k - 1]
<1>1. CheckpointValues(l, w) = upTo[Len(l)]
  BY DEF CheckpointValues
<1>2. \E g : g = [k \in 0..Len(l) |->
                     IF k = 0 THEN <<>>
                     ELSE IF l[k].cmd.type = "SetCheckpoint" /\ l[k].cmd.wf = w
                          THEN Append(g[k - 1], l[k].cmd.value)
                          ELSE g[k - 1]]
  <2>1. PICK g : Gathers(g, l, w, Len(l))
    BY GathersExists
  <2>2. QED BY <2>1, Zenon DEF Gathers, AddValue
<1>3. upTo = [k \in 0..Len(l) |->
                 IF k = 0 THEN <<>>
                 ELSE IF l[k].cmd.type = "SetCheckpoint" /\ l[k].cmd.wf = w
                      THEN Append(upTo[k - 1], l[k].cmd.value)
                      ELSE upTo[k - 1]]
  BY <1>2, Zenon
<1>4. QED BY <1>1, <1>3 DEF Gathers, AddValue

\* Two such functions agree where both are defined.
LEMMA GathersUnique ==
    ASSUME NEW f, NEW g, NEW l, NEW m, NEW w, NEW n \in Nat, NEW p \in Nat, n <= p,
           Gathers(f, l, w, n), Gathers(g, m, w, p), \A k \in 1..n : l[k] = m[k]
    PROVE  \A k \in 0..n : f[k] = g[k]
<1> DEFINE Bad == {k \in 0..n : f[k] # g[k]}
<1>1. SUFFICES ASSUME Bad # {} PROVE FALSE
  OBVIOUS
<1>2. PICK x \in Bad : \A y \in Bad : x <= y
  <2>1. Bad \in SUBSET Nat
    OBVIOUS
  <2>2. QED BY <1>1, <2>1, LeastNumber
<1>3. f[x] = IF x = 0 THEN <<>> ELSE AddValue(f[x - 1], w, l[x])
  BY <1>2 DEF Gathers
<1>4. g[x] = IF x = 0 THEN <<>> ELSE AddValue(g[x - 1], w, m[x])
  <2>1. x \in 0..p
    BY <1>2
  <2>2. QED BY <2>1 DEF Gathers
<1>5. x # 0
  BY <1>2, <1>3, <1>4
<1>6. x - 1 \in 0..n /\ x - 1 \notin Bad /\ l[x] = m[x]
  BY <1>2, <1>5
<1>7. f[x - 1] = g[x - 1]
  BY <1>6
<1>8. QED BY <1>2, <1>3, <1>4, <1>5, <1>6, <1>7

\* A log without entries has no values.
LEMMA NoValues == ASSUME NEW w PROVE CheckpointValues(<<>>, w) = <<>>
<1>1. Len(<<>>) = 0
  OBVIOUS
<1>2. PICK f : Gathers(f, <<>>, w, 0) /\ CheckpointValues(<<>>, w) = f[0]
  BY <1>1, ValuesGathered
<1>3. QED BY <1>2 DEF Gathers

\* A committed entry adds its value to those of its workflow.
LEMMA ValuesGrow ==
    ASSUME NEW l \in Seq(Entry), NEW e \in Entry, NEW w
    PROVE  CheckpointValues(Append(l, e), w) = AddValue(CheckpointValues(l, w), w, e)
<1>1. PICK m : m = Append(l, e)
  OBVIOUS
<1>2. PICK n \in Nat : n = Len(l)
  OBVIOUS
<1>3. Len(m) = n + 1 /\ m[n + 1] = e /\ \A k \in 1..n : l[k] = m[k]
  BY <1>1, <1>2
<1>4. PICK f : Gathers(f, l, w, n) /\ CheckpointValues(l, w) = f[n]
  BY <1>2, ValuesGathered
<1>5. PICK g : Gathers(g, m, w, n + 1) /\ CheckpointValues(m, w) = g[n + 1]
  BY <1>2, <1>3, ValuesGathered
<1>6. f[n] = g[n]
  <2>1. n \in 0..n /\ n <= n + 1 /\ n + 1 \in Nat
    OBVIOUS
  <2>2. QED BY <1>3, <1>4, <1>5, <2>1, GathersUnique
<1>7. g[n + 1] = AddValue(g[n], w, e)
  <2>1. n + 1 \in 0..n + 1 /\ n + 1 # 0 /\ (n + 1) - 1 = n
    OBVIOUS
  <2>2. g[n + 1] = AddValue(g[(n + 1) - 1], w, m[n + 1])
    BY <1>5, <2>1 DEF Gathers
  <2>3. QED BY <1>3, <2>1, <2>2
<1>8. QED BY <1>1, <1>4, <1>5, <1>6, <1>7

-----------------------------------------------------------------------------
(* What a step does to the log, and to an execution. *)

\* Only a commit adds an entry, and a state.
LEMMA LogChanges ==
    ASSUME [Next]_vars
    PROVE  (log' = log /\ ref' = ref) \/ \E e \in pending : Commit(e)
<1> USE DEF raftVars, nodeVars, taskVars
<1>1. CASE UNCHANGED vars
  BY <1>1 DEF vars
<1>2. CASE \/ \E e \in pending : Lose(e)
           \/ \E w \in Workflow, m \in Node : ChangeOwner(w, m)
           \/ \E n \in Node : Restart(n) \/ Observe(n) \/ Apply(n) \/ Crash(n)
           \/ \E n, m \in Node : InstallSnapshot(n, m)
           \/ \E w \in Workflow : ClientStep(w)
           \/ \E n \in Node, w \in Workflow : StartWorkflow(n, w) \/ ProposeError(n, w)
  BY <1>2
     DEF Lose, ChangeOwner, Restart, Observe, Apply, Crash, InstallSnapshot, ClientStep,
         ClientSubscribe, ClientReceive, StartWorkflow, ProposeError
<1>3. CASE \E n \in Node, w \in Workflow : ExecStep(n, w)
  BY <1>3, ExecFrame
<1>4. QED BY <1>1, <1>2, <1>3 DEF Next

\* A commit adds its value to those that are decided, and leaves the tasks alone.
LEMMA CommitDecides ==
    ASSUME TypeInv, NEW e \in pending, Commit(e)
    PROVE  /\ \A w : Decided(w)' = AddValue(Decided(w), w, e)
           /\ exec' = exec /\ client' = client
<1>1. log \in Seq(Entry) /\ e \in Entry /\ log' = Append(log, e)
  BY TypeInvFacts DEF Commit
<1>2. ASSUME NEW w PROVE Decided(w)' = AddValue(Decided(w), w, e)
  BY <1>1, ValuesGrow DEF Decided
<1>3. QED BY <1>2 DEF Commit, taskVars

\* Without a commit nothing is decided.
LEMMA NothingDecided ==
    ASSUME log' = log
    PROVE  \A w : Decided(w)' = Decided(w)
  BY DEF Decided

\* An execution is born where there was none.
LEMMA BornOnce ==
    ASSUME OwnedInv, Once, NEW n \in Node, NEW w \in Workflow, NEW y,
           Born(n, w, exec[n][w], y)
    PROVE  exec[n][w].pc = "none"
<1> SUFFICES ASSUME exec[n][w].pc # "none" PROVE FALSE
  OBVIOUS
<1>1. PICK j \in DOMAIN events[n] : j > obs[n] /\ StartOf(w, events[n][j])
  BY DEF Born, StartOf
<1>2. PICK k \in DOMAIN events[n] : k <= obs[n] /\ StartOf(w, events[n][k])
  BY DEF Once, Observed
<1>3. j = k
  BY <1>1, <1>2 DEF Once, StartedOnce
<1>4. obs[n] \in Nat /\ j \in Nat
  BY TypeInvFacts DEF OwnedInv, TypeInv, TypeOK
<1>5. QED BY <1>1, <1>2, <1>3, <1>4

\* An execution of a workflow that was not started does not change.
LEMMA NotStartedStays ==
    ASSUME OwnedInv, [Next]_vars, NEW n \in Node, NEW w \in Workflow, ~HasStarted(w)
    PROVE  exec[n][w].pc = "none" /\ exec'[n][w] = exec[n][w]
<1>0. TypeInv /\ Undisturbed /\ exec \in [Node -> [Workflow -> Exec]] /\ Execs /\ Commands
  BY TypeInvFacts DEF OwnedInv, Owned
<1>1. exec[n][w].pc = "none"
  BY <1>0 DEF Execs, SoundExec
<1>2. ASSUME NEW m \in Node, NEW v \in Workflow, NEW y \in Exec, SetExec(m, v, y),
             Changes(m, v, exec[m][v], y)
      PROVE  exec'[n][w] = exec[n][w]
  <2>1. CASE ~(m = n /\ v = w)
    BY <1>0, <1>2, <2>1 DEF SetExec
  <2>2. CASE m = n /\ v = w
    <3>1. ~ExecMoves(n, w, exec[n][w], y) /\ ~Woken(n, w, exec[n][w], y)
      BY <1>1 DEF ExecMoves, Goes, Returns, Found, GivesUp, Woken
    <3>2. Born(n, w, exec[n][w], y)
      BY <1>2, <2>2, <3>1 DEF Changes
    <3>3. PICK i \in DOMAIN events[n] : events[n][i].wf = w
      BY <3>2 DEF Born
    <3>4. HasStarted(w)
      BY <1>0, <3>3 DEF Commands, SoundCommand
    <3>5. QED BY <3>4
  <2>3. QED BY <2>1, <2>2
<1>3. QED BY <1>0, <1>1, <1>2, ExecChanges

-----------------------------------------------------------------------------
\* Everything that is used of the cluster.
RefInv == OwnedInv /\ QueueIsSuffixOfHistory /\ Seen /\ Once /\ Waiting /\ Ordered

\* A value in the log is decided.
LEMMA InLogIsDecided ==
    ASSUME RefInv, NEW w \in Workflow, NEW i, NEW k \in DOMAIN log,
           log[k].cmd.type = "SetCheckpoint", log[k].cmd.value = OwnValue(w, i)
    PROVE  i <= Len(Decided(w))
<1>1. SoundSet(log[k].cmd)
  BY DEF RefInv, OwnedInv, Owned, Commands, SoundCommand
<1>2. log[k].cmd.wf = w /\ log[k].cmd.value.step = i
  BY <1>1 DEF SoundSet, OwnValue
<1>3. QED BY <1>2 DEF RefInv, Ordered, Counted

\* The value an execution returns with is decided: it is in a queue, and so in
\* the history, it is the owner's and was applied, or an event told of it.
LEMMA FoundIsDecided ==
    ASSUME RefInv, Unambiguous, KeysUsedOnce,
           NEW n \in Node, NEW w \in Workflow, IsCheckpoint(w, exec[n][w].step),
           NEW v \in Value, Found(n, w, exec[n][w], v)
    PROVE  v = OwnValue(w, exec[n][w].step) /\ exec[n][w].step <= Len(Decided(w))
<1> DEFINE x == exec[n][w]
<1>0. /\ OwnedInv /\ QueueIsSuffixOfHistory /\ TypeInv /\ ReplicasFollowLog /\ Owned
      /\ x \in Exec /\ x.step \in Nat
  BY TypeInvFacts DEF RefInv, OwnedInv, Exec
<1>1. v = OwnValue(w, x.step)
  BY <1>0, FoundIsOwn
<1>2. CASE x.pc = "dequeue" /\ HasQueued(queues[n], w, Program[w][x.step])
           /\ v = QueueFront(queues[n], w, Program[w][x.step])
  <2> DEFINE qk == make_queue_key(w, Program[w][x.step])
  <2>1. qk \in QueueKey
    <3>1. Program[w][x.step] \in Key
      BY <1>0, <1>2, ProgramType DEF TypeInv, StepInProgram
    <3>2. QED BY <3>1, QueueKeyType
  <2>2. PICK h \in Seq(Value), q \in Seq(Value) : h = core[n].history[qk] /\ q = queues[n][qk]
    BY <1>0, <2>1, TypeInvFacts DEF Core, Queues
  <2>3. EndsWith(h, q) /\ q # <<>> /\ v = Head(q)
    BY <1>0, <1>2, <2>1, <2>2 DEF QueueIsSuffixOfHistory, HasQueued, QueueFront
  <2>4. PICK j \in DOMAIN h : h[j] = v
    <3>0. Len(q) \in Nat /\ Len(h) \in Nat /\ DOMAIN h = 1..Len(h)
      OBVIOUS
    <3>1. Len(q) > 0 /\ v = q[1]
      BY <2>3
    <3>2. v = h[Len(h) - Len(q) + 1]
      BY <2>3, <3>0, <3>1 DEF EndsWith
    <3>3. Len(h) - Len(q) + 1 \in DOMAIN h
      BY <2>3, <3>0, <3>1 DEF EndsWith
    <3>4. QED BY <3>2, <3>3
  <2>5. applied[n] + 1 \in DOMAIN ref /\ core[n] = ref[applied[n] + 1]
    BY <1>0, ReplicasSound
  <2>6. PICK k \in DOMAIN log : log[k].cmd.type = "SetCheckpoint" /\ log[k].cmd.value = v
    BY <2>1, <2>2, <2>4, <2>5 DEF RefInv, Ordered, Recorded
  <2>7. QED BY <1>1, <2>6, InLogIsDecided
<1>3. CASE x.pc = "pop"
  <2>1. n = client[w].node /\ HasStarted(w)
    BY <1>0, <1>3 DEF Owned, Execs, SoundExec
  <2>2. DecidedAt(w, x, Len(Decided(w)))
    BY <2>1 DEF RefInv, Ordered, InOrder
  <2>3. Len(Decided(w)) = x.step
    BY <1>3, <2>2 DEF DecidedAt
  <2>4. QED BY <1>0, <1>1, <2>3
<1>4. CASE \E j \in DOMAIN events[n] : /\ events[n][j].type = "SetCheckpoint"
                                       /\ events[n][j].value = v
  <2>1. PICK j \in DOMAIN events[n] : /\ events[n][j].type = "SetCheckpoint"
                                      /\ events[n][j].value = v
    BY <1>4
  <2>2. PICK k \in DOMAIN log : events[n][j] = log[k].cmd
    BY DEF RefInv, Once, Published
  <2>3. QED BY <1>1, <2>1, <2>2, InLogIsDecided
<1>5. QED BY <1>2, <1>3, <1>4 DEF Found

\* No execution gives up: no proposal fails and no owner changes.
LEMMA NobodyGivesUp ==
    ASSUME RefInv, NEW n \in Node, NEW w, NEW x, NEW y
    PROVE  ~GivesUp(n, w, x, y)
<1>1. ~(env.error > 0)
  BY DEF RefInv, Waiting
<1>2. \A j \in DOMAIN events[n] : events[n][j].type # "OwnerChange"
  BY DEF RefInv, OwnedInv, Owned, Commands, SoundCommand
<1>3. QED BY <1>1, <1>2 DEF GivesUp

\* A change of an execution leaves it with a value of each call behind it, of
\* which at most one is new: the one that was decided for this call.
LEMMA ChangesValues ==
    ASSUME RefInv, Unambiguous, KeysUsedOnce,
           NEW n \in Node, NEW w \in Workflow, NEW y \in Exec,
           Changes(n, w, exec[n][w], y)
    PROVE  /\ Len(y.got) = y.step - 1
           /\ \/ y.got = exec[n][w].got
              \/ /\ Len(exec[n][w].got) < Len(Decided(w))
                 /\ y.got = Append(exec[n][w].got, Decided(w)[Len(exec[n][w].got) + 1])
<1>1. PICK x \in Exec : x = exec[n][w]
  BY TypeInvFacts DEF RefInv, OwnedInv
<1>2. x.step \in Nat /\ y.step \in Nat /\ x.got \in Seq(Value) /\ y.got \in Seq(Value)
  BY DEF Exec
<1>3. x.pc # "none" => Len(x.got) = x.step - 1
  BY <1>1 DEF RefInv, Ordered, Full
<1>4. Changes(n, w, x, y)
  BY <1>1
<1>5. CASE Goes(n, w, x, y) \/ Woken(n, w, x, y)
  <2>1. y.got = x.got /\ y.step = x.step /\ x.pc # "none"
    BY <1>5 DEF Goes, Woken
  <2>2. QED BY <1>1, <1>3, <2>1
<1>6. CASE Born(n, w, x, y)
  <2>1. x.pc = "none"
    BY <1>1, <1>6, BornOnce DEF RefInv
  <2>2. x.got = <<>>
    BY <1>1, <2>1 DEF RefInv, Seen, SoundGot
  <2>3. y.got = <<>> /\ y.step = 1
    BY <1>6 DEF Born, Spawned
  <2>4. QED BY <1>1, <2>2, <2>3
<1>7. CASE Returns(n, w, x, y)
  <2>1. PICK v \in Value : Found(n, w, x, v) /\ y.got = Append(x.got, v)
    BY <1>7 DEF Returns
  <2>2. IsCheckpoint(w, x.step) /\ y.step = x.step + 1 /\ x.pc # "none"
    BY <1>7, <2>1 DEF Returns, Found
  <2>3. v = OwnValue(w, x.step) /\ x.step <= Len(Decided(w))
    BY <1>1, <2>1, <2>2, FoundIsDecided
  <2>4. PICK d \in Seq(Value) : d = Decided(w) /\ \A i \in DOMAIN d : d[i] = OwnValue(w, i)
    BY DEF RefInv, Ordered, InOrder
  <2>5. PICK g \in Nat : g = Len(x.got) /\ g = x.step - 1 /\ g + 1 = x.step
    BY <1>2, <1>3, <2>2
  <2>6. g + 1 \in DOMAIN d /\ g < Len(d)
    BY <2>3, <2>4, <2>5
  <2>7. d[g + 1] = v
    BY <2>3, <2>4, <2>5, <2>6
  <2>8. Len(y.got) = g + 1
    <3>1. PICK s \in Seq(Value) : s = x.got
      BY <1>2
    <3>2. Len(Append(s, v)) = Len(s) + 1
      OBVIOUS
    <3>3. QED BY <2>1, <2>5, <3>1, <3>2
  <2>9. QED BY <1>1, <1>2, <2>1, <2>2, <2>4, <2>5, <2>6, <2>7, <2>8
<1>8. QED BY <1>1, <1>4, <1>5, <1>6, <1>7, NobodyGivesUp DEF Changes, ExecMoves

\* A change of the owner's execution keeps it in step with what is decided.
LEMMA ChangesInStep ==
    ASSUME RefInv, Unambiguous, KeysUsedOnce,
           NEW n \in Node, NEW w \in Workflow, NEW y \in Exec,
           Changes(n, w, exec[n][w], y), HasStarted(w), n = client[w].node
    PROVE  DecidedAt(w, y, Len(Decided(w)))
<1>1. PICK x \in Exec : x = exec[n][w]
  BY TypeInvFacts DEF RefInv, OwnedInv
<1>2. PICK d \in Nat : d = Len(Decided(w))
  BY DEF RefInv, Ordered, InOrder
<1>3. DecidedAt(w, x, d)
  BY <1>1, <1>2 DEF RefInv, Ordered, InOrder
<1>4. x.step \in Nat /\ y.step \in Nat
  BY DEF Exec
<1>5. Changes(n, w, x, y)
  BY <1>1
<1>6. CASE Goes(n, w, x, y)
  BY <1>2, <1>3, <1>4, <1>6 DEF Goes, DecidedAt
<1>7. CASE Woken(n, w, x, y) /\ ~IsCheckpoint(w, x.step)
  BY <1>2, <1>3, <1>4, <1>7 DEF Woken, DecidedAt
<1>8. CASE Woken(n, w, x, y) /\ IsCheckpoint(w, x.step)
  <2>1. PICK k \in DOMAIN log : log[k].sync.wf = w /\ log[k].sync.step = x.step
    BY <1>8 DEF Woken
  <2>2. Named(log[k]) /\ SoundCommand(log[k].cmd) /\ log[k].cmd \in Command
    <3>1. log \in Seq(Entry)
      BY TypeInvFacts DEF RefInv, OwnedInv
    <3>2. log[k] \in Entry
      BY <3>1
    <3>3. QED BY <3>2 DEF RefInv, Once, Names, OwnedInv, Owned, Commands, Entry
  <2>3. log[k].cmd.wf = w /\ StepOf(log[k].cmd) = x.step
    <3>1. PICK u, s : /\ u = log[k].cmd.wf /\ s = StepOf(log[k].cmd)
                      /\ log[k].sync = [node |-> client[u].node, inc |-> 0, wf |-> u, step |-> s]
      BY <2>2 DEF Named
    <3>2. QED BY <2>1, <3>1
  <2>4. x.step > 0 /\ x.step <= Len(Program[w]) /\ Len(Program[w]) \in Nat
    <3>1. x.pc = "await"
      BY <1>8 DEF Woken
    <3>2. QED BY <1>1, <1>8, <3>1, ProgramType DEF RefInv, OwnedInv, TypeInv, StepInProgram, IsCheckpoint
  <2>5. log[k].cmd.type = "SetCheckpoint"
    <3>1. log[k].cmd.type \in {"WorkflowStart", "SetCheckpoint", "WorkflowEnd"}
      BY <2>2, CommandCases DEF SoundCommand
    <3>2. log[k].cmd.type # "WorkflowStart"
      BY <2>3, <2>4 DEF StepOf
    <3>3. log[k].cmd.type # "WorkflowEnd"
      BY <2>3, <2>4 DEF StepOf
    <3>4. QED BY <3>1, <3>2, <3>3
  <2>6. log[k].cmd.value.step = x.step
    BY <2>3, <2>5 DEF StepOf
  <2>7. x.step <= d
    BY <1>2, <2>3, <2>5, <2>6 DEF RefInv, Ordered, Counted
  <2>8. y.pc = "pop" /\ y.step = x.step /\ x.pc = "await"
    BY <1>8 DEF Woken
  <2>9. QED BY <1>2, <1>3, <1>4, <2>7, <2>8 DEF DecidedAt
<1>9. CASE Born(n, w, x, y)
  <2>1. x.pc = "none"
    BY <1>1, <1>9, BornOnce DEF RefInv
  <2>2. y.pc = "spawned" /\ y.step = 1
    BY <1>9 DEF Born, Spawned
  <2>3. QED BY <1>2, <1>3, <2>1, <2>2 DEF DecidedAt
<1>10. CASE Returns(n, w, x, y)
  <2>1. PICK v \in Value : Found(n, w, x, v)
    BY <1>10 DEF Returns
  <2>2. IsCheckpoint(w, x.step) /\ y.step = x.step + 1 /\ y.pc \in {"compute", "subscribe"}
    BY <1>10 DEF Returns, EnterStep
  <2>3. x.step <= d /\ x.pc \in {"dequeue", "pop", "wait"}
    BY <1>1, <1>2, <2>1, <2>2, FoundIsDecided DEF Found
  <2>4. d = x.step
    BY <1>3, <1>4, <2>3 DEF DecidedAt
  <2>5. QED BY <1>2, <1>4, <2>2, <2>4 DEF DecidedAt
<1>11. QED
  BY <1>5, <1>6, <1>7, <1>8, <1>9, <1>10, NobodyGivesUp DEF Changes, ExecMoves

-----------------------------------------------------------------------------
(* Every step keeps Ordered. *)

\* Every step keeps that an execution has the value of each call it has made:
\* only the return of set_replicated_var moves on to the next call.
LEMMA NextFull ==
    ASSUME RefInv, Unambiguous, KeysUsedOnce, [Next]_vars
    PROVE  Full'
<1>0. TypeInv /\ Undisturbed /\ exec \in [Node -> [Workflow -> Exec]] /\ Full
  BY TypeInvFacts DEF RefInv, OwnedInv, Owned, Ordered
<1>1. CASE exec' = exec
  BY <1>0, <1>1 DEF Full
<1>2. ASSUME NEW m \in Node, NEW v \in Workflow, NEW y \in Exec, SetExec(m, v, y),
             Changes(m, v, exec[m][v], y)
      PROVE  Full'
  <2>1. Len(y.got) = y.step - 1
    BY <1>2, ChangesValues
  <2>2. \A n \in Node, w \in Workflow : exec'[n][w] = y \/ exec'[n][w] = exec[n][w]
    BY <1>0, <1>2 DEF SetExec
  <2>3. QED BY <1>0, <2>1, <2>2 DEF Full
<1>3. QED BY <1>0, <1>1, <1>2, ExecChanges

\* The owner of a workflow stays in step when nothing is decided.
LEMMA StaysInStep ==
    ASSUME RefInv, Unambiguous, KeysUsedOnce, ClientsStay, [Next]_vars, log' = log,
           NEW w \in Workflow
    PROVE  InOrder(w)'
<1>0. /\ OwnedInv /\ TypeInv /\ Undisturbed /\ exec \in [Node -> [Workflow -> Exec]]
      /\ InOrder(w)
  BY TypeInvFacts DEF RefInv, OwnedInv, Owned, Ordered
<1>1. PICK d \in Seq(Value) : d = Decided(w)
  BY <1>0 DEF InOrder
<1>2. Decided(w)' = d
  BY <1>1, NothingDecided
<1>3. CASE ~HasStarted(w)
  <2>1. d = <<>> /\ Len(d) = 0
    BY <1>0, <1>1, <1>3 DEF InOrder
  <2>2. HasStarted(w)' => client'[w].node \in Node
    <3>1. TypeInv'
      BY <1>0, NextOwned DEF OwnedInv
    <3>2. QED BY <3>1 DEF TypeInv, TypeOK, HasStarted
  <2>3. \A n \in Node : exec'[n][w].pc = "none"
    BY <1>0, <1>3, NotStartedStays
  <2>4. QED BY <1>2, <2>1, <2>2, <2>3 DEF InOrder, DecidedAt
<1>4. CASE HasStarted(w)
  <2>1. PICK n \in Node : n = client[w].node
    BY <1>0, <1>4, TypeInvFacts DEF HasStarted
  <2>2. HasStarted(w)' /\ client'[w].node = n
    BY <1>4, <2>1 DEF ClientsStay
  <2>3. \A i : OwnValue(w, i)' = OwnValue(w, i)
    BY <2>1, <2>2 DEF OwnValue
  <2>4. DecidedAt(w, exec[n][w], Len(d))
    BY <1>0, <1>1, <1>4, <2>1 DEF InOrder
  <2>5. DecidedAt(w, exec'[n][w], Len(d))
    <3>1. ASSUME NEW m \in Node, NEW v \in Workflow, NEW y \in Exec, SetExec(m, v, y),
                 Changes(m, v, exec[m][v], y)
          PROVE  DecidedAt(w, exec'[n][w], Len(d))
      <4>1. CASE m = n /\ v = w
        <5>1. exec'[n][w] = y
          BY <1>0, <3>1, <4>1 DEF SetExec
        <5>2. QED BY <1>1, <1>4, <2>1, <3>1, <4>1, <5>1, ChangesInStep
      <4>2. CASE ~(m = n /\ v = w)
        <5>1. exec'[n][w] = exec[n][w]
          BY <1>0, <3>1, <4>2 DEF SetExec
        <5>2. QED BY <2>4, <5>1
      <4>3. QED BY <4>1, <4>2
    <3>2. CASE exec' = exec
      BY <2>4, <3>2
    <3>3. QED BY <1>0, <3>1, <3>2, ExecChanges
  <2>6. DecidedAt(w, exec[client[w].node][w], Len(Decided(w)))'
    BY <1>2, <2>2, <2>5 DEF DecidedAt
  <2>7. \A i \in DOMAIN d : d[i] = OwnValue(w, i)
    BY <1>0, <1>1 DEF InOrder
  <2>8. QED BY <1>2, <2>2, <2>3, <2>6, <2>7 DEF InOrder
<1>5. QED BY <1>3, <1>4

\* What is committed comes next.
LEMMA CommitsNext ==
    ASSUME RefInv, NEW e \in pending, e.cmd.type = "SetCheckpoint"
    PROVE  LET w == e.cmd.wf
               s == e.cmd.value.step
               x == exec[client[w].node][w]
           IN  /\ w \in Workflow /\ HasStarted(w) /\ e.cmd.value \in Value
               /\ s \in DOMAIN Program[w] /\ e.cmd.value = OwnValue(w, s)
               /\ Len(Decided(w)) = s - 1
               /\ x.pc = "await" /\ x.step = s
<1>1. e \in Entry /\ e.cmd \in Command /\ SoundCommand(e.cmd) /\ NextUp(e)
  BY TypeInvFacts DEF RefInv, OwnedInv, Owned, Commands, Ordered, Entry
<1>2. e.cmd \in SetCommand
  BY <1>1, CommandCases
<1>3. e.cmd.wf \in Workflow /\ e.cmd.value \in Value
  BY <1>2 DEF SetCommand
<1>4. e.cmd.value.step \in DOMAIN Program[e.cmd.wf] /\ SoundSet(e.cmd) /\ HasStarted(e.cmd.wf)
  BY <1>1 DEF SoundCommand, SoundSet
<1>5. StepOf(e.cmd) = e.cmd.value.step
  BY DEF StepOf
<1>6. e.cmd.value.step > 0
  BY <1>3, <1>4, RuntimeAssumption
<1>7. QED BY <1>1, <1>3, <1>4, <1>5, <1>6 DEF RefInv, Waiting, NextUp, SoundSet

\* A commit keeps the decided values in the order of the owner's calls: the
\* checkpoint it decides is the one the owner awaits.
LEMMA CommitInStep ==
    ASSUME RefInv, NEW e \in pending, Commit(e), NEW w \in Workflow
    PROVE  InOrder(w)'
<1>0. TypeInv /\ InOrder(w)
  BY DEF RefInv, OwnedInv, Ordered
<1>1. PICK d \in Seq(Value) : d = Decided(w)
  BY <1>0 DEF InOrder
<1>2. Decided(w)' = AddValue(d, w, e) /\ exec' = exec /\ client' = client
  BY <1>0, <1>1, CommitDecides
<1>3. CASE ~(e.cmd.type = "SetCheckpoint" /\ e.cmd.wf = w)
  <2>1. Decided(w)' = Decided(w)
    BY <1>1, <1>2, <1>3 DEF AddValue
  <2>2. QED BY <1>0, <1>2, <2>1 DEF InOrder, HasStarted, OwnValue, DecidedAt
<1>4. CASE e.cmd.type = "SetCheckpoint" /\ e.cmd.wf = w
  <2>0. PICK v \in Value : v = e.cmd.value
    BY <1>4, CommitsNext
  <2>1. PICK s, x :
            /\ s = e.cmd.value.step /\ v = e.cmd.value /\ x = exec[client[w].node][w]
            /\ s \in DOMAIN Program[w] /\ v = OwnValue(w, s) /\ HasStarted(w)
            /\ Len(d) = s - 1 /\ x.pc = "await" /\ x.step = s
    BY <1>1, <1>4, <2>0, CommitsNext
  <2>2. Len(d) \in Nat /\ s \in Nat /\ s <= Len(Program[w]) /\ s = Len(d) + 1
    <3>1. Len(d) \in Nat
      OBVIOUS
    <3>2. PICK p \in Seq(Key) : p = Program[w]
      BY RuntimeAssumption
    <3>3. s \in 1..Len(p) /\ Len(p) \in Nat
      BY <2>1, <3>2
    <3>4. s \in Nat /\ s <= Len(Program[w])
      BY <3>2, <3>3
    <3>5. PICK g \in Nat : g = Len(d)
      BY <3>1
    <3>6. g = s - 1
      BY <2>1, <3>5
    <3>7. s = g + 1
      BY <3>4, <3>6
    <3>8. QED BY <3>4, <3>5, <3>7
  <2>3. Decided(w)' = Append(d, v)
    BY <1>2, <1>4, <2>1 DEF AddValue
  <2>4. \A i \in DOMAIN d : d[i] = OwnValue(w, i)
    BY <1>0, <1>1 DEF InOrder
  <2>5. PICK t \in Seq(Value) : t = Append(d, v)
    <3>1. Append(d, v) \in Seq(Value)
      OBVIOUS
    <3>2. QED BY <3>1
  <2>6. (\A i \in DOMAIN t : t[i] = OwnValue(w, i)) /\ Len(t) = Len(d) + 1
    <3>1. v = OwnValue(w, Len(d) + 1)
      BY <2>1, <2>2
    <3>2. QED BY <2>4, <2>5, <3>1, AppendOwn
  <2>7. DecidedAt(w, x, Len(t))
    BY <2>1, <2>2, <2>6 DEF DecidedAt, IsCheckpoint
  <2>8. DecidedAt(w, exec[client[w].node][w], Len(Decided(w)))'
    BY <1>2, <2>1, <2>3, <2>5, <2>7 DEF DecidedAt
  <2>9. \A i : OwnValue(w, i)' = OwnValue(w, i)
    BY <1>2 DEF OwnValue
  <2>10. HasStarted(w)' /\ Decided(w)' = t
    BY <1>2, <2>1, <2>3, <2>5 DEF HasStarted
  <2>11. QED BY <2>6, <2>8, <2>9, <2>10 DEF InOrder
<1>5. QED BY <1>3, <1>4

\* No step takes back what is decided.
LEMMA DecidedGrows ==
    ASSUME RefInv, [Next]_vars, NEW w \in Workflow
    PROVE  Len(Decided(w)) \in Nat /\ Len(Decided(w)') \in Nat /\ Len(Decided(w)) <= Len(Decided(w)')
<1>0. TypeInv
  BY DEF RefInv, OwnedInv
<1>1. PICK d \in Seq(Value) : d = Decided(w)
  BY DEF RefInv, Ordered, InOrder
<1>2. Len(d) \in Nat
  OBVIOUS
<1>3. CASE log' = log
  BY <1>1, <1>2, <1>3, NothingDecided
<1>4. ASSUME NEW e \in pending, Commit(e)
      PROVE  Len(Decided(w)') \in Nat /\ Len(d) <= Len(Decided(w)')
  <2>1. Decided(w)' = AddValue(d, w, e)
    BY <1>0, <1>1, <1>4, CommitDecides
  <2>2. CASE e.cmd.type = "SetCheckpoint" /\ e.cmd.wf = w
    <3>1. PICK v \in Value : v = e.cmd.value
      BY <2>2, CommitsNext
    <3>2. Decided(w)' = Append(d, v)
      BY <2>1, <2>2, <3>1 DEF AddValue
    <3>3. Len(Append(d, v)) = Len(d) + 1
      OBVIOUS
    <3>4. QED BY <1>2, <3>2, <3>3
  <2>3. CASE ~(e.cmd.type = "SetCheckpoint" /\ e.cmd.wf = w)
    BY <1>2, <2>1, <2>3 DEF AddValue
  <2>4. QED BY <2>2, <2>3
<1>5. QED BY <1>1, <1>2, <1>3, <1>4, LogChanges

\* Every step keeps that a value in the log is counted.
LEMMA NextCounted ==
    ASSUME RefInv, [Next]_vars
    PROVE  Counted'
<1>0. TypeInv /\ Counted /\ log \in Seq(Entry)
  BY TypeInvFacts DEF RefInv, OwnedInv, Ordered
<1>1. ASSUME NEW k \in DOMAIN log, NEW w \in Workflow,
             log[k].cmd.type = "SetCheckpoint", log[k].cmd.wf = w
      PROVE  log[k].cmd.value.step <= Len(Decided(w)')
  <2>1. log[k] \in Entry
    BY <1>0
  <2>2. log[k].cmd \in SetCommand
    BY <1>1, <2>1, CommandCases DEF Entry
  <2>3. PICK s \in Nat : s = log[k].cmd.value.step
    BY <2>2 DEF SetCommand, Value
  <2>4. s <= Len(Decided(w))
    BY <1>0, <1>1, <2>3 DEF Counted
  <2>5. PICK a \in Nat, b \in Nat : a = Len(Decided(w)) /\ b = Len(Decided(w)') /\ a <= b
    BY DecidedGrows
  <2>6. s <= b
    BY <2>4, <2>5
  <2>7. QED BY <2>3, <2>5, <2>6
<1>2. CASE log' = log
  BY <1>1, <1>2 DEF Counted
<1>3. ASSUME NEW e \in pending, Commit(e) PROVE Counted'
  <2>1. log' = Append(log, e) /\ e \in Entry
    BY <1>0, <1>3, CommitRef
  <2>2. ASSUME NEW k \in DOMAIN log', NEW w \in Workflow,
               log'[k].cmd.type = "SetCheckpoint", log'[k].cmd.wf = w
        PROVE  log'[k].cmd.value.step <= Len(Decided(w)')
    <3>1. CASE k \in DOMAIN log
      <4>1. log'[k] = log[k]
        BY <1>0, <2>1, <3>1
      <4>2. QED BY <1>1, <2>2, <3>1, <4>1
    <3>2. CASE k \notin DOMAIN log
      <4>1. log'[k] = e
        BY <1>0, <2>1, <2>2, <3>2
      <4>2. PICK v \in Value : v = e.cmd.value
        BY <2>2, <4>1, CommitsNext
      <4>3. PICK d \in Seq(Value) : d = Decided(w)
        BY DEF RefInv, Ordered, InOrder
      <4>4. Len(d) = v.step - 1
        BY <2>2, <4>1, <4>2, <4>3, CommitsNext
      <4>5. Decided(w)' = Append(d, v)
        BY <1>0, <1>3, <2>2, <4>1, <4>2, <4>3, CommitDecides DEF AddValue
      <4>6. Len(Append(d, v)) = Len(d) + 1 /\ Len(d) \in Nat
        OBVIOUS
      <4>7. v.step \in Nat
        BY DEF Value
      <4>8. PICK g \in Nat, t \in Nat : g = Len(d) /\ t = v.step
        BY <4>6, <4>7
      <4>9. t <= g + 1
        BY <4>4, <4>8
      <4>10. QED BY <4>1, <4>2, <4>5, <4>6, <4>8, <4>9
    <3>3. QED BY <3>1, <3>2
  <2>3. QED BY <2>2 DEF Counted
<1>4. QED BY <1>2, <1>3, LogChanges

\* What apply() leaves in a history was there, or is the value it was given.
LEMMA ApplyHistory ==
    ASSUME NEW s \in Core, NEW c \in Command, NEW qk \in QueueKey,
           NEW j \in DOMAIN ApplyCore(s, c).history[qk]
    PROVE  \/ c.type = "SetCheckpoint" /\ ApplyCore(s, c).history[qk][j] = c.value
           \/ /\ j \in DOMAIN s.history[qk]
              /\ ApplyCore(s, c).history[qk][j] = s.history[qk][j]
<1> DEFINE h == ApplyCore(s, c).history
<1>0. s.history \in [QueueKey -> Seq(Value)]
  BY DEF Core
<1>1. CASE c.type = "WorkflowStart"
  <2>1. h = s.history
    BY <1>1 DEF ApplyCore, ApplyStart, Core
  <2>2. QED BY <2>1
<1>2. CASE c.type = "OwnerChange"
  <2>1. h = s.history
    BY <1>2 DEF ApplyCore, ApplyOwner, Core
  <2>2. QED BY <2>1
<1>3. CASE c.type = "WorkflowEnd"
  <2>1. h = Retain(s.history, c.wf)
    BY <1>3 DEF ApplyCore, ApplyEnd, ApplyQueues, Core
  <2>2. h[qk] = <<>> \/ h[qk] = s.history[qk]
    BY <2>1 DEF Retain
  <2>3. h[qk] # <<>>
    OBVIOUS
  <2>4. QED BY <2>2, <2>3
<1>4. CASE c.type = "SetCheckpoint" /\ c \in SetCommand
  <2>1. h = [s.history EXCEPT ![make_queue_key(c.wf, c.key)] = Append(@, c.value)]
    BY <1>4 DEF ApplyCore, ApplySet, ApplyQueues, Push, Core
  <2>2. PICK t \in Seq(Value), v \in Value : t = s.history[qk] /\ v = c.value
    BY <1>0, <1>4 DEF SetCommand
  <2>3. h[qk] = t \/ h[qk] = Append(t, v)
    BY <1>0, <2>1, <2>2
  <2>4. CASE h[qk] = t
    BY <2>2, <2>4
  <2>5. CASE h[qk] = Append(t, v)
    <3>1. j \in DOMAIN Append(t, v)
      BY <2>5
    <3>2. (j \in DOMAIN t /\ Append(t, v)[j] = t[j]) \/ Append(t, v)[j] = v
      BY <3>1
    <3>3. QED BY <1>4, <2>2, <2>5, <3>2
  <2>6. QED BY <2>3, <2>4, <2>5
<1>5. QED BY <1>1, <1>2, <1>3, <1>4, CommandCases

\* Every step keeps that the histories hold values of the log: apply() takes what
\* it queues from the entry.
LEMMA NextRecorded ==
    ASSUME RefInv, [Next]_vars
    PROVE  Recorded'
<1>0. TypeInv /\ Recorded /\ log \in Seq(Entry)
  BY TypeInvFacts DEF RefInv, OwnedInv, Ordered
<1>1. CASE log' = log /\ ref' = ref
  BY <1>0, <1>1 DEF Recorded
<1>2. ASSUME NEW e \in pending, Commit(e) PROVE Recorded'
  <2>1. /\ Latest \in Core /\ e \in Entry /\ e.cmd \in Command /\ Len(ref) \in DOMAIN ref
        /\ DOMAIN ref' = DOMAIN ref \cup {Len(ref')}
        /\ \A i \in DOMAIN ref : ref'[i] = ref[i]
        /\ ref'[Len(ref')] = ApplyCore(Latest, e.cmd)
        /\ log' = Append(log, e) /\ log'[Len(log')] = e /\ Len(log') \in DOMAIN log'
    BY <1>0, <1>2, CommitRef
  <2>2. \A k \in DOMAIN log : k \in DOMAIN log' /\ log'[k] = log[k]
    BY <1>0, <2>1
  <2>3. ASSUME NEW i \in DOMAIN ref, NEW qk \in QueueKey, NEW j \in DOMAIN ref[i].history[qk]
        PROVE  \E k \in DOMAIN log' : /\ log'[k].cmd.type = "SetCheckpoint"
                                      /\ log'[k].cmd.value = ref[i].history[qk][j]
    BY <1>0, <2>2 DEF Recorded
  <2>4. ASSUME NEW i \in DOMAIN ref', NEW qk \in QueueKey, NEW j \in DOMAIN ref'[i].history[qk]
        PROVE  \E k \in DOMAIN log' : /\ log'[k].cmd.type = "SetCheckpoint"
                                      /\ log'[k].cmd.value = ref'[i].history[qk][j]
    <3>1. CASE i \in DOMAIN ref
      <4>1. ref'[i] = ref[i]
        BY <2>1, <3>1
      <4>2. j \in DOMAIN ref[i].history[qk]
        BY <2>4, <4>1
      <4>3. QED BY <2>3, <3>1, <4>1, <4>2
    <3>2. CASE i = Len(ref')
      <4>1. ref'[i] = ApplyCore(Latest, e.cmd) /\ Latest = ref[Len(ref)]
        BY <2>1, <3>2 DEF Latest
      <4>2. j \in DOMAIN ApplyCore(Latest, e.cmd).history[qk]
        BY <2>4, <4>1
      <4>3. PICK s \in Core, c \in Command : s = Latest /\ c = e.cmd
        BY <2>1
      <4>4. j \in DOMAIN ApplyCore(s, c).history[qk]
        BY <4>2, <4>3
      <4>5. \/ c.type = "SetCheckpoint" /\ ApplyCore(s, c).history[qk][j] = c.value
            \/ /\ j \in DOMAIN s.history[qk]
               /\ ApplyCore(s, c).history[qk][j] = s.history[qk][j]
        BY <4>4, ApplyHistory
      <4>6. CASE c.type = "SetCheckpoint" /\ ApplyCore(s, c).history[qk][j] = c.value
        BY <2>1, <4>1, <4>3, <4>6
      <4>7. CASE /\ j \in DOMAIN s.history[qk]
                 /\ ApplyCore(s, c).history[qk][j] = s.history[qk][j]
        <5>1. PICK m \in DOMAIN ref : s = ref[m]
          BY <2>1, <4>1, <4>3
        <5>2. j \in DOMAIN ref[m].history[qk]
          BY <4>7, <5>1
        <5>3. ref'[i].history[qk][j] = ref[m].history[qk][j]
          BY <4>1, <4>3, <4>7, <5>1
        <5>4. QED BY <2>3, <5>2, <5>3
      <4>8. QED BY <4>5, <4>6, <4>7
    <3>3. QED BY <2>1, <3>1, <3>2
  <2>5. QED BY <2>4 DEF Recorded
<1>3. QED BY <1>1, <1>2, LogChanges

\* What comes next stays next until it is committed.
LEMMA NextUpKept ==
    ASSUME Unambiguous, KeysUsedOnce, RefInv, [Next]_vars, NEW e \in pending,
           e.cmd.type = "SetCheckpoint" => Decided(e.cmd.wf)' = Decided(e.cmd.wf)
    PROVE  NextUp(e)'
<1>1. e \in Entry /\ SoundCommand(e.cmd) /\ NextUp(e)
  BY TypeInvFacts DEF RefInv, OwnedInv, Owned, Commands, Ordered
<1>2. PICK w \in Workflow : w = e.cmd.wf /\ HasStarted(w)
  BY <1>1, CommandCases DEF Entry, SoundCommand
<1>3. client'[w].node = client[w].node
  BY <1>2, NextOwned DEF RefInv, ClientsStay
<1>4. \A i : OwnValue(w, i)' = OwnValue(w, i)
  BY <1>3 DEF OwnValue
<1>5. QED BY <1>1, <1>2, <1>4 DEF NextUp

\* A workflow has one checkpoint on the way.
LEMMA OneOnTheWay ==
    ASSUME RefInv, NEW e \in pending, NEW f \in pending,
           e.cmd.type = "SetCheckpoint", f.cmd.type = "SetCheckpoint", e.cmd.wf = f.cmd.wf
    PROVE  e = f
<1>1. e.cmd.value.step = f.cmd.value.step
  BY CommitsNext
<1>2. StepOf(e.cmd) = StepOf(f.cmd)
  BY <1>1 DEF StepOf
<1>3. Named(e) /\ Named(f)
  BY DEF RefInv, Once, Names
<1>4. e.sync = f.sync
  BY <1>2, <1>3 DEF Named
<1>5. QED BY <1>4 DEF RefInv, Once, Distinct

\* What an owner proposes comes next.
LEMMA NewIsNextUp ==
    ASSUME Unambiguous, KeysUsedOnce, RefInv, [Next]_vars, NEW p, NewEntry(p), log' = log
    PROVE  NextUp(p)'
<1>0. /\ OwnedInv /\ TypeInv /\ Names /\ ReplicasFollowLog /\ Owned /\ Undisturbed
      /\ exec \in [Node -> [Workflow -> Exec]]
  BY TypeInvFacts DEF RefInv, OwnedInv, Owned, Once
<1>c. ClientsStay
  BY <1>0, NextOwned DEF RefInv
<1>1. ASSUME NEW n \in Node, NEW w \in Workflow, Starting(n, w, p) PROVE NextUp(p)'
  BY <1>1 DEF Starting, NextUp
<1>2. ASSUME NEW n \in Node, NEW w \in Workflow, NEW y \in Exec, Proposed(n, w, p, y)
      PROVE  NextUp(p)'
  <2>1. PICK x \in Exec : x = exec[n][w]
    BY <1>0
  <2>2. x.pc = "check" /\ IsOwner(n, w) /\ p.cmd = StepCommand(n, w, x)
    BY <1>2, <2>1 DEF Proposed
  <2>3. /\ x.step \in Nat /\ x.step > 0 /\ x.got \in Seq(Value) /\ Len(Program[w]) \in Nat
        /\ x.step <= Len(Program[w]) + 1 /\ HasStarted(w)
    BY <1>0, <2>1, <2>2, TypeInvExec, ProgramType DEF ExecOK, Exec, Owned, Execs, SoundExec
  <2>4. n = client[w].node /\ client'[w].node = n
    <3>1. n = client[w].node
      BY <1>0, <2>1, <2>2, OwnerStarted
    <3>2. QED BY <1>c, <2>3, <3>1 DEF ClientsStay
  <2>5. Len(x.got) = x.step - 1 /\ \A j \in DOMAIN x.got : x.got[j] = OwnValue(w, j)
    BY <2>1, <2>2 DEF RefInv, Ordered, Full, Seen, SoundGot
  <2>6. \A j : OwnValue(w, j)' = OwnValue(w, j)
    BY <2>4 DEF OwnValue
  <2>7. CASE IsCheckpoint(w, x.step)
    <3>1. p.cmd.type = "SetCheckpoint" /\ p.cmd.wf = w /\ p.cmd.value.step = x.step
      BY <2>2, <2>7 DEF StepCommand, MyValue
    <3>2. DecidedAt(w, x, Len(Decided(w)))
      BY <2>1, <2>3, <2>4 DEF RefInv, Ordered, InOrder
    <3>3. Len(Decided(w)) = x.step - 1
      BY <2>2, <3>2 DEF DecidedAt
    <3>4. Decided(w)' = Decided(w)
      BY NothingDecided
    <3>5. QED BY <3>1, <3>3, <3>4 DEF NextUp
  <2>8. CASE ~IsCheckpoint(w, x.step)
    <3>1. p.cmd.type = "WorkflowEnd" /\ p.cmd.wf = w /\ p.cmd.result.got = x.got
      BY <2>2, <2>8 DEF StepCommand
    <3>2. PICK g \in Nat, s \in Nat, l \in Nat :
              g = Len(x.got) /\ s = x.step /\ l = Len(Program[w])
      BY <2>3
    <3>3. s > 0 /\ s <= l + 1 /\ ~(s <= l) /\ g = s - 1
      BY <2>3, <2>5, <2>8, <3>2 DEF IsCheckpoint
    <3>4. g = l
      BY <3>3
    <3>5. Len(x.got) = Len(Program[w])
      BY <3>2, <3>4
    <3>6. QED BY <2>5, <2>6, <3>1, <3>5 DEF NextUp
  <2>9. QED BY <2>7, <2>8
<1>3. QED BY <1>1, <1>2 DEF NewEntry

\* Every entry on the way comes next.
LEMMA NextNextUp ==
    ASSUME Unambiguous, KeysUsedOnce, RefInv, [Next]_vars
    PROVE  \A e \in pending' : NextUp(e)'
<1>0. TypeInv /\ Undisturbed
  BY DEF RefInv, OwnedInv, Owned
<1> SUFFICES ASSUME NEW e \in pending' PROVE NextUp(e)'
  OBVIOUS
<1>1. CASE log' = log /\ e \in pending
  <2>1. Decided(e.cmd.wf)' = Decided(e.cmd.wf)
    BY <1>1, NothingDecided
  <2>2. QED BY <1>1, <2>1, NextUpKept
<1>2. ASSUME NEW f \in pending, Commit(f), pending' = pending \ {f} PROVE NextUp(e)'
  <2>1. e \in pending /\ e # f
    BY <1>2
  <2>2. ASSUME e.cmd.type = "SetCheckpoint" PROVE Decided(e.cmd.wf)' = Decided(e.cmd.wf)
    <3>1. ~(f.cmd.type = "SetCheckpoint" /\ f.cmd.wf = e.cmd.wf)
      BY <2>1, <2>2, OneOnTheWay
    <3>2. PICK w : w = e.cmd.wf
      OBVIOUS
    <3>3. Decided(w)' = AddValue(Decided(w), w, f)
      BY <1>0, <1>2, CommitDecides
    <3>4. AddValue(Decided(w), w, f) = Decided(w)
      BY <3>1, <3>2 DEF AddValue
    <3>5. QED BY <3>2, <3>3, <3>4
  <2>3. QED BY <2>1, <2>2, NextUpKept
<1>3. ASSUME NEW p, pending' = pending \cup {p}, log' = log, NewEntry(p) PROVE NextUp(e)'
  <2>1. NextUp(p)'
    BY <1>3, NewIsNextUp
  <2>2. QED BY <1>1, <1>3, <2>1
<1>4. CASE \E f \in pending : Commit(f)
  <2>1. PICK f \in pending : Commit(f)
    BY <1>4
  <2>2. pending' = pending \ {f}
    BY <2>1 DEF Commit
  <2>3. QED BY <1>2, <2>1, <2>2
<1>5. CASE log' = log /\ ref' = ref
  <2>1. ASSUME NEW f \in pending, log' = Append(log, f) PROVE FALSE
    <3>1. log \in Seq(Entry) /\ f \in Entry
      BY <1>0, TypeInvFacts
    <3>2. Len(Append(log, f)) = Len(log) + 1 /\ Len(log) \in Nat
      BY <3>1
    <3>3. QED BY <1>5, <2>1, <3>2
  <2>2. QED BY <1>0, <1>1, <1>3, <1>5, <2>1, EntryChanges
<1>6. QED BY <1>4, <1>5, LogChanges

\* Every step keeps the order of the decided values.
LEMMA NextOrdered ==
    ASSUME Unambiguous, KeysUsedOnce, RefInv, [Next]_vars
    PROVE  Ordered'
<1>1. \A w \in Workflow : InOrder(w)'
  <2>1. CASE log' = log /\ ref' = ref
    <3>1. ClientsStay
      BY NextOwned DEF RefInv
    <3>2. QED BY <2>1, <3>1, StaysInStep
  <2>2. CASE \E e \in pending : Commit(e)
    BY <2>2, CommitInStep
  <2>3. QED BY <2>1, <2>2, LogChanges
<1>2. QED BY <1>1, NextCounted, NextRecorded, NextFull, NextNextUp DEF Ordered

\* At the start nothing is decided.
LEMMA InitOrdered == Init => Ordered
<1> SUFFICES ASSUME Init PROVE Ordered
  OBVIOUS
<1>1. \A w \in Workflow : Decided(w) = <<>>
  BY NoValues DEF Init, Decided
<1>2. pending = {} /\ DOMAIN log = {} /\ DOMAIN ref = {1} /\ ref[1] = NewCore
  BY DEF Init
<1>3. \A n \in Node, w \in Workflow : exec[n][w].pc = "none"
  BY DEF Init, NoExec
<1>4. ASSUME NEW w \in Workflow PROVE InOrder(w)
  <2>1. ~HasStarted(w)
    BY DEF Init, HasStarted
  <2>2. Len(<<>>) = 0 /\ DOMAIN <<>> = {} /\ <<>> \in Seq(Value)
    OBVIOUS
  <2>3. QED BY <1>1, <2>1, <2>2 DEF InOrder
<1>5. Recorded
  <2>1. \A qk \in QueueKey : DOMAIN NewCore.history[qk] = {}
    BY DEF NewCore, NewQueues
  <2>2. QED BY <1>2, <2>1 DEF Recorded
<1>6. Counted /\ Full
  BY <1>2, <1>3 DEF Counted, Full
<1>7. QED BY <1>2, <1>4, <1>5, <1>6 DEF Ordered

-----------------------------------------------------------------------------
(* The steps of the abstract specification. *)

\* The abstract state of the workflows other than w does not change, on any node.
SameElsewhere(w) ==
    \A v \in Workflow \ {w} : /\ Decided(v)' = Decided(v)
                              /\ Outcome(v)' = Outcome(v)

\* No execution passes a checkpoint.
SameSeen == \A n \in Node, w \in Workflow : exec'[n][w].got = exec[n][w].got

\* A step that decides nothing, shows nothing and ends nothing stutters.
LEMMA Stutters ==
    ASSUME SameSeen,
           \A w \in Workflow : Decided(w)' = Decided(w) /\ Outcome(w)' = Outcome(w)
    PROVE  UNCHANGED Durable!vars
<1>1. [w \in Workflow |-> Decided(w)'] = [w \in Workflow |-> Decided(w)]
  OBVIOUS
<1>2. [w \in Workflow |-> Outcome(w)'] = [w \in Workflow |-> Outcome(w)]
  OBVIOUS
<1>3. [n \in Node |-> [w \in Workflow |-> exec'[n][w].got]]
         = [n \in Node |-> [w \in Workflow |-> exec[n][w].got]]
  BY DEF SameSeen
<1>4. QED BY <1>1, <1>2, <1>3 DEF Durable!vars

\* A checkpoint of w is decided.
LEMMA Decides ==
    ASSUME NEW w \in Workflow, NEW v \in Computable, SameSeen, SameElsewhere(w),
           Outcome(w) = None, Outcome(w)' = None,
           Len(Decided(w)) < Len(Program[w]), Decided(w)' = Append(Decided(w), v)
    PROVE  Durable!Decide(w)
<1> DEFINE ds == [u \in Workflow |-> Decided(u)]
<1>1. [u \in Workflow |-> Decided(u)'] = [ds EXCEPT ![w] = Append(@, v)]
  BY DEF SameElsewhere
<1>2. [u \in Workflow |-> Outcome(u)'] = [u \in Workflow |-> Outcome(u)]
  BY DEF SameElsewhere
<1>3. [n \in Node |-> [u \in Workflow |-> exec'[n][u].got]]
         = [n \in Node |-> [u \in Workflow |-> exec[n][u].got]]
  BY DEF SameSeen
<1>4. QED BY <1>1, <1>2, <1>3 DEF Durable!Decide

\* The workflow w ends.
LEMMA Finishes ==
    ASSUME NEW w \in Workflow, NEW n \in Node, SameSeen, SameElsewhere(w),
           Outcome(w) = None, Outcome(w)' = Decided(w), Decided(w)' = Decided(w),
           Len(Decided(w)) = Len(Program[w]), exec[n][w].got = Decided(w)
    PROVE  Durable!Finish(w)
<1> DEFINE os == [u \in Workflow |-> Outcome(u)]
<1>1. [u \in Workflow |-> Outcome(u)'] = [os EXCEPT ![w] = Decided(w)]
  BY DEF SameElsewhere
<1>2. [u \in Workflow |-> Decided(u)'] = [u \in Workflow |-> Decided(u)]
  BY DEF SameElsewhere
<1>3. [m \in Node |-> [u \in Workflow |-> exec'[m][u].got]]
         = [m \in Node |-> [u \in Workflow |-> exec[m][u].got]]
  BY DEF SameSeen
<1>4. QED BY <1>1, <1>2, <1>3 DEF Durable!Finish

\* The execution of w on n passes a checkpoint.
LEMMA Sees ==
    ASSUME NEW n \in Node, NEW w \in Workflow,
           Len(exec[n][w].got) < Len(Decided(w)),
           exec'[n][w].got = Append(exec[n][w].got, Decided(w)[Len(exec[n][w].got) + 1]),
           \A m \in Node, u \in Workflow :
               ~(m = n /\ u = w) => exec'[m][u].got = exec[m][u].got,
           \A u \in Workflow : Decided(u)' = Decided(u) /\ Outcome(u)' = Outcome(u)
    PROVE  Durable!See(n, w)
<1> DEFINE before == [m \in Node |-> [u \in Workflow |-> exec[m][u].got]]
           after == [m \in Node |-> [u \in Workflow |-> exec'[m][u].got]]
           next == Append(exec[n][w].got, Decided(w)[Len(exec[n][w].got) + 1])
<1>1. ASSUME NEW m \in Node, m # n PROVE after[m] = before[m]
  BY <1>1
<1>2. after[n] = [before[n] EXCEPT ![w] = next]
  <2>1. after[n] = [u \in Workflow |-> IF u = w THEN next ELSE exec[n][u].got]
    OBVIOUS
  <2>2. before[n] = [u \in Workflow |-> exec[n][u].got]
    OBVIOUS
  <2>3. QED BY <2>1, <2>2
<1>3. after = [before EXCEPT ![n] = [before[n] EXCEPT ![w] = next]]
  BY <1>1, <1>2
<1>4. [u \in Workflow |-> Decided(u)'] = [u \in Workflow |-> Decided(u)]
  OBVIOUS
<1>5. [u \in Workflow |-> Outcome(u)'] = [u \in Workflow |-> Outcome(u)]
  OBVIOUS
<1>6. before[n][w] = exec[n][w].got
  OBVIOUS
<1>7. after = [before EXCEPT ![n][w] = Append(@, Decided(w)[Len(@) + 1])]
  BY <1>3, <1>6
<1>8. QED BY <1>4, <1>5, <1>6, <1>7 DEF Durable!See

-----------------------------------------------------------------------------
(* Commits as steps of the abstract specification. *)

\* The start of a workflow is not committed behind its end.
LEMMA NoStartAfterEnd ==
    ASSUME OwnedInv, Once, NEW w \in Workflow, NEW e \in pending, NEW k \in DOMAIN log,
           e.cmd.type = "WorkflowStart", e.cmd.wf = w, IsEnd(w, log[k].cmd)
    PROVE  FALSE
<1>1. PICK n \in Node : n = client[w].node
  BY TypeInvFacts DEF OwnedInv, Owned, Commands, SoundCommand, HasStarted
<1>2. StepOf(log[k].cmd) = Len(Program[w]) + 1 /\ log[k].cmd.wf = w
      /\ Len(Program[w]) \in Nat /\ Named(log[k])
  BY ProgramType DEF IsEnd, StepOf, Once, Names
<1>3. exec[n][w].pc # "none"
  BY <1>1, <1>2 DEF Named, Past
<1>4. PICK j \in DOMAIN events[n] : StartOf(w, events[n][j])
  BY <1>3 DEF Once, Observed
<1>5. PICK i \in DOMAIN log : events[n][j] = log[i].cmd
  BY DEF Once, Published
<1>6. log[i].cmd.type = "WorkflowStart" /\ log[i].cmd.wf = w
  BY <1>4, <1>5 DEF StartOf, IsStart
<1>7. Named(log[i]) /\ Named(e)
  BY DEF Once, Names
<1>8. e.sync = log[i].sync
  BY <1>6, <1>7 DEF Named, StepOf
<1>9. QED BY <1>8 DEF Once, Distinct

\* Only the commit of its end gives a workflow an outcome, or takes it.
LEMMA OutcomeStays ==
    ASSUME OwnedInv, Once, NEW e \in pending, Commit(e), NEW w \in Workflow, ~IsEnd(w, e.cmd)
    PROVE  Outcome(w)' = Outcome(w)
<1>0. TypeInv
  BY DEF OwnedInv
<1>1. PICK s \in Core, c \in Command : s = Latest /\ c = e.cmd
  BY <1>0, CommitRef
<1>2. Latest' = ApplyCore(s, c) /\ ~IsEnd(w, c)
  BY <1>0, <1>1, CommitRef DEF Latest
<1>3. /\ ApplyCore(s, c).workflows[w] = "Completed" => s.workflows[w] = "Completed"
      /\ ApplyCore(s, c).results[w] = s.results[w]
  BY <1>2, OnlyEndCompletes
<1>4. s.workflows[w] = "Completed" => ApplyCore(s, c).workflows[w] = "Completed"
  <2> SUFFICES ASSUME s.workflows[w] = "Completed"
               PROVE  ApplyCore(s, c).workflows[w] = "Completed"
    OBVIOUS
  <2>0. s.workflows \in [Workflow -> {None, "Running", "Completed"}] /\ c.wf \in Workflow
    BY CommandCases DEF Core
  <2>1. PICK k \in DOMAIN log : IsEnd(w, log[k].cmd)
    BY <1>0, <1>1, CommitRef DEF Once, Ended, Latest
  <2>2. CASE c.type = "WorkflowStart"
    <3>1. c.wf # w
      BY <1>1, <2>1, <2>2, NoStartAfterEnd
    <3>2. ApplyCore(s, c).workflows = [s.workflows EXCEPT ![c.wf] = "Running"]
      BY <2>2 DEF ApplyCore, ApplyStart, Core
    <3>3. QED BY <2>0, <3>1, <3>2
  <2>3. CASE c.type = "WorkflowEnd"
    <3>1. ApplyCore(s, c).workflows = [s.workflows EXCEPT ![c.wf] = "Completed"]
      BY <2>3 DEF ApplyCore, ApplyEnd, Core
    <3>2. QED BY <2>0, <3>1
  <2>4. CASE c.type = "SetCheckpoint"
    <3>1. ApplyCore(s, c).workflows = s.workflows
      BY <2>4 DEF ApplyCore, ApplySet, Core
    <3>2. QED BY <3>1
  <2>5. CASE c.type = "OwnerChange"
    <3>1. ApplyCore(s, c).workflows = s.workflows
      BY <2>5 DEF ApplyCore, ApplyOwner, Core
    <3>2. QED BY <3>1
  <2>6. QED BY <2>2, <2>3, <2>4, <2>5, CommandCases
<1>5. QED BY <1>1, <1>2, <1>3, <1>4 DEF Outcome

\* A workflow with an entry of a call on the way has no outcome yet.
LEMMA NoOutcomeYet ==
    ASSUME RefInv, NEW e \in pending, NEW w \in Workflow, e.cmd.wf = w,
           e.cmd.type \in {"SetCheckpoint", "WorkflowEnd"}
    PROVE  Outcome(w) = None
<1>1. SUFFICES ASSUME Latest.workflows[w] = "Completed" PROVE FALSE
  BY DEF Outcome
<1>2. Len(ref) \in DOMAIN ref
  <2>1. ref \in Seq(Core) /\ ref # <<>>
    BY DEF RefInv, OwnedInv, TypeInv, TypeOK
  <2>2. QED BY <2>1
<1>3. PICK k \in DOMAIN log : IsEnd(w, log[k].cmd)
  BY <1>1, <1>2 DEF RefInv, Once, Ended, Latest
<1>4. CASE e.cmd.type = "SetCheckpoint"
  BY <1>3, <1>4, NoSetAfterEnd DEF RefInv
<1>5. CASE e.cmd.type = "WorkflowEnd"
  <2>1. IsEnd(w, e.cmd)
    BY <1>5 DEF IsEnd
  <2>2. QED BY <1>3, <2>1, OneEnd DEF RefInv
<1>6. QED BY <1>4, <1>5

\* Sequences of the same length and values are the same.
LEMMA SameValues ==
    ASSUME NEW s \in Seq(Value), NEW t \in Seq(Value), Len(s) = Len(t),
           \A j \in DOMAIN s : s[j] = t[j]
    PROVE  s = t
  OBVIOUS

\* The commit of a checkpoint decides its value.
LEMMA SetRefines ==
    ASSUME RefInv, NEW e \in pending, Commit(e), e.cmd.type = "SetCheckpoint"
    PROVE  Durable!Decide(e.cmd.wf)
<1>0. OwnedInv /\ TypeInv /\ Once
  BY DEF RefInv, OwnedInv
<1>1. PICK w \in Workflow, v \in Value : w = e.cmd.wf /\ v = e.cmd.value
  BY CommitsNext
<1>2. PICK s : /\ s = v.step /\ s \in DOMAIN Program[w] /\ v = OwnValue(w, s)
               /\ HasStarted(w) /\ Len(Decided(w)) = s - 1
  BY <1>1, CommitsNext
<1>3. s \in Nat /\ Len(Program[w]) \in Nat /\ s <= Len(Program[w])
  <2>1. PICK p \in Seq(Key) : p = Program[w]
    BY RuntimeAssumption
  <2>2. s \in 1..Len(p) /\ Len(p) \in Nat
    BY <1>2, <2>1
  <2>3. QED BY <2>1, <2>2
<1>4. v \in Computable
  <2>1. client[w].node \in Node
    BY <1>0, <1>2, TypeInvFacts DEF HasStarted
  <2>2. 0 \in 0..MaxCrashes
    BY RuntimeAssumption
  <2>3. v \in [by : Node, inc : 0..MaxCrashes, wf : {w}, step : DOMAIN Program[w]]
    BY <1>2, <2>1, <2>2 DEF OwnValue
  <2>4. QED BY <2>3 DEF Computable
<1>5. /\ \A u : Decided(u)' = AddValue(Decided(u), u, e)
      /\ exec' = exec
  BY <1>0, CommitDecides
<1>6. Decided(w)' = Append(Decided(w), v)
  BY <1>1, <1>5 DEF AddValue
<1>7. \A u \in Workflow : Outcome(u)' = Outcome(u)
  BY <1>0, OutcomeStays DEF IsEnd
<1>8. \A u \in Workflow \ {w} : Decided(u)' = Decided(u)
  BY <1>1, <1>5 DEF AddValue
<1>9. SameElsewhere(w) /\ SameSeen
  BY <1>5, <1>7, <1>8 DEF SameElsewhere, SameSeen
<1>10. Outcome(w) = None /\ Outcome(w)' = None
  BY <1>1, <1>7, NoOutcomeYet
<1>11. Len(Decided(w)) < Len(Program[w])
  <2>1. PICK l \in Nat : l = Len(Program[w])
    BY <1>3
  <2>2. s \in Nat /\ s <= l
    BY <1>3, <2>1
  <2>3. s - 1 < l
    BY <2>2
  <2>4. QED BY <1>2, <2>1, <2>3
<1>12. QED BY <1>1, <1>4, <1>6, <1>9, <1>10, <1>11, Decides

\* The commit of the end of a workflow gives it its outcome.
LEMMA EndRefines ==
    ASSUME RefInv, NEW e \in pending, Commit(e), e.cmd.type = "WorkflowEnd"
    PROVE  Durable!Finish(e.cmd.wf)
<1>0. OwnedInv /\ TypeInv /\ Once /\ e \in Entry /\ e.cmd \in Command /\ SoundCommand(e.cmd)
  BY TypeInvFacts DEF RefInv, OwnedInv, Owned, Commands, Entry
<1>1. PICK w \in Workflow, r \in Result : w = e.cmd.wf /\ r = e.cmd.result
  BY <1>0, CommandCases DEF EndCommand
<1>2. PICK n \in Node : n = client[w].node /\ HasStarted(w)
  BY <1>0, <1>1, TypeInvFacts DEF SoundCommand, HasStarted
<1>3. PICK x \in Exec, l \in Nat : x = exec[n][w] /\ l = Len(Program[w])
  BY <1>0, TypeInvFacts, ProgramType
<1>4. x.pc = "await" /\ x.step = l + 1
  <2>1. StepOf(e.cmd) = l + 1 /\ l + 1 > 0
    BY <1>1, <1>3 DEF StepOf
  <2>2. QED BY <1>1, <1>2, <1>3, <2>1 DEF RefInv, Waiting
<1>5. PICK d \in Seq(Value) : d = Decided(w) /\ \A i \in DOMAIN d : d[i] = OwnValue(w, i)
  BY DEF RefInv, Ordered, InOrder
<1>6. Len(d) = l
  <2>1. DecidedAt(w, x, Len(d))
    BY <1>2, <1>3, <1>5 DEF RefInv, Ordered, InOrder
  <2>2. ~IsCheckpoint(w, x.step)
    BY <1>3, <1>4 DEF IsCheckpoint
  <2>3. Len(d) = (l + 1) - 1
    BY <1>4, <2>1, <2>2 DEF DecidedAt
  <2>4. QED BY <2>3
<1>7. x.got = d
  <2>1. PICK g \in Seq(Value) : g = x.got
    BY DEF Exec
  <2>2. Len(g) = l
    <3>1. Len(g) = (l + 1) - 1
      BY <1>3, <1>4, <2>1 DEF RefInv, Ordered, Full
    <3>2. QED BY <3>1
  <2>3. \A i \in DOMAIN g : g[i] = OwnValue(w, i)
    BY <1>3, <2>1 DEF RefInv, Seen, SoundGot
  <2>4. \A i \in DOMAIN g : g[i] = d[i]
    BY <1>5, <1>6, <2>2, <2>3
  <2>5. QED BY <1>6, <2>1, <2>2, <2>4, SameValues
<1>8. r.got = d
  <2>1. PICK g \in Seq(Value) : g = r.got
    BY DEF Result
  <2>2. Len(g) = l /\ \A i \in DOMAIN g : g[i] = OwnValue(w, i)
    BY <1>1, <1>3, <2>1 DEF RefInv, Ordered, NextUp
  <2>3. \A i \in DOMAIN g : g[i] = d[i]
    BY <1>5, <1>6, <2>2
  <2>4. QED BY <1>6, <2>1, <2>2, <2>3, SameValues
<1>9. Outcome(w)' = d
  <2>1. PICK s \in Core : s = Latest /\ Latest' = ApplyCore(s, e.cmd)
    BY <1>0, CommitRef DEF Latest
  <2>2. /\ ApplyCore(s, e.cmd).workflows = [s.workflows EXCEPT ![w] = "Completed"]
        /\ ApplyCore(s, e.cmd).results = [s.results EXCEPT ![w] = r]
    BY <1>1 DEF ApplyCore, ApplyEnd, Core
  <2>3. Latest'.workflows[w] = "Completed" /\ Latest'.results[w] = r
    BY <2>1, <2>2 DEF Core
  <2>4. QED BY <1>8, <2>3 DEF Outcome
<1>10. /\ \A u \in Workflow : Decided(u)' = Decided(u)
       /\ exec' = exec
  BY <1>0, CommitDecides DEF AddValue
<1>11. \A u \in Workflow \ {w} : Outcome(u)' = Outcome(u)
  BY <1>0, <1>1, OutcomeStays DEF IsEnd
<1>12. SameElsewhere(w) /\ SameSeen
  BY <1>10, <1>11 DEF SameElsewhere, SameSeen
<1>13. Outcome(w) = None
  BY <1>1, NoOutcomeYet
<1>14. Decided(w)' = Decided(w) /\ Outcome(w)' = Decided(w) /\ exec[n][w].got = Decided(w)
       /\ Len(Decided(w)) = Len(Program[w])
  BY <1>3, <1>5, <1>6, <1>7, <1>9, <1>10
<1>15. QED BY <1>1, <1>12, <1>13, <1>14, Finishes

\* The commit of a start changes nothing that the abstract specification shows.
LEMMA StartRefines ==
    ASSUME RefInv, NEW e \in pending, Commit(e), e.cmd.type = "WorkflowStart"
    PROVE  UNCHANGED Durable!vars
<1>0. OwnedInv /\ TypeInv /\ Once
  BY DEF RefInv, OwnedInv
<1>1. /\ \A w \in Workflow : Decided(w)' = Decided(w)
      /\ exec' = exec
  BY <1>0, CommitDecides DEF AddValue
<1>2. \A w \in Workflow : Outcome(w)' = Outcome(w)
  BY <1>0, OutcomeStays DEF IsEnd
<1>3. SameSeen
  BY <1>1 DEF SameSeen
<1>4. QED BY <1>1, <1>2, <1>3, Stutters

\* A step that commits nothing shows an execution one value, or nothing.
LEMMA OtherStepRefines ==
    ASSUME Unambiguous, KeysUsedOnce, RefInv, [Next]_vars, log' = log, ref' = ref
    PROVE  \/ \E n \in Node, w \in Workflow : Durable!See(n, w)
           \/ UNCHANGED Durable!vars
<1>0. TypeInv /\ Undisturbed /\ exec \in [Node -> [Workflow -> Exec]]
  BY TypeInvFacts DEF RefInv, OwnedInv, Owned
<1>1. \A w \in Workflow : Decided(w)' = Decided(w) /\ Outcome(w)' = Outcome(w)
  BY NothingDecided DEF Outcome, Latest
<1>2. CASE exec' = exec
  <2>1. SameSeen
    BY <1>2 DEF SameSeen
  <2>2. QED BY <1>1, <2>1, Stutters
<1>3. ASSUME NEW n \in Node, NEW w \in Workflow, NEW y \in Exec, SetExec(n, w, y),
             Changes(n, w, exec[n][w], y)
      PROVE  Durable!See(n, w) \/ UNCHANGED Durable!vars
  <2>1. /\ exec'[n][w] = y
        /\ \A m \in Node, u \in Workflow : ~(m = n /\ u = w) => exec'[m][u] = exec[m][u]
    BY <1>0, <1>3 DEF SetExec
  <2>2. CASE y.got = exec[n][w].got
    <3>1. SameSeen
      BY <2>1, <2>2 DEF SameSeen
    <3>2. QED BY <1>1, <3>1, Stutters
  <2>3. CASE /\ Len(exec[n][w].got) < Len(Decided(w))
             /\ y.got = Append(exec[n][w].got, Decided(w)[Len(exec[n][w].got) + 1])
    <3>1. /\ exec'[n][w].got = Append(exec[n][w].got, Decided(w)[Len(exec[n][w].got) + 1])
          /\ \A m \in Node, u \in Workflow :
                ~(m = n /\ u = w) => exec'[m][u].got = exec[m][u].got
      BY <2>1, <2>3
    <3>2. QED BY <1>1, <2>3, <3>1, Sees
  <2>4. QED BY <1>3, <2>2, <2>3, ChangesValues
<1>4. QED BY <1>0, <1>2, <1>3, ExecChanges

\* Every step is a step of the abstract specification or leaves it alone.
LEMMA NextRefines ==
    ASSUME Unambiguous, KeysUsedOnce, RefInv, [Next]_vars
    PROVE  [Durable!Next]_(Durable!vars)
<1>1. ASSUME NEW e \in pending, Commit(e) PROVE [Durable!Next]_(Durable!vars)
  <2>1. e.cmd \in Command /\ SoundCommand(e.cmd)
    BY TypeInvFacts DEF RefInv, OwnedInv, Owned, Commands, Entry
  <2>2. e.cmd.wf \in Workflow
    BY <2>1, CommandCases
  <2>3. CASE e.cmd.type = "SetCheckpoint"
    BY <1>1, <2>2, <2>3, SetRefines DEF Durable!Next
  <2>4. CASE e.cmd.type = "WorkflowEnd"
    BY <1>1, <2>2, <2>4, EndRefines DEF Durable!Next
  <2>5. CASE e.cmd.type = "WorkflowStart"
    BY <1>1, <2>5, StartRefines
  <2>6. e.cmd.type # "OwnerChange"
    BY <2>1 DEF SoundCommand
  <2>7. QED BY <2>1, <2>3, <2>4, <2>5, <2>6, CommandCases
<1>2. CASE log' = log /\ ref' = ref
  BY <1>2, OtherStepRefines DEF Durable!Next
<1>3. QED BY <1>1, <1>2, LogChanges

\* The initial states of the cluster are initial states of the abstract
\* specification.
LEMMA InitRefines == Init => Durable!Init
<1> SUFFICES ASSUME Init PROVE Durable!Init
  OBVIOUS
<1>1. \A w \in Workflow : Decided(w) = <<>>
  BY NoValues DEF Init, Decided
<1>2. \A n \in Node, w \in Workflow : exec[n][w].got = <<>>
  BY DEF Init, NoExec
<1>3. \A w \in Workflow : Outcome(w) = None
  BY IdAssumption DEF Init, Outcome, Latest, NewCore
<1>4. QED BY <1>1, <1>2, <1>3 DEF Durable!Init

\* The cluster implements durable execution: the log, the owners, the queues and
\* the events together decide the value of each checkpoint once, show every
\* execution the decided values in the order of its calls, and end a workflow
\* once, with an outcome that rests on all of them. The commit of SetCheckpoint
\* decides, the return of set_replicated_var sees, the commit of WorkflowEnd
\* finishes, and every other step stutters. No node crashes, no owner is changed
\* and no proposal fails; no two checkpoints share the string "id:key", and a
\* workflow uses each of its keys once.
THEOREM ClusterIsDurable ==
    ASSUME Calm, NoErrors, Unambiguous, KeysUsedOnce
    PROVE  Spec => ImplementsDurableExecution
<1>1. Init => RefInv
  <2>1. Init => Waiting
    BY DEF Init, Waiting, NoErrors
  <2>2. Init => Seen
    BY DEF Init, Seen, SoundGot, NoExec
  <2>3. QED BY <2>1, <2>2, InitType, InitFollows, InitLeft, InitOwned, InitOnce, InitOrdered
            DEF OwnedInv, RefInv
<1>2. RefInv /\ [Next]_vars => RefInv'
  <2> SUFFICES ASSUME RefInv, [Next]_vars PROVE RefInv'
    OBVIOUS
  <2>1. OwnedInv' /\ ClientsStay
    BY NextOwned DEF RefInv
  <2>2. QueueIsSuffixOfHistory'
    BY NextLeft DEF RefInv, OwnedInv
  <2>3. Seen'
    BY NextSeen, <2>1 DEF RefInv
  <2>4. Once' /\ Waiting'
    BY NextOnce, NextWaiting DEF RefInv
  <2>5. QED BY <2>1, <2>2, <2>3, <2>4, NextOrdered DEF RefInv
<1>3. RefInv /\ [Next]_vars => [Durable!Next]_(Durable!vars)
  BY NextRefines
<1>4. QED BY <1>1, <1>2, <1>3, InitRefines, PTL
          DEF Spec, ImplementsDurableExecution, Durable!Spec
=============================================================================
