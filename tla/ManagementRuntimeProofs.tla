----------------------- MODULE ManagementRuntimeProofs -----------------------
(* Proofs about ManagementRuntime: agreement, ids, groups, runtimes, placement. *)
EXTENDS ManagementRuntime, ManagementStateMachineProofs

-----------------------------------------------------------------------------
(* Types *)

Instruction ==
    [op : {"propose"}, cmd : Command]
      \cup [op : {"call"}, cmd : Command, after : {"id", "nothing", "splits", "consolidation"}]
      \cup [op : {"conf"}, change : {"AddNode", "RemoveNode"}, node : Node]
      \cup [op : {"decide"}, how : {"placement", "rebalancing", "failed"}, node : Node]

Task ==
    [kind : Requests \cup {"add_node", "handle_failed_node"}, node : Node,
     code : Seq(Instruction), wait : Nat, res : {None, "Ok", "Err"}, sub : Nat, ret : Nat]

Event ==
    [type : {"Created"}, cluster : Nat, nodes : Seq(Node)]
      \cup [type : {"Failed"}, node : Node]
      \cup DeleteCommand \cup MemberCommand \cup MetadataCommand

Bounds == [lost : Nat, snapshot : Nat, failure : Nat, leader : Nat, start : Nat]

Groups == [cluster : Nat, founder : Node, since : Nat]

\* The tasks, of which each waits for a command that was committed.
TasksOK(ts, committed) ==
    /\ ts \in Seq(Task)
    /\ \A t \in DOMAIN ts : /\ ts[t].wait <= committed
                            /\ ts[t].res # None => ts[t].wait > 0

Types ==
    /\ log \in Seq(Command)
    /\ voters \subseteq Node /\ leader \in voters
    /\ sm = [n \in Node |-> sm[n]] /\ \A n \in Node : WellFormed(sm[n])
    /\ applied \in [Node -> Nat] /\ \A n \in Node : applied[n] <= Len(log)
    /\ events \in [Node -> Seq(Event)]
    /\ obs \in [Node -> Nat] /\ \A n \in Node : obs[n] <= Len(events[n])
    /\ runtimes \in [Node -> SUBSET Nat] /\ loops \in [Node -> SUBSET Nat]
    /\ failed \in [Node -> SUBSET Nat]
    /\ members \in SUBSET (Groups \X Node)
    /\ missed \subseteq Node /\ restored \subseteq Node
    /\ TasksOK(tasks, Len(log))
    /\ env \in Bounds

\* Every event that bears on whether node n runs sub-cluster c.
Bears(e, c, n) ==
    \/ e.type = "Created" /\ e.cluster = c /\ n \in Range(e.nodes)
    \/ e.type \in {"Add", "Remove"} /\ e.cluster = c /\ e.node = n
    \/ e.type = "Delete" /\ e.cluster = c

\* The events the observer of n still has to handle that bear on c.
Pending(c, n) == {i \in obs[n] + 1 .. Len(events[n]) : Bears(events[n][i], c, n)}

\* The last of them, or else the map of runtimes, says what the state says, save
\* for a Raft node that could not be created.
Follows(c, n) ==
    /\ Pending(c, n) = {} =>
           /\ c \in runtimes[n] => Member(sm[n], c, n)
           /\ Member(sm[n], c, n) => c \in runtimes[n] \/ c \in failed[n]
    /\ \A i \in Pending(c, n) : (\A j \in Pending(c, n) : j <= i) =>
           (events[n][i].type \in {"Created", "Add"} <=> Member(sm[n], c, n))

RuntimesFollow == \A n \in Node \ (restored \cup missed) : \A c \in Nat : Follows(c, n)

\* On every node, later creations have higher ids.
IdsGrow ==
    \A n \in Node : \A j, k \in DOMAIN events[n] :
        events[n][j].type = "Created" /\ events[n][k].type = "Created" /\ j < k
            => events[n][j].cluster < events[n][k].cluster

-----------------------------------------------------------------------------
(* Tasks *)

\* The instructions of an operation are well typed.
LEMMA InstructionTypes ==
    /\ \A c \in Command : ProposeI(c) \in Instruction
    /\ \A c \in Command, a \in {"id", "nothing", "splits", "consolidation"} :
           CallI(c, a) \in Instruction
    /\ \A h \in {"AddNode", "RemoveNode"}, m \in Node : ConfI(h, m) \in Instruction
    /\ \A h \in {"placement", "rebalancing", "failed"}, m \in Node : DecideI(h, m) \in Instruction
BY DEF Instruction, ProposeI, CallI, ConfI, DecideI

\* An instruction has the fields of its kind.
LEMMA InstructionFields ==
    ASSUME NEW i \in Instruction
    PROVE  /\ i.op \in {"propose", "call", "conf", "decide"}
           /\ i.op \in {"propose", "call"} => i.cmd \in Command
           /\ i.op = "call" => i.after \in {"id", "nothing", "splits", "consolidation"}
           /\ i.op = "conf" => i.change \in {"AddNode", "RemoveNode"} /\ i.node \in Node
           /\ i.op = "decide" => i.how \in {"placement", "rebalancing", "failed"} /\ i.node \in Node
BY DEF Instruction

\* The commands of the operations are well typed.
LEMMA CommandTypes ==
    /\ \A ids \in Seq(Node) : CreateSubCluster(ids) \in Command
    /\ \A c \in Nat : DeleteSubCluster(c) \in Command
    /\ \A c \in Nat, n \in Node : AddNode(c, n) \in Command /\ RemoveNode(c, n) \in Command
    /\ \A c \in Nat, v \in DrainValue : SetMetadata(c, v) \in Command
    /\ \A n \in Node : RegisterNodeAddress(n) \in Command
BY DEF Command, CreateCommand, DeleteCommand, MemberCommand, MetadataCommand, RegisterCommand,
       CreateSubCluster, DeleteSubCluster, AddNode, RemoveNode, SetMetadata, RegisterNodeAddress

\* The code of add_node and remove_node.
LEMMA NodeCodeTypes ==
    ASSUME NEW m \in Node
    PROVE  AddNodeCode(m) \in Seq(Instruction) /\ RemoveNodeCode(m) \in Seq(Instruction)
<1>1. ProposeI(RegisterNodeAddress(m)) \in Instruction
  BY InstructionTypes, CommandTypes
<1>2. ConfI("AddNode", m) \in Instruction /\ ConfI("RemoveNode", m) \in Instruction
      /\ DecideI("placement", m) \in Instruction /\ DecideI("rebalancing", m) \in Instruction
  BY InstructionTypes
<1>3. QED BY <1>1, <1>2 DEF AddNodeCode, RemoveNodeCode

\* A new task waits for nothing.
LEMMA NewTaskType ==
    ASSUME NEW k \in Requests \cup {"add_node", "handle_failed_node"}, NEW n \in Node,
           NEW code \in Seq(Instruction)
    PROVE  /\ NewTask(k, n, code) \in Task
           /\ NewTask(k, n, code).wait = 0 /\ NewTask(k, n, code).res = None
BY DEF NewTask, Task

\* A task that goes on is well typed.
LEMMA TaskContinued ==
    ASSUME NEW x \in Task, NEW code \in Seq(Instruction)
    PROVE  LET y == [x EXCEPT !.code = code, !.wait = 0, !.res = None, !.sub = 0]
           IN  y \in Task /\ y.wait = 0 /\ y.res = None
BY DEF Task

\* A task that returns an id is well typed.
LEMMA TaskReturned ==
    ASSUME NEW x \in Task, NEW code \in Seq(Instruction), NEW id \in Nat
    PROVE  LET y == [x EXCEPT !.code = code, !.res = None, !.ret = id]
           IN  y \in Task /\ y.wait = x.wait /\ y.res = None
BY DEF Task

\* A task that loses a proposal is well typed.
LEMMA TaskDropped ==
    ASSUME NEW x \in Task, NEW code \in Seq(Instruction)
    PROVE  LET y == [x EXCEPT !.code = code]
           IN  y \in Task /\ y.wait = x.wait /\ y.res = x.res
BY DEF Task

\* One task changes.
LEMMA OneTaskChanged ==
    ASSUME NEW ts, NEW len \in Nat, NEW new \in Nat, len <= new, TasksOK(ts, len),
           NEW t \in DOMAIN ts, NEW x \in Task, x.wait <= new, x.res # None => x.wait > 0
    PROVE  TasksOK([ts EXCEPT ![t] = x], new)
<1>1. ts \in Seq(Task) /\ [ts EXCEPT ![t] = x] \in Seq(Task)
      /\ DOMAIN [ts EXCEPT ![t] = x] = DOMAIN ts
  BY DEF TasksOK
<1>2. ASSUME NEW u \in DOMAIN ts
      PROVE  /\ [ts EXCEPT ![t] = x][u].wait <= new
             /\ [ts EXCEPT ![t] = x][u].res # None => [ts EXCEPT ![t] = x][u].wait > 0
  <2>1. CASE u = t
    <3>1. [ts EXCEPT ![t] = x][u] = x
      BY <1>1, <2>1
    <3>2. QED BY <3>1
  <2>2. CASE u # t
    <3>1. [ts EXCEPT ![t] = x][u] = ts[u]
      BY <1>1, <2>2
    <3>2. ts[u] \in Task
      BY <1>1
    <3>3. ts[u].wait \in Nat
      BY <3>2 DEF Task
    <3>4. QED BY <3>1, <3>3 DEF TasksOK
  <2>3. QED BY <2>1, <2>2
<1>3. QED BY <1>1, <1>2 DEF TasksOK

\* A task is added.
LEMMA OneTaskMore ==
    ASSUME NEW ts, NEW len \in Nat, TasksOK(ts, len),
           NEW x \in Task, x.wait = 0, x.res = None
    PROVE  TasksOK(Append(ts, x), len)
<1>1. ts \in Seq(Task) /\ Append(ts, x) \in Seq(Task) /\ Len(ts) \in Nat
      /\ DOMAIN Append(ts, x) = 1 .. Len(ts) + 1
      /\ \A u \in 1 .. Len(ts) : Append(ts, x)[u] = ts[u] /\ u \in DOMAIN ts
      /\ Append(ts, x)[Len(ts) + 1] = x
  BY DEF TasksOK
<1>2. ASSUME NEW u \in 1 .. Len(ts) + 1
      PROVE  Append(ts, x)[u].wait <= len /\ (Append(ts, x)[u].res # None => Append(ts, x)[u].wait > 0)
  <2>1. CASE u \in 1 .. Len(ts)
    BY <1>1, <2>1 DEF TasksOK
  <2>2. CASE u = Len(ts) + 1
    BY <1>1, <2>2
  <2>3. QED BY <1>1, <2>1, <2>2
<1>3. QED BY <1>1, <1>2 DEF TasksOK

\* What the ClusterManager decides, and the code of handle_failed_node.
LEMMA DecisionsType ==
    ASSUME NEW s, WellFormed(s), NEW m \in Node,
           NEW how \in {"placement", "rebalancing", "splits", "consolidation", "failed", "nothing"},
           NEW d \in Decisions(s, how, m)
    PROVE  d \in Seq(Instruction)
<1>1. \A cmds \in Seq(Command) : Proposals(cmds) \in Seq(Instruction)
  <2> SUFFICES ASSUME NEW cmds \in Seq(Command) PROVE Proposals(cmds) \in Seq(Instruction)
    OBVIOUS
  <2>1. Len(cmds) \in Nat /\ DOMAIN cmds = 1 .. Len(cmds)
        /\ \A i \in 1 .. Len(cmds) : ProposeI(cmds[i]) \in Instruction
    BY InstructionTypes
  <2>2. QED BY <2>1 DEF Proposals
<1>2. TargetSize \in Nat /\ SplitSize \in Nat
  BY ManagementAssumption
<1>3. CASE how = "placement"
  <2>1. PICK e \in decide_node_placement(s, m) : d = Proposals(e)
    BY <1>3 DEF Decisions
  <2>2. QED BY <1>1, <2>1, PlacementType
<1>4. CASE how = "rebalancing"
  <2>1. PICK e \in decide_rebalancing(s) : d = Proposals(e)
    BY <1>4 DEF Decisions
  <2>2. QED BY <1>1, <1>2, <2>1, RebalancingType
<1>5. CASE how = "splits"
  <2>1. PICK e \in decide_splits(s) : d = Proposals(e)
    BY <1>5 DEF Decisions
  <2>2. QED BY <1>1, <1>2, <2>1, SplitsType
<1>6. CASE how = "consolidation"
  <2>1. PICK e \in decide_consolidation(s) : d = Proposals(e)
    BY <1>6 DEF Decisions
  <2>2. QED BY <1>1, <2>1, ConsolidationType
<1>7. CASE how = "failed"
  <2> DEFINE affected == {c \in DOMAIN s.clusters : m \in Range(s.clusters[c].nodes)}
  <2>1. PICK p \in SetToSeqs(affected) :
            d = [i \in DOMAIN p |-> CallI(RemoveNode(p[i], m), "consolidation")] \o RemoveNodeCode(m)
    BY <1>7 DEF Decisions, FailedNodeCodes
  <2>2. affected \in SUBSET DOMAIN s.clusters /\ DOMAIN s.clusters \subseteq Nat
    BY DEF WellFormed
  <2>3. Len(p) \in Nat /\ DOMAIN p = 1 .. Len(p) /\ \A i \in DOMAIN p : p[i] \in Nat
    BY <2>2, OrderType
  <2>4. \A i \in 1 .. Len(p) : CallI(RemoveNode(p[i], m), "consolidation") \in Instruction
    BY <2>3, InstructionTypes, CommandTypes
  <2>5. [i \in DOMAIN p |-> CallI(RemoveNode(p[i], m), "consolidation")] \in Seq(Instruction)
    BY <2>3, <2>4
  <2>6. QED BY <2>1, <2>5, NodeCodeTypes, ConcatProperties
<1>8. CASE how = "nothing"
  BY <1>8 DEF Decisions
<1>9. QED BY <1>3, <1>4, <1>5, <1>6, <1>7, <1>8

\* A task that is not at its end.
LEMMA TaskAt ==
    ASSUME Types, NEW t \in DOMAIN tasks, NEW op, At(t, op)
    PROVE  /\ tasks[t] \in Task
           /\ tasks[t].code \in Seq(Instruction) /\ tasks[t].code # <<>>
           /\ Head(tasks[t].code) \in Instruction /\ Head(tasks[t].code).op = op
           /\ Tail(tasks[t].code) \in Seq(Instruction)
           /\ tasks[t].node \in Node /\ tasks[t].wait \in Nat /\ tasks[t].sub \in Nat
           /\ Len(log) \in Nat
<1>1. tasks \in Seq(Task) /\ log \in Seq(Command)
  BY DEF Types, TasksOK
<1>2. tasks[t] \in Task
  BY <1>1
<1>3. tasks[t].code \in Seq(Instruction) /\ tasks[t].code # <<>>
      /\ tasks[t].node \in Node /\ tasks[t].wait \in Nat /\ tasks[t].sub \in Nat
  BY <1>2 DEF Task, At
<1>4. QED BY <1>1, <1>2, <1>3 DEF At

\* A task that goes on waits for nothing.
LEMMA ContinueType ==
    ASSUME Types, NEW t \in DOMAIN tasks, NEW op, At(t, op),
           NEW front \in Seq(Instruction), Continue(t, front),
           NEW new \in Nat, Len(log) <= new
    PROVE  TasksOK(tasks', new)
<1> DEFINE code == front \o Tail(tasks[t].code)
           x == [tasks[t] EXCEPT !.code = code, !.wait = 0, !.res = None, !.sub = 0]
<1>0. tasks[t] \in Task /\ Tail(tasks[t].code) \in Seq(Instruction) /\ Len(log) \in Nat
  BY TaskAt
<1>1. code \in Seq(Instruction)
  BY <1>0, ConcatProperties
<1>2. tasks' = [tasks EXCEPT ![t] = x]
  BY DEF Continue
<1> HIDE DEF code
<1>3. x \in Task /\ x.wait = 0 /\ x.res = None
  BY <1>0, <1>1, TaskContinued
<1> HIDE DEF x
<1>4. TasksOK(tasks, Len(log))
  BY DEF Types
<1>5. x.wait <= new
  BY <1>3
<1>6. TasksOK([tasks EXCEPT ![t] = x], new)
  BY <1>0, <1>3, <1>4, <1>5, OneTaskChanged, Zenon
<1>7. QED BY <1>2, <1>6

\* A proposal that is lost.
LEMMA DropType ==
    ASSUME Types, NEW t \in DOMAIN tasks, NEW op, At(t, op),
           NEW rest \in Seq(Instruction), Drop(t, rest)
    PROVE  Types'
<1> DEFINE x == [tasks[t] EXCEPT !.code = rest]
<1>0. tasks[t] \in Task /\ Len(log) \in Nat
  BY TaskAt
<1>1. tasks' = [tasks EXCEPT ![t] = x]
  BY DEF Drop
<1>2. x \in Task /\ x.wait = tasks[t].wait /\ x.res = tasks[t].res
  BY <1>0, TaskDropped
<1> HIDE DEF x
<1>3. TasksOK(tasks, Len(log))
  BY DEF Types
<1>4. x.wait <= Len(log) /\ (x.res # None => x.wait > 0)
  BY <1>2, <1>3 DEF TasksOK
<1>5. TasksOK(tasks', Len(log))
  <2>1. Len(log) <= Len(log)
    BY <1>0
  <2>2. TasksOK([tasks EXCEPT ![t] = x], Len(log))
    BY <1>0, <1>2, <1>3, <1>4, <2>1, OneTaskChanged, Zenon
  <2>3. QED BY <1>1, <2>2
<1>6. env' \in Bounds
  <2>1. env \in Bounds /\ env.lost > 0 /\ env' = [env EXCEPT !.lost = @ - 1]
    BY DEF Types, Drop
  <2>2. QED BY <2>1 DEF Bounds
<1>7. UNCHANGED <<log, voters, leader, sm, applied, events, restored, obs, missed, runtimes, loops, failed, members>>
  BY DEF Drop, raftVars, nodeVars, obsVars, subVars
<1>8. QED BY <1>5, <1>6, <1>7 DEF Types

\* A list of all nodes, as it is passed to create_sub_cluster.
LEMMA OrdersOfNodes ==
    ASSUME NEW ids \in SetToSeqs(Node)
    PROVE  ids \in Seq(Node)
<1>1. Cardinality(Node) \in Nat
  BY ManagementAssumption, FS_CardinalityType
<1>2. ids \in [1 .. Cardinality(Node) -> Node]
  BY DEF SetToSeqs
<1>3. QED BY <1>1, <1>2

\* What apply() publishes is well typed.
LEMMA EventsType ==
    ASSUME NEW s, WellFormed(s), NEW c \in Command
    PROVE  Events(s, c) \in Seq(Event) /\ Len(Events(s, c)) \in Nat
<1>1. CASE c.type = "Create"
  <2>1. Events(s, c) = <<[type |-> "Created", cluster |-> s.next, nodes |-> c.nodes]>>
    BY <1>1, ApplyWellFormed
  <2>2. [type |-> "Created", cluster |-> s.next, nodes |-> c.nodes] \in Event
    <3>1. c.nodes \in Seq(Node) /\ s.next \in Nat
      BY <1>1, CommandFields DEF CreateCommand, WellFormed
    <3>2. QED BY <3>1 DEF Event
  <2>3. QED BY <2>1, <2>2, SingletonSeq
<1>2. CASE c.type # "Create" /\ (c.type = "Register" \/ ~Succeeds(s, c))
  <2>1. Events(s, c) = <<>>
    BY <1>2, ApplyWellFormed
  <2>2. QED BY <2>1
<1>3. CASE c.type \notin {"Create", "Register"} /\ Succeeds(s, c)
  <2>1. Events(s, c) = <<c>>
    BY <1>3, ApplyWellFormed
  <2>2. c \in Event
    BY <1>3, CommandFields DEF Event
  <2>3. QED BY <2>1, <2>2, SingletonSeq
<1>4. QED BY <1>1, <1>2, <1>3

-----------------------------------------------------------------------------
(* Every step keeps the types. *)

\* What of the state is left alone by a step of a task, unless it proposes.
LocalStep ==
    UNCHANGED <<log, sm, applied, events, restored, obs, missed, runtimes, loops, failed, members>>

\* The founder's cluster is well typed.
LEMMA InitTypes == Init => Types
<1> SUFFICES ASSUME Init PROVE Types
  OBVIOUS
<1>1. Founder \in Node /\ MaxLost \in Nat /\ MaxSnapshots \in Nat /\ MaxFailures \in Nat
      /\ MaxLeaderChanges \in Nat /\ MaxStartErrors \in Nat
  BY RuntimeAssumption
<1>2. NewTask("add_node", Founder, AddNodeCode(Founder)) \in Task
      /\ NewTask("add_node", Founder, AddNodeCode(Founder)).wait = 0
      /\ NewTask("add_node", Founder, AddNodeCode(Founder)).res = None
  BY <1>1, NodeCodeTypes, NewTaskType
<1>3. log = <<>> /\ log \in Seq(Command) /\ Len(log) = 0
  BY DEF Init
<1>4. TasksOK(tasks, 0)
  <2>1. tasks = <<NewTask("add_node", Founder, AddNodeCode(Founder))>>
    BY DEF Init
  <2>2. tasks \in Seq(Task) /\ DOMAIN tasks = {1}
        /\ tasks[1] = NewTask("add_node", Founder, AddNodeCode(Founder))
    BY <1>2, <2>1
  <2>3. QED BY <1>2, <2>2 DEF TasksOK
<1>5. \A n \in Node : WellFormed(sm[n])
  BY NewStateWellFormed DEF Init
<1>6. /\ voters \subseteq Node /\ leader \in voters /\ sm = [n \in Node |-> sm[n]]
      /\ members \in SUBSET (Groups \X Node) /\ missed \subseteq Node /\ restored \subseteq Node
      /\ runtimes \in [Node -> SUBSET Nat] /\ loops \in [Node -> SUBSET Nat]
      /\ failed \in [Node -> SUBSET Nat]
  BY <1>1 DEF Init
<1>7. applied \in [Node -> Nat] /\ obs \in [Node -> Nat] /\ events \in [Node -> Seq(Event)]
      /\ \A n \in Node : applied[n] = 0 /\ obs[n] = 0 /\ Len(events[n]) = 0
  BY DEF Init
<1>8. env \in Bounds
  BY <1>1 DEF Init, Bounds
<1>9. QED BY <1>3, <1>4, <1>5, <1>6, <1>7, <1>8 DEF Types

\* A call adds a task with well-typed code.
LEMMA OperationTypes ==
    ASSUME Types, NEW n \in Node, Operation(n)
    PROVE  Types' /\ LocalStep
<1>1. WellFormed(sm[n]) /\ log \in Seq(Command) /\ TasksOK(tasks, Len(log))
  BY DEF Types
<1>2. \A c \in Known(n) : c \in Nat
  BY <1>1 DEF Known, WellFormed
<1>3. \E k \in Requests, code \in Seq(Instruction) : Call(k, n, code)
  <2>1. ASSUME NEW m \in Node, CallAddNode(n, m) \/ CallRemoveNode(n, m)
        PROVE  \E k \in Requests, code \in Seq(Instruction) : Call(k, n, code)
    BY <2>1, NodeCodeTypes DEF CallAddNode, CallRemoveNode, Call
  <2>2. ASSUME NEW ids \in SetToSeqs(Node), CallCreate(n, ids)
        PROVE  \E k \in Requests, code \in Seq(Instruction) : Call(k, n, code)
    <3>1. ids \in Seq(Node)
      BY OrdersOfNodes
    <3>2. <<CallI(CreateSubCluster(ids), "id")>> \in Seq(Instruction)
      BY <3>1, CommandTypes, InstructionTypes, SingletonSeq
    <3>3. QED BY <2>2, <3>2 DEF CallCreate, Call
  <2>3. ASSUME NEW c \in Known(n), CallDelete(n, c)
        PROVE  \E k \in Requests, code \in Seq(Instruction) : Call(k, n, code)
    <3>1. <<CallI(DeleteSubCluster(c), "nothing")>> \in Seq(Instruction)
      BY <1>2, CommandTypes, InstructionTypes, SingletonSeq
    <3>2. QED BY <2>3, <3>1 DEF CallDelete, Call
  <2>4. ASSUME NEW c \in Known(n), NEW m \in Node, CallAddTo(n, c, m) \/ CallRemoveFrom(n, c, m)
        PROVE  \E k \in Requests, code \in Seq(Instruction) : Call(k, n, code)
    <3>1. <<CallI(AddNode(c, m), "splits")>> \in Seq(Instruction)
          /\ <<CallI(RemoveNode(c, m), "consolidation")>> \in Seq(Instruction)
      BY <1>2, CommandTypes, InstructionTypes, SingletonSeq
    <3>2. QED BY <2>4, <3>1 DEF CallAddTo, CallRemoveFrom, Call
  <2>5. ASSUME NEW c \in Known(n), NEW v \in DrainValue, CallMetadata(n, c, v)
        PROVE  \E k \in Requests, code \in Seq(Instruction) : Call(k, n, code)
    <3>1. <<CallI(SetMetadata(c, v), "nothing")>> \in Seq(Instruction)
      BY <1>2, CommandTypes, InstructionTypes, SingletonSeq
    <3>2. QED BY <2>5, <3>1 DEF CallMetadata, Call
  <2>6. QED BY <2>1, <2>2, <2>3, <2>4, <2>5 DEF Operation
<1>4. PICK k \in Requests, code \in Seq(Instruction) : Call(k, n, code)
  BY <1>3
<1>5. NewTask(k, n, code) \in Task /\ NewTask(k, n, code).wait = 0 /\ NewTask(k, n, code).res = None
  BY NewTaskType
<1>6. TasksOK(tasks', Len(log))
  <2>1. Len(log) \in Nat
    BY <1>1
  <2>2. tasks' = Append(tasks, NewTask(k, n, code))
    BY <1>4 DEF Call
  <2>3. TasksOK(Append(tasks, NewTask(k, n, code)), Len(log))
    BY <1>1, <1>5, <2>1, OneTaskMore, Zenon
  <2>4. QED BY <2>2, <2>3
<1>7. UNCHANGED <<log, voters, leader, sm, applied, events, restored, obs, missed, runtimes, loops, failed, members, env>>
  BY <1>4 DEF Call, raftVars, nodeVars, obsVars, subVars
<1>8. QED BY <1>6, <1>7 DEF Types, LocalStep

\* A command is committed; nothing else of the nodes changes.
CommitStep ==
    /\ \E c \in Command : log' = Append(log, c)
    /\ UNCHANGED <<sm, applied, events, restored, obs, missed, runtimes, loops, failed, members>>

\* A committed command keeps the types.
LEMMA CommitTypes ==
    ASSUME Types, CommitStep, TasksOK(tasks', Len(log) + 1), UNCHANGED <<voters, leader>>,
           env' \in Bounds
    PROVE  Types'
<1>1. PICK c \in Command : log' = Append(log, c)
  BY DEF CommitStep
<1>2. log \in Seq(Command) /\ log' \in Seq(Command) /\ Len(log') = Len(log) + 1 /\ Len(log) \in Nat
  BY <1>1 DEF Types
<1>3. applied' \in [Node -> Nat] /\ \A n \in Node : applied'[n] <= Len(log')
  BY <1>2 DEF Types, CommitStep
<1>4. UNCHANGED <<voters, leader, sm, events, restored, obs, missed, runtimes, loops, failed, members>>
  BY DEF CommitStep
<1>5. QED BY <1>2, <1>3, <1>4 DEF Types

\* propose() without waiting.
LEMMA StepProposeTypes ==
    ASSUME Types, NEW t \in DOMAIN tasks, StepPropose(t)
    PROVE  Types' /\ (LocalStep \/ CommitStep)
<1>1. At(t, "propose")
  BY DEF StepPropose
<1>2. Head(tasks[t].code) \in Instruction /\ Head(tasks[t].code).op = "propose"
      /\ Tail(tasks[t].code) \in Seq(Instruction) /\ Len(log) \in Nat
  BY <1>1, TaskAt
<1>3. CASE Drop(t, Tail(tasks[t].code))
  <2>1. Types'
    BY <1>1, <1>2, <1>3, DropType
  <2>2. LocalStep
    BY <1>3 DEF Drop, LocalStep, raftVars, nodeVars, obsVars, subVars
  <2>3. QED BY <2>1, <2>2
<1>4. CASE /\ log' = Append(log, Head(tasks[t].code).cmd)
           /\ Continue(t, <<>>)
           /\ UNCHANGED <<voters, leader, nodeVars, obsVars, env>>
  <2>1. Head(tasks[t].code).cmd \in Command
    BY <1>2, InstructionFields
  <2>2. CommitStep
    BY <1>4, <2>1 DEF CommitStep, nodeVars, obsVars, subVars
  <2>3. TasksOK(tasks', Len(log) + 1)
    <3>1. <<>> \in Seq(Instruction) /\ Len(log) + 1 \in Nat /\ Len(log) <= Len(log) + 1
      BY <1>2
    <3>2. QED BY <1>1, <1>4, <3>1, ContinueType
  <2>4. env' \in Bounds
    BY <1>4 DEF Types
  <2>5. QED BY <1>4, <2>2, <2>3, <2>4, CommitTypes
<1>5. QED BY <1>3, <1>4 DEF StepPropose

\* propose_and_wait().
LEMMA StepCallTypes ==
    ASSUME Types, NEW t \in DOMAIN tasks, StepCall(t)
    PROVE  Types' /\ (LocalStep \/ CommitStep)
<1>1. At(t, "call") /\ tasks[t].wait = 0
  BY DEF StepCall
<1>2. Head(tasks[t].code) \in Instruction /\ Head(tasks[t].code).op = "call"
      /\ Tail(tasks[t].code) \in Seq(Instruction) /\ Len(log) \in Nat
      /\ tasks[t] \in Task /\ tasks[t].node \in Node
  BY <1>1, TaskAt
<1>3. CASE Drop(t, Tail(tasks[t].code))
  <2>1. Types'
    BY <1>1, <1>2, <1>3, DropType
  <2>2. LocalStep
    BY <1>3 DEF Drop, LocalStep, raftVars, nodeVars, obsVars, subVars
  <2>3. QED BY <2>1, <2>2
<1> DEFINE b == Len(events[tasks[t].node])
           w == Len(log) + 1
           x == [tasks[t] EXCEPT !.wait = w, !.sub = b]
<1>4. CASE /\ log' = Append(log, Head(tasks[t].code).cmd)
           /\ tasks' = [tasks EXCEPT ![t] =
                  [@ EXCEPT !.wait = Len(log) + 1, !.sub = Len(events[tasks[t].node])]]
           /\ UNCHANGED <<voters, leader, nodeVars, obsVars, env>>
  <2>1. Head(tasks[t].code).cmd \in Command
    BY <1>2, InstructionFields
  <2>2. CommitStep
    BY <1>4, <2>1 DEF CommitStep, nodeVars, obsVars, subVars
  <2>3. tasks' = [tasks EXCEPT ![t] = x]
    BY <1>4
  <2>4. b \in Nat /\ w \in Nat /\ w > 0 /\ Len(log) <= w /\ w <= w
    BY <1>2 DEF Types
  <2> HIDE DEF b, w
  <2>5. x \in Task /\ x.wait = w
    BY <1>2, <2>4 DEF Task
  <2> HIDE DEF x
  <2>6. TasksOK(tasks, Len(log))
    BY DEF Types
  <2>7. TasksOK([tasks EXCEPT ![t] = x], w)
    BY <1>2, <2>4, <2>5, <2>6, OneTaskChanged, Zenon
  <2>8. TasksOK(tasks', Len(log) + 1)
    BY <2>3, <2>7 DEF w
  <2>9. env' \in Bounds
    BY <1>4 DEF Types
  <2>10. QED BY <1>4, <2>2, <2>8, <2>9, CommitTypes
<1> DEFINE y == [tasks[t] EXCEPT !.code = Tail(tasks[t].code)]
<1>5. CASE /\ env.lost > 0
           /\ env' = [env EXCEPT !.lost = @ - 1]
           /\ log' = Append(log, Head(tasks[t].code).cmd)
           /\ tasks' = [tasks EXCEPT ![t].code = Tail(tasks[t].code)]
           /\ UNCHANGED <<voters, leader, nodeVars, obsVars>>
  <2>1. Head(tasks[t].code).cmd \in Command
    BY <1>2, InstructionFields
  <2>2. CommitStep
    BY <1>5, <2>1 DEF CommitStep, nodeVars, obsVars, subVars
  <2>3. tasks' = [tasks EXCEPT ![t] = y]
    BY <1>5
  <2>4. y \in Task /\ y.wait = 0 /\ y.res = tasks[t].res
    BY <1>1, <1>2, TaskDropped
  <2> HIDE DEF y
  <2>5. TasksOK(tasks, Len(log)) /\ (y.res # None => y.wait > 0)
    BY <1>1, <2>4 DEF Types, TasksOK
  <2>6. PICK k \in Nat : k = Len(log) + 1 /\ Len(log) <= k /\ y.wait <= k
    BY <1>2, <2>4
  <2>7. TasksOK([tasks EXCEPT ![t] = y], k)
    BY <1>2, <2>4, <2>5, <2>6, OneTaskChanged, Zenon
  <2>8. env' \in Bounds
    <3>1. env \in Bounds
      BY DEF Types
    <3>2. QED BY <1>5, <3>1 DEF Bounds
  <2>9. QED BY <1>5, <2>2, <2>3, <2>6, <2>7, <2>8, CommitTypes
<1>6. QED BY <1>3, <1>4, <1>5 DEF StepCall

\* A step of a task that changes the task alone keeps the types.
LEMMA TaskOnlyTypes ==
    ASSUME Types, NEW t \in DOMAIN tasks, NEW op, At(t, op),
           NEW d \in Seq(Instruction), Continue(t, d), LocalStep,
           voters' \subseteq Node, leader' \in voters', UNCHANGED env
    PROVE  Types'
<1>1. Len(log) \in Nat /\ Len(log) <= Len(log)
  BY TaskAt
<1>2. TasksOK(tasks', Len(log))
  BY <1>1, ContinueType
<1>3. QED BY <1>2 DEF Types, LocalStep

\* The configuration change of add_node and remove_node.
LEMMA StepConfTypes ==
    ASSUME Types, NEW t \in DOMAIN tasks, StepConf(t)
    PROVE  Types' /\ LocalStep
<1> DEFINE i == Head(tasks[t].code)
<1>1. At(t, "conf")
  BY DEF StepConf
<1>2. i \in Instruction /\ i.op = "conf" /\ Tail(tasks[t].code) \in Seq(Instruction)
      /\ <<>> \in Seq(Instruction)
  BY <1>1, TaskAt
<1>3. CASE Drop(t, <<>>) \/ Drop(t, Tail(tasks[t].code))
  <2>1. Types'
    BY <1>1, <1>2, <1>3, DropType
  <2>2. LocalStep
    BY <1>3 DEF Drop, LocalStep, raftVars, nodeVars, obsVars, subVars
  <2>3. QED BY <2>1, <2>2
<1>4. CASE /\ voters' = IF i.change = "AddNode" THEN voters \cup {i.node} ELSE voters \ {i.node}
           /\ leader' \in voters'
           /\ Continue(t, <<>>)
           /\ UNCHANGED <<log, nodeVars, obsVars, env>>
  <2>1. LocalStep
    BY <1>4 DEF LocalStep, nodeVars, obsVars, subVars
  <2>2. i.node \in Node
    BY <1>2, InstructionFields
  <2>3. voters \subseteq Node
    BY DEF Types
  <2>4. voters' \subseteq Node
    BY <1>4, <2>2, <2>3
  <2>5. QED BY <1>1, <1>2, <1>4, <2>1, <2>4, TaskOnlyTypes
<1>5. QED BY <1>3, <1>4 DEF StepConf

\* The ClusterManager decides.
LEMMA StepDecideTypes ==
    ASSUME Types, NEW t \in DOMAIN tasks, StepDecide(t)
    PROVE  Types' /\ LocalStep
<1> DEFINE i == Head(tasks[t].code)
<1>1. At(t, "decide")
  BY DEF StepDecide
<1>2. i \in Instruction /\ i.op = "decide" /\ tasks[t].node \in Node
  BY <1>1, TaskAt
<1>3. i.how \in {"placement", "rebalancing", "failed"} /\ i.node \in Node
  BY <1>2, InstructionFields
<1>4. WellFormed(sm[tasks[t].node])
  BY <1>2 DEF Types
<1>5. PICK d \in Decisions(sm[tasks[t].node], i.how, i.node) : Continue(t, d)
  BY DEF StepDecide
<1>6. d \in Seq(Instruction)
  BY <1>3, <1>4, <1>5, DecisionsType
<1>7. LocalStep /\ UNCHANGED <<voters, leader, env>>
  BY DEF StepDecide, LocalStep, raftVars, nodeVars, obsVars, subVars
<1>8. voters' \subseteq Node /\ leader' \in voters'
  BY <1>7 DEF Types
<1>9. QED BY <1>1, <1>5, <1>6, <1>7, <1>8, TaskOnlyTypes

\* The caller of propose_and_wait is woken up.
LEMMA StepReturnTypes ==
    ASSUME Types, NEW t \in DOMAIN tasks, StepReturn(t)
    PROVE  Types' /\ LocalStep
<1> DEFINE i == Head(tasks[t].code)
<1>1. At(t, "call") /\ i.after # "id"
  BY DEF StepReturn
<1>2. i \in Instruction /\ i.op = "call" /\ tasks[t].node \in Node
  BY <1>1, TaskAt
<1>3. i.after \in {"nothing", "splits", "consolidation"} /\ Founder \in Node
  BY <1>1, <1>2, InstructionFields, RuntimeAssumption
<1>4. WellFormed(sm[tasks[t].node])
  BY <1>2 DEF Types
<1>5. PICK d : /\ d \in Decisions(sm[tasks[t].node], i.after, Founder) \/ d = <<>>
               /\ Continue(t, d)
  BY DEF StepReturn
<1>6. d \in Seq(Instruction)
  <2>1. CASE d \in Decisions(sm[tasks[t].node], i.after, Founder)
    BY <1>3, <1>4, <2>1, DecisionsType
  <2>2. CASE d = <<>>
    BY <2>2
  <2>3. QED BY <1>5, <2>1, <2>2
<1>7. LocalStep /\ UNCHANGED <<voters, leader, env>>
  BY DEF StepReturn, LocalStep, raftVars, nodeVars, obsVars, subVars
<1>8. voters' \subseteq Node /\ leader' \in voters'
  BY <1>7 DEF Types
<1>9. QED BY <1>1, <1>5, <1>6, <1>7, <1>8, TaskOnlyTypes

\* create_sub_cluster returns an id.
LEMMA StepCreatedTypes ==
    ASSUME Types, NEW t \in DOMAIN tasks, StepCreated(t)
    PROVE  Types' /\ LocalStep
<1> DEFINE ev == events[tasks[t].node]
<1>1. At(t, "call")
  BY DEF StepCreated
<1>2. tasks[t] \in Task /\ Tail(tasks[t].code) \in Seq(Instruction) /\ tasks[t].node \in Node
      /\ tasks[t].sub \in Nat /\ Len(log) \in Nat
  BY <1>1, TaskAt
<1>3. /\ UNCHANGED <<log, voters, leader, sm, applied, events, restored, env>>
      /\ UNCHANGED <<obs, missed, runtimes, loops, failed, members>>
  BY DEF StepCreated, raftVars, nodeVars, obsVars, subVars
<1>4. CASE Continue(t, <<>>)
  <2>1. LocalStep /\ <<>> \in Seq(Instruction)
    BY <1>3 DEF LocalStep
  <2>2. voters' \subseteq Node /\ leader' \in voters'
    BY <1>3 DEF Types
  <2>3. QED BY <1>1, <1>3, <1>4, <2>1, <2>2, TaskOnlyTypes
<1>5. CASE ~ Continue(t, <<>>)
  <2>1. PICK j \in tasks[t].sub + 1 .. Len(ev) :
            /\ ev[j].type = "Created"
            /\ tasks' = [tasks EXCEPT ![t] =
                   [@ EXCEPT !.code = Tail(tasks[t].code), !.res = None, !.ret = ev[j].cluster]]
    BY <1>5 DEF StepCreated
  <2>2. ev[j].cluster \in Nat
    <3>1. ev \in Seq(Event) /\ j \in 1 .. Len(ev)
      BY <1>2, <2>1 DEF Types
    <3>2. ev[j] \in Event
      BY <3>1
    <3>3. QED BY <2>1, <3>2 DEF Event, DeleteCommand, MemberCommand, MetadataCommand
  <2>3. PICK id \in Nat, code \in Seq(Instruction) : id = ev[j].cluster /\ code = Tail(tasks[t].code)
    BY <1>2, <2>2
  <2> DEFINE x == [tasks[t] EXCEPT !.code = code, !.res = None, !.ret = id]
  <2>4. tasks' = [tasks EXCEPT ![t] = x]
    BY <2>1, <2>3
  <2>5. x \in Task /\ x.wait = tasks[t].wait /\ x.res = None
    BY <1>2, TaskReturned
  <2> HIDE DEF x
  <2>6. TasksOK(tasks, Len(log)) /\ Len(log) <= Len(log) /\ x.wait <= Len(log)
    BY <1>2, <2>5 DEF Types, TasksOK
  <2>7. TasksOK([tasks EXCEPT ![t] = x], Len(log))
    BY <1>2, <2>5, <2>6, OneTaskChanged, Zenon
  <2>8. QED BY <1>3, <2>4, <2>7 DEF Types, LocalStep
<1>6. QED BY <1>4, <1>5

\* A node applies a command and wakes up who waits for it.
LEMMA ApplyTypes ==
    ASSUME Types, NEW n \in Node, Apply(n)
    PROVE  Types'
<1> DEFINE i == applied[n] + 1
           c == log[i]
<1>1. applied[n] \in Nat /\ i \in 1 .. Len(log) /\ Len(log) \in Nat /\ c \in Command
  BY DEF Types, Apply
<1>2. WellFormed(sm[n]) /\ events[n] \in Seq(Event)
  BY DEF Types
<1>3. WellFormed(ApplyManagement(sm[n], c))
  BY <1>1, <1>2, ApplyWellFormed
<1>4. sm' = [sm EXCEPT ![n] = ApplyManagement(@, c)]
      /\ events' = [events EXCEPT ![n] = @ \o Events(sm[n], c)]
      /\ applied' = [applied EXCEPT ![n] = i]
  BY DEF Apply
<1>5. sm' = [m \in Node |-> sm'[m]] /\ \A m \in Node : WellFormed(sm'[m])
  <2>1. sm = [m \in Node |-> sm[m]] /\ \A m \in Node : WellFormed(sm[m])
    BY DEF Types
  <2> HIDE DEF c
  <2>2. QED BY <1>3, <1>4, <2>1
<1>6. Events(sm[n], c) \in Seq(Event) /\ Len(Events(sm[n], c)) \in Nat
  BY <1>1, <1>2, EventsType
<1>7. events' \in [Node -> Seq(Event)] /\ \A m \in Node : Len(events[m]) <= Len(events'[m])
  <2>1. PICK e \in Seq(Event) : e = Events(sm[n], c)
    BY <1>6
  <2>2. events[n] \o e \in Seq(Event) /\ Len(events[n] \o e) = Len(events[n]) + Len(e)
        /\ Len(e) \in Nat
    BY <1>2, ConcatProperties
  <2>3. events \in [Node -> Seq(Event)] /\ events' = [events EXCEPT ![n] = events[n] \o e]
    BY <1>4, <2>1 DEF Types
  <2>4. \A m \in Node : Len(events[m]) \in Nat
    BY <2>3
  <2>5. QED BY <2>2, <2>3, <2>4
<1>8. applied' \in [Node -> Nat] /\ \A m \in Node : applied'[m] <= Len(log)
  BY <1>1, <1>4 DEF Types
<1>9. TasksOK(tasks', Len(log))
  <2> DEFINE o == Outcome(sm[n], c)
  <2>1. tasks' = [t \in DOMAIN tasks |-> IF tasks[t].node = n /\ tasks[t].wait = i
                                       THEN [tasks[t] EXCEPT !.res = o] ELSE tasks[t]]
    BY DEF Apply
  <2>2. TasksOK(tasks, Len(log)) /\ o \in {None, "Ok", "Err"}
    BY DEF Types, Outcome
  <2> HIDE DEF o
  <2>3. tasks \in Seq(Task) /\ DOMAIN tasks = 1 .. Len(tasks) /\ Len(tasks) \in Nat
    BY <2>2 DEF TasksOK
  <2>4. ASSUME NEW t \in DOMAIN tasks
        PROVE  /\ tasks'[t] \in Task /\ tasks'[t].wait <= Len(log)
               /\ tasks'[t].res # None => tasks'[t].wait > 0
    <3>1. tasks[t] \in Task /\ tasks[t].wait <= Len(log) /\ (tasks[t].res # None => tasks[t].wait > 0)
      BY <2>2, <2>3 DEF TasksOK
    <3>2. CASE tasks[t].node = n /\ tasks[t].wait = i
      <4>1. tasks'[t] = [tasks[t] EXCEPT !.res = o]
        BY <2>1, <3>2
      <4>2. tasks'[t] \in Task /\ tasks'[t].wait = tasks[t].wait
        BY <2>2, <3>1, <4>1 DEF Task
      <4>3. QED BY <1>1, <3>1, <3>2, <4>2
    <3>3. CASE ~ (tasks[t].node = n /\ tasks[t].wait = i)
      BY <2>1, <3>1, <3>3
    <3>4. QED BY <3>2, <3>3
  <2>5. DOMAIN tasks' = 1 .. Len(tasks) /\ tasks' = [t \in 1 .. Len(tasks) |-> tasks'[t]]
    BY <2>1, <2>3
  <2>6. tasks' \in Seq(Task)
    BY <2>3, <2>4, <2>5
  <2>7. QED BY <2>3, <2>4, <2>5, <2>6 DEF TasksOK
<1>10. \A m \in Node : obs'[m] <= Len(events'[m])
  <2>1. obs' = obs
    BY DEF Apply, obsVars, subVars
  <2>2. \A m \in Node : obs[m] <= Len(events[m]) /\ obs[m] \in Nat /\ Len(events[m]) \in Nat
        /\ Len(events'[m]) \in Nat
    BY <1>7 DEF Types
  <2>3. QED BY <1>7, <2>1, <2>2
<1>11. UNCHANGED <<log, voters, leader, restored, obs, missed, runtimes, loops, failed, members, env>>
  BY DEF Apply, raftVars, obsVars, subVars
<1>12. QED BY <1>5, <1>7, <1>8, <1>9, <1>10, <1>11 DEF Types

\* A snapshot of a well-formed state is that state.
LEMMA SnapshotIsState ==
    ASSUME NEW s, WellFormed(s)
    PROVE  Snapshot(s) = s
BY DEF WellFormed

\* A snapshot is installed.
LEMMA InstallSnapshotTypes ==
    ASSUME Types, NEW n \in Node, NEW m \in Node, InstallSnapshot(n, m)
    PROVE  Types'
<1>1. sm' = [sm EXCEPT ![n] = sm[m]]
  <2>1. sm' = [sm EXCEPT ![n] = Snapshot(sm[m])] /\ WellFormed(sm[m])
    BY DEF InstallSnapshot, Types
  <2>2. Snapshot(sm[m]) = sm[m]
    BY <2>1, SnapshotIsState
  <2>3. QED BY <2>1, <2>2
<1>2. sm' = [k \in Node |-> sm'[k]] /\ \A k \in Node : WellFormed(sm'[k])
  <2>1. sm = [k \in Node |-> sm[k]] /\ \A k \in Node : WellFormed(sm[k])
    BY DEF Types
  <2>2. QED BY <1>1, <2>1
<1>3. applied' \in [Node -> Nat] /\ \A k \in Node : applied'[k] <= Len(log)
  BY DEF Types, InstallSnapshot
<1>4. env' \in Bounds
  <2>1. env \in Bounds /\ env.snapshot > 0 /\ env' = [env EXCEPT !.snapshot = @ - 1]
    BY DEF Types, InstallSnapshot
  <2>2. QED BY <2>1 DEF Bounds
<1>5. restored' \subseteq Node
  BY DEF Types, InstallSnapshot
<1>6. UNCHANGED <<log, voters, leader, events, obs, missed, runtimes, loops, failed, members, tasks>>
  BY DEF InstallSnapshot, raftVars, obsVars, subVars
<1>7. QED BY <1>2, <1>3, <1>4, <1>5, <1>6 DEF Types

\* A follower is reported.
LEMMA DetectFailureTypes ==
    ASSUME Types, NEW m \in Node, DetectFailure(m)
    PROVE  /\ Types'
           /\ leader \in Node
           /\ events' = [events EXCEPT ![leader] = Append(@, [type |-> "Failed", node |-> m])]
           /\ [type |-> "Failed", node |-> m] \in Event
           /\ UNCHANGED <<log, sm, applied, restored, obs, missed, runtimes, loops, failed, members>>
<1> DEFINE f == [type |-> "Failed", node |-> m]
<1>1. leader \in Node /\ events \in [Node -> Seq(Event)]
  BY DEF Types
<1>2. events' = [events EXCEPT ![leader] = Append(@, f)]
  BY DEF DetectFailure
<1>3. f \in Event
  BY DEF Event
<1> HIDE DEF f
<1>4. events[leader] \in Seq(Event) /\ Append(events[leader], f) \in Seq(Event)
      /\ Len(Append(events[leader], f)) = Len(events[leader]) + 1
  BY <1>1, <1>3
<1>5. events' \in [Node -> Seq(Event)] /\ \A n \in Node : Len(events[n]) <= Len(events'[n])
  <2>1. \A n \in Node : Len(events[n]) \in Nat
    BY <1>1
  <2>2. QED BY <1>1, <1>2, <1>4, <2>1
<1>6. env' \in Bounds
  <2>1. env \in Bounds /\ env.failure > 0 /\ env' = [env EXCEPT !.failure = @ - 1]
    BY DEF Types, DetectFailure
  <2>2. QED BY <2>1 DEF Bounds
<1>7. UNCHANGED <<log, voters, leader, sm, applied, restored, obs, missed, runtimes, loops, failed, members, tasks>>
  BY DEF DetectFailure, raftVars, obsVars, subVars
<1>8. \A n \in Node : obs'[n] <= Len(events'[n])
  <2>1. \A n \in Node : obs[n] <= Len(events[n]) /\ obs[n] \in Nat /\ Len(events[n]) \in Nat
        /\ Len(events'[n]) \in Nat
    BY <1>5 DEF Types
  <2>2. QED BY <1>5, <1>7, <2>1
<1>9. Types'
  BY <1>5, <1>6, <1>7, <1>8 DEF Types
<1>10. QED BY <1>1, <1>2, <1>3, <1>7, <1>9 DEF f

\* Another leader is elected.
LEMMA ChangeLeaderTypes ==
    ASSUME Types, NEW m \in Node, ChangeLeader(m)
    PROVE  Types' /\ LocalStep
<1>1. env' \in Bounds
  <2>1. env \in Bounds /\ env.leader > 0 /\ env' = [env EXCEPT !.leader = @ - 1]
    BY DEF Types, ChangeLeader
  <2>2. QED BY <2>1 DEF Bounds
<1>2. leader' \in voters
  BY DEF ChangeLeader
<1>3. UNCHANGED <<log, voters, sm, applied, events, restored, obs, missed, runtimes, loops, failed, members, tasks>>
  BY DEF ChangeLeader, nodeVars, obsVars, subVars
<1>4. QED BY <1>1, <1>2, <1>3 DEF Types, LocalStep

\* An event has the fields of its type.
LEMMA EventFields ==
    ASSUME NEW e \in Event
    PROVE  /\ e.type \in {"Created", "Failed", "Delete", "Add", "Remove", "Metadata"}
           /\ e.type = "Created" => e.cluster \in Nat /\ e.nodes \in Seq(Node)
           /\ e.type = "Failed" => e.node \in Node
           /\ e.type \in {"Add", "Remove"} => e.cluster \in Nat /\ e.node \in Node
           /\ e.type = "Delete" => e.cluster \in Nat
BY DEF Event, DeleteCommand, MemberCommand, MetadataCommand

\* A Raft node is started, or cannot be.
LEMMA StartTypes ==
    ASSUME Types, NEW n \in Node, NEW c \in Nat, NEW ids, StartRaftNode(n, c, ids)
    PROVE  /\ runtimes' \in [Node -> SUBSET Nat] /\ loops' \in [Node -> SUBSET Nat]
           /\ failed' \in [Node -> SUBSET Nat]
           /\ members' \in SUBSET (Groups \X Node)
           /\ env' \in Bounds /\ env'.lost = env.lost
<1>1. /\ runtimes \in [Node -> SUBSET Nat] /\ loops \in [Node -> SUBSET Nat]
      /\ failed \in [Node -> SUBSET Nat] /\ env \in Bounds
      /\ members \in SUBSET (Groups \X Node) /\ obs[n] + 1 \in Nat
  BY DEF Types
<1>2. <<Group(c, n), n>> \in Groups \X Node
  BY <1>1 DEF Group, Groups
<1>3. CASE /\ SetRuntimes(n, runtimes[n] \cup {c})
           /\ loops' = [loops EXCEPT ![n] = @ \cup {c}]
           /\ failed' = [failed EXCEPT ![n] = @ \ {c}]
           /\ members' \in Founded(n, c, ids)
           /\ UNCHANGED env
  <2>1. members' = members \/ members' = members \cup {<<Group(c, n), n>>}
    BY <1>3 DEF Founded
  <2>2. members' \in SUBSET (Groups \X Node)
    BY <1>1, <1>2, <2>1
  <2>3. runtimes' \in [Node -> SUBSET Nat] /\ loops' \in [Node -> SUBSET Nat]
        /\ failed' \in [Node -> SUBSET Nat]
    BY <1>1, <1>3 DEF SetRuntimes
  <2>4. QED BY <1>1, <1>3, <2>2, <2>3
<1>4. CASE /\ \/ UNCHANGED env
              \/ env.start > 0 /\ env' = [env EXCEPT !.start = @ - 1]
           /\ loops' = [loops EXCEPT ![n] = @ \ {c}]
           /\ failed' = [failed EXCEPT ![n] = @ \cup {c}]
           /\ UNCHANGED <<runtimes, members>>
  <2>1. env' \in Bounds /\ env'.lost = env.lost
    BY <1>1, <1>4 DEF Bounds
  <2>2. loops' \in [Node -> SUBSET Nat] /\ failed' \in [Node -> SUBSET Nat]
    BY <1>1, <1>4
  <2>3. QED BY <1>1, <1>4, <2>1, <2>2
<1>5. QED BY <1>3, <1>4 DEF StartRaftNode

\* What an event does to the sub-clusters of the node.
LEMMA HandledTypes ==
    ASSUME Types, NEW n \in Node, NEW e \in Event,
           \/ e.type = "Created" /\ OnCreated(n, e)
           \/ e.type = "Add" /\ OnNodeAdded(n, e)
           \/ e.type = "Remove" /\ OnNodeRemoved(n, e)
           \/ e.type = "Delete" /\ OnDeleted(n, e)
           \/ e.type = "Failed" /\ OnFailed(n, e)
           \/ e.type = "Metadata" /\ UNCHANGED <<subVars, tasks, env>>
    PROVE  /\ runtimes' \in [Node -> SUBSET Nat] /\ loops' \in [Node -> SUBSET Nat]
           /\ failed' \in [Node -> SUBSET Nat]
           /\ members' \in SUBSET (Groups \X Node)
           /\ env' \in Bounds /\ env'.lost = env.lost
<1>1. /\ runtimes \in [Node -> SUBSET Nat] /\ loops \in [Node -> SUBSET Nat]
      /\ failed \in [Node -> SUBSET Nat] /\ env \in Bounds
      /\ members \in SUBSET (Groups \X Node)
  BY DEF Types
<1>2. CASE UNCHANGED <<subVars, env>>
  BY <1>1, <1>2 DEF subVars
<1>3. CASE e.type \in {"Created", "Add"} /\ \E ids : StartRaftNode(n, e.cluster, ids)
  BY <1>3, EventFields, StartTypes
<1>4. CASE /\ e.type = "Add" /\ UNCHANGED <<runtimes, loops, failed, env>>
           /\ \/ UNCHANGED members
              \/ \E v \in members : members' = members \cup {<<v[1], e.node>>}
  <2>1. CASE UNCHANGED members
    BY <1>1, <1>4, <2>1
  <2>2. ASSUME NEW v \in members, members' = members \cup {<<v[1], e.node>>}
        PROVE  members' \in SUBSET (Groups \X Node)
    <3>1. v[1] \in Groups /\ e.node \in Node
      BY <1>1, <1>4, EventFields
    <3>2. QED BY <1>1, <2>2, <3>1
  <2>3. QED BY <1>1, <1>4, <2>1, <2>2
<1>5. CASE /\ UNCHANGED <<loops, failed, members, env>>
           /\ \E d : SetRuntimes(n, runtimes[n] \ d)
  BY <1>1, <1>5 DEF SetRuntimes
<1>6. CASE e.type = "Created" /\ OnCreated(n, e)
  BY <1>2, <1>3, <1>6 DEF OnCreated
<1>7. CASE e.type = "Add" /\ OnNodeAdded(n, e)
  BY <1>2, <1>3, <1>4, <1>7 DEF OnNodeAdded
<1>8. CASE e.type = "Remove" /\ OnNodeRemoved(n, e)
  <2>1. runtimes[n] = runtimes[n] \ {}
    OBVIOUS
  <2>2. QED BY <1>5, <1>8, <2>1 DEF OnNodeRemoved
<1>9. CASE e.type = "Delete" /\ OnDeleted(n, e)
  BY <1>5, <1>9 DEF OnDeleted
<1>10. QED BY <1>2, <1>6, <1>7, <1>8, <1>9 DEF OnFailed

\* The observer handles an event.
LEMMA ObserveTypes ==
    ASSUME Types, NEW n \in Node, Observe(n)
    PROVE  /\ Types'
           /\ UNCHANGED <<log, voters, leader, sm, applied, events, restored, missed>>
           /\ env'.lost = env.lost
<1> DEFINE e == events[n][obs[n] + 1]
<1>1. obs[n] \in Nat /\ obs[n] + 1 \in 1 .. Len(events[n]) /\ events[n] \in Seq(Event)
  BY DEF Types, Observe
<1>2. e \in Event
  BY <1>1
<1>3. obs' \in [Node -> Nat] /\ \A m \in Node : obs'[m] <= Len(events[m])
  BY <1>1 DEF Types, Observe
<1>4. UNCHANGED <<log, voters, leader, sm, applied, events, restored, missed>>
  BY DEF Observe, raftVars, nodeVars
<1>5. Len(log) \in Nat /\ TasksOK(tasks, Len(log))
  BY DEF Types
<1>6. \/ e.type = "Created" /\ OnCreated(n, e)
      \/ e.type = "Add" /\ OnNodeAdded(n, e)
      \/ e.type = "Remove" /\ OnNodeRemoved(n, e)
      \/ e.type = "Delete" /\ OnDeleted(n, e)
      \/ e.type = "Failed" /\ OnFailed(n, e)
      \/ e.type = "Metadata" /\ UNCHANGED <<subVars, tasks, env>>
  BY DEF Observe
<1> HIDE DEF e
<1>7. /\ runtimes' \in [Node -> SUBSET Nat] /\ loops' \in [Node -> SUBSET Nat]
      /\ failed' \in [Node -> SUBSET Nat]
      /\ members' \in SUBSET (Groups \X Node)
      /\ env' \in Bounds /\ env'.lost = env.lost
  BY <1>2, <1>6, HandledTypes
<1>8. TasksOK(tasks', Len(log))
  <2>1. CASE e.type = "Failed" /\ OnFailed(n, e)
    <3>1. e.node \in Node
      BY <1>2, <2>1, EventFields
    <3> DEFINE code == <<DecideI("failed", e.node)>>
               x == NewTask("handle_failed_node", n, code)
    <3>2. code \in Seq(Instruction)
      BY <3>1, InstructionTypes, SingletonSeq
    <3>3. tasks' = tasks \/ tasks' = Append(tasks, x)
      BY <2>1 DEF OnFailed
    <3>4. x \in Task /\ x.wait = 0 /\ x.res = None
      BY <3>2, NewTaskType
    <3> HIDE DEF x
    <3>5. TasksOK(Append(tasks, x), Len(log))
      BY <1>5, <3>4, OneTaskMore, Zenon
    <3>6. QED BY <1>5, <3>3, <3>5
  <2>2. CASE UNCHANGED tasks
    BY <1>5, <2>2
  <2>3. QED BY <1>6, <2>1, <2>2 DEF OnCreated, OnNodeAdded, OnNodeRemoved, OnDeleted
<1>9. QED BY <1>3, <1>4, <1>7, <1>8 DEF Types

\* The observer goes on past events it has lost.
LEMMA LagTypes ==
    ASSUME Types, NEW n \in Node, Lag(n)
    PROVE  /\ Types'
           /\ UNCHANGED <<log, sm, applied, events, restored, runtimes, loops, failed, members>>
<1>1. obs[n] \in Nat /\ Len(events[n]) \in Nat /\ BusSize \in Nat
      /\ Len(events[n]) - obs[n] > BusSize /\ obs' = [obs EXCEPT ![n] = Len(events[n]) - BusSize]
  BY RuntimeAssumption DEF Types, Lag
<1>2. obs' \in [Node -> Nat] /\ \A m \in Node : obs'[m] <= Len(events[m])
  BY <1>1 DEF Types
<1>3. missed' \subseteq Node
  BY DEF Types, Lag
<1>4. UNCHANGED <<log, voters, leader, sm, applied, events, restored, runtimes, loops, failed,
                  members, tasks, env>>
  BY DEF Lag, raftVars, nodeVars, subVars
<1>5. QED BY <1>2, <1>3, <1>4 DEF Types

\* Steps that leave alone what the properties are about, and the others.
Kinds ==
    \/ LocalStep
    \/ CommitStep
    \/ \E n \in Node : Apply(n) \/ Observe(n) \/ Lag(n)
    \/ \E n, m \in Node : InstallSnapshot(n, m)
    \/ \E m \in Node : DetectFailure(m)

\* Every step keeps the types and is of one of these kinds.
LEMMA NextTypes ==
    ASSUME Types, [Next]_vars
    PROVE  Types' /\ Kinds
<1>1. CASE \E n \in Node : Operation(n)
  BY <1>1, OperationTypes DEF Kinds
<1>2. CASE \E n \in Node : Apply(n)
  BY <1>2, ApplyTypes DEF Kinds
<1>3. CASE \E n \in Node : Observe(n)
  BY <1>3, ObserveTypes DEF Kinds
<1>4. CASE \E t \in DOMAIN tasks : TaskStep(t)
  <2>1. PICK t \in DOMAIN tasks : TaskStep(t)
    BY <1>4
  <2>2. CASE StepPropose(t)
    BY <2>2, StepProposeTypes DEF Kinds
  <2>3. CASE StepCall(t)
    BY <2>3, StepCallTypes DEF Kinds
  <2>4. CASE StepConf(t)
    BY <2>4, StepConfTypes DEF Kinds
  <2>5. CASE StepDecide(t)
    BY <2>5, StepDecideTypes DEF Kinds
  <2>6. CASE StepReturn(t)
    BY <2>6, StepReturnTypes DEF Kinds
  <2>7. CASE StepCreated(t)
    BY <2>7, StepCreatedTypes DEF Kinds
  <2>8. QED BY <2>1, <2>2, <2>3, <2>4, <2>5, <2>6, <2>7 DEF TaskStep
<1>5. CASE \E n, m \in Node : InstallSnapshot(n, m)
  BY <1>5, InstallSnapshotTypes DEF Kinds
<1>6. CASE \E m \in Node : DetectFailure(m)
  BY <1>6, DetectFailureTypes DEF Kinds
<1>7. CASE \E m \in Node : ChangeLeader(m)
  BY <1>7, ChangeLeaderTypes DEF Kinds
<1>8. CASE \E n \in Node : Lag(n)
  BY <1>8, LagTypes DEF Kinds
<1>9. CASE UNCHANGED vars
  BY <1>9 DEF vars, Types, Kinds, LocalStep
<1>10. QED BY <1>1, <1>2, <1>3, <1>4, <1>5, <1>6, <1>7, <1>8, <1>9 DEF Next

\* The types say what TypeOK says.
LEMMA TypesImplyTypeOK == Types => TypeOK
<1> SUFFICES ASSUME Types PROVE TypeOK
  OBVIOUS
<1>1. \A i \in DOMAIN log : log[i] \in Command
  BY DEF Types
<1>2. \A n \in Node : IsState(sm[n])
  BY DEF Types, WellFormed, IsState
<1>3. \A n \in Node : applied[n] \in 0 .. Len(log) /\ obs[n] \in 0 .. Len(events[n])
  <2>1. Len(log) \in Nat /\ \A n \in Node : Len(events[n]) \in Nat
    BY DEF Types
  <2>2. QED BY <2>1 DEF Types
<1>4. ASSUME NEW t \in DOMAIN tasks
      PROVE  /\ tasks[t].node \in Node
             /\ tasks[t].wait \in 0 .. Len(log)
             /\ tasks[t].res # None => tasks[t].wait > 0
  <2>1. tasks \in Seq(Task) /\ Len(log) \in Nat
    BY DEF Types, TasksOK
  <2>2. tasks[t] \in Task
    BY <2>1
  <2>3. tasks[t].node \in Node /\ tasks[t].wait \in Nat
    BY <2>2 DEF Task
  <2>4. QED BY <2>1, <2>3 DEF Types, TasksOK
<1>5. /\ {runtimes, loops, failed} \subseteq [Node -> SUBSET Nat]
      /\ members \subseteq [cluster : Nat, founder : Node, since : Nat] \X Node
      /\ missed \cup restored \subseteq Node
  BY DEF Types, Groups
<1>6. QED BY <1>1, <1>2, <1>3, <1>4, <1>5 DEF Types, TypeOK

\* The types hold in every state.
LEMMA TypesAlways == Spec => []Types
<1>1. Init => Types
  BY InitTypes
<1>2. Types /\ [Next]_vars => Types'
  BY NextTypes
<1>3. QED BY <1>1, <1>2, PTL DEF Spec

\* Every variable has its type and nobody applies, observes or waits for what
\* is not there: whatever is called and decided, the commands proposed name
\* nodes and ids, and an id in use was given out by the counter.
THEOREM ManagementTypeCorrect == Spec => []TypeOK
<1>1. Types => TypeOK
  BY TypesImplyTypeOK
<1>2. QED BY <1>1, TypesAlways, PTL

-----------------------------------------------------------------------------
(* Replicas agree, and an id is given out once. *)

\* The event of a creation.
Creation(s, c) == [type |-> "Created", cluster |-> s.next, nodes |-> c.nodes]

\* r[i] is the state after the first i commands.
Replays(r) ==
    /\ DOMAIN r = 0 .. Len(log) /\ r[0] = NewState
    /\ \A i \in 1 .. Len(log) : r[i] = ApplyManagement(r[i - 1], log[i])
    /\ \A i \in 0 .. Len(log) : WellFormed(r[i])
    /\ \A i, j \in 0 .. Len(log) : i <= j => r[i].next <= r[j].next

\* The creations node n has heard of are creations it has applied.
HeardOf(r, n) ==
    \A k \in DOMAIN events[n] : events[n][k].type = "Created" =>
        \E i \in 1 .. applied[n] :
            log[i].type = "Create" /\ events[n][k] = Creation(r[i - 1], log[i])

\* Every node is at a point of the same history.
AtPoint(r) == \A n \in Node : sm[n] = r[applied[n]] /\ HeardOf(r, n)

History == \E r : Replays(r) /\ AtPoint(r)

\* An empty log leads to the new state, where every node is.
LEMMA InitHistory == Init => History
<1> SUFFICES ASSUME Init PROVE History
  OBVIOUS
<1> DEFINE r == [i \in 0 .. 0 |-> NewState]
<1>1. Len(log) = 0 /\ 1 .. 0 = {} /\ 0 .. 0 = {0}
  BY DEF Init
<1>2. WellFormed(NewState) /\ NewState.next \in Nat
  BY NewStateWellFormed DEF WellFormed
<1>3. Replays(r)
  BY <1>1, <1>2 DEF Replays
<1>4. AtPoint(r)
  BY <1>1 DEF AtPoint, HeardOf, Init
<1>5. QED BY <1>3, <1>4 DEF History

\* A command more leads to one state more; nobody has applied it.
LEMMA CommitHistory ==
    ASSUME Types, Types', History, CommitStep
    PROVE  History'
<1>1. PICK r : Replays(r) /\ AtPoint(r)
  BY DEF History
<1>2. PICK c \in Command : log' = Append(log, c)
  BY DEF CommitStep
<1> DEFINE len == Len(log)
           last == ApplyManagement(r[len], c)
           next == [i \in 0 .. len + 1 |-> IF i = len + 1 THEN last ELSE r[i]]
<1>3. len \in Nat /\ Len(log') = len + 1 /\ log'[len + 1] = c /\ \A i \in 1 .. len : log'[i] = log[i]
  BY <1>2 DEF Types
<1>4. WellFormed(r[len]) /\ len \in 0 .. len
  BY <1>1, <1>3 DEF Replays
<1>5. WellFormed(last) /\ r[len].next <= last.next /\ last.next \in Nat
  <2>1. WellFormed(last) /\ last.next \in {r[len].next, r[len].next + 1}
    BY <1>4, ApplyWellFormed
  <2>2. r[len].next \in Nat
    BY <1>4 DEF WellFormed
  <2>3. QED BY <2>1, <2>2
<1> HIDE DEF last
<1>6. PICK q : q = next
  OBVIOUS
<1>7. DOMAIN q = 0 .. len + 1 /\ q[len + 1] = last /\ \A i \in 0 .. len : q[i] = r[i]
  BY <1>3, <1>6
<1>8. Replays(q)'
  <2>1. DOMAIN q = 0 .. len + 1 /\ q[0] = NewState
    BY <1>1, <1>3, <1>7 DEF Replays
  <2>2. \A i \in 1 .. len + 1 : q[i] = ApplyManagement(q[i - 1], log'[i])
    <3>1. ASSUME NEW i \in 1 .. len PROVE q[i] = ApplyManagement(q[i - 1], log'[i])
      <4>1. i - 1 \in 0 .. len /\ i \in 0 .. len
        BY <1>3
      <4>2. q[i] = r[i] /\ q[i - 1] = r[i - 1] /\ log'[i] = log[i]
        BY <1>3, <1>7, <4>1
      <4>3. QED BY <1>1, <4>2 DEF Replays
    <3>2. q[len + 1] = ApplyManagement(q[(len + 1) - 1], log'[len + 1])
      <4>1. (len + 1) - 1 = len /\ q[len] = r[len]
        BY <1>3, <1>4, <1>7
      <4>2. QED BY <1>3, <1>7, <4>1 DEF last
    <3>3. QED BY <1>3, <3>1, <3>2
  <2>3. \A i \in 0 .. len + 1 : WellFormed(q[i])
    BY <1>1, <1>3, <1>5, <1>7 DEF Replays
  <2>4. ASSUME NEW i \in 0 .. len + 1, NEW j \in 0 .. len + 1, i <= j
        PROVE  q[i].next <= q[j].next
    <3>1. CASE j \in 0 .. len
      <4>1. i \in 0 .. len
        BY <1>3, <2>4, <3>1
      <4>2. QED BY <1>1, <1>7, <2>4, <3>1, <4>1 DEF Replays
    <3>2. CASE j = len + 1 /\ i = len + 1
      BY <1>5, <1>7, <3>2
    <3>3. CASE j = len + 1 /\ i \in 0 .. len
      <4>1. r[i].next <= r[len].next /\ r[i].next \in Nat /\ r[len].next \in Nat
        <5>1. i <= len /\ WellFormed(r[i])
          BY <1>1, <1>3, <3>3 DEF Replays
        <5>2. r[i].next <= r[len].next
          BY <1>1, <1>4, <3>3, <5>1 DEF Replays
        <5>3. QED BY <1>4, <5>1, <5>2 DEF WellFormed
      <4>2. q[i] = r[i] /\ q[j] = last
        BY <1>7, <3>3
      <4>3. QED BY <1>5, <4>1, <4>2
    <3>4. QED BY <1>3, <3>1, <3>2, <3>3
  <2>5. QED BY <1>3, <2>1, <2>2, <2>3, <2>4 DEF Replays
<1>9. AtPoint(q)'
  <2>1. ASSUME NEW n \in Node
        PROVE  sm'[n] = q[applied'[n]] /\ HeardOf(q, n)'
    <3>1. applied[n] \in 0 .. len
      BY <1>3 DEF Types
    <3>2. sm'[n] = sm[n] /\ applied'[n] = applied[n] /\ events'[n] = events[n]
      BY DEF CommitStep
    <3>3. sm[n] = r[applied[n]] /\ HeardOf(r, n)
      BY <1>1 DEF AtPoint
    <3>4. \A i \in 1 .. applied[n] : q[i - 1] = r[i - 1] /\ log'[i] = log[i]
      <4>1. \A i \in 1 .. applied[n] : i - 1 \in 0 .. len /\ i \in 1 .. len
        BY <1>3, <3>1
      <4>2. QED BY <1>3, <1>7, <4>1
    <3>5. HeardOf(q, n)'
      BY <3>2, <3>3, <3>4 DEF HeardOf
    <3>6. QED BY <1>7, <3>1, <3>2, <3>3, <3>5
  <2>2. QED BY <2>1 DEF AtPoint
<1>10. QED BY <1>8, <1>9 DEF History

\* An event is published on one node.
LEMMA Published ==
    ASSUME Types, NEW n \in Node, NEW e \in Event, events' = [events EXCEPT ![n] = Append(@, e)]
    PROVE  /\ Len(events[n]) \in Nat
           /\ DOMAIN events[n] = 1 .. Len(events[n])
           /\ DOMAIN events'[n] = 1 .. Len(events[n]) + 1
           /\ Len(events'[n]) = Len(events[n]) + 1
           /\ events'[n][Len(events[n]) + 1] = e
           /\ \A k \in 1 .. Len(events[n]) : events'[n][k] = events[n][k]
           /\ \A m \in Node \ {n} : events'[m] = events[m]
<1>1. events \in [Node -> Seq(Event)]
  BY DEF Types
<1>2. events[n] \in Seq(Event) /\ events'[n] = Append(events[n], e)
  BY <1>1
<1>3. QED BY <1>1, <1>2

\* What a node that applies a command does to its own state and events.
LEMMA Applied ==
    ASSUME Types, NEW n \in Node, Apply(n)
    PROVE  LET c == log[applied[n] + 1] IN
           /\ applied[n] \in Nat /\ applied[n] + 1 \in 1 .. Len(log) /\ c \in Command
           /\ applied'[n] = applied[n] + 1 /\ sm'[n] = ApplyManagement(sm[n], c)
           /\ \A m \in Node \ {n} : applied'[m] = applied[m] /\ sm'[m] = sm[m]
           /\ UNCHANGED <<log, restored, obs, missed, runtimes, loops, failed, members>>
           /\ \/ events' = events /\ Events(sm[n], c) = <<>>
              \/ \E e \in Event : /\ events' = [events EXCEPT ![n] = Append(@, e)]
                                 /\ Events(sm[n], c) = <<e>>
<1> DEFINE c == log[applied[n] + 1]
<1>1. applied[n] \in Nat /\ applied[n] + 1 \in 1 .. Len(log) /\ Len(log) \in Nat /\ c \in Command
  BY DEF Types, Apply
<1>2. sm' = [sm EXCEPT ![n] = ApplyManagement(@, c)]
      /\ events' = [events EXCEPT ![n] = @ \o Events(sm[n], c)]
      /\ applied' = [applied EXCEPT ![n] = applied[n] + 1]
      /\ UNCHANGED <<log, restored, obs, missed, runtimes, loops, failed, members>>
  BY DEF Apply, raftVars, obsVars, subVars
<1>3. sm = [m \in Node |-> sm[m]] /\ applied \in [Node -> Nat] /\ events \in [Node -> Seq(Event)]
      /\ WellFormed(sm[n])
  BY DEF Types
<1> HIDE DEF c
<1>4. applied'[n] = applied[n] + 1 /\ sm'[n] = ApplyManagement(sm[n], c)
      /\ \A m \in Node \ {n} : applied'[m] = applied[m] /\ sm'[m] = sm[m]
  BY <1>2, <1>3
<1>5. Events(sm[n], c) \in Seq(Event)
  BY <1>1, <1>3, EventsType
<1>6. \/ events' = events /\ Events(sm[n], c) = <<>>
      \/ \E e \in Event : /\ events' = [events EXCEPT ![n] = Append(@, e)]
                         /\ Events(sm[n], c) = <<e>>
  <2>1. CASE Events(sm[n], c) = <<>>
    <3>1. events[n] \o <<>> = events[n]
      BY <1>3, ConcatEmptySeq
    <3>2. events' = [events EXCEPT ![n] = events[n]]
      BY <1>2, <2>1, <3>1
    <3>3. events' = events
      BY <1>3, <3>2
    <3>4. QED BY <2>1, <3>3
  <2>2. ASSUME NEW e, Events(sm[n], c) = <<e>>
        PROVE  e \in Event /\ events' = [events EXCEPT ![n] = Append(@, e)]
    <3>1. e \in Event
      <4>1. <<e>> \in Seq(Event)
        BY <1>5, <2>2
      <4>2. QED BY <4>1
    <3>2. Append(events[n], e) = events[n] \o <<e>>
      BY <1>3, <3>1, AppendIsConcat
    <3>3. QED BY <1>2, <2>2, <3>1, <3>2
  <2>3. Events(sm[n], c) = <<>> \/ \E e : Events(sm[n], c) = <<e>>
    BY <1>1, <1>3, ApplyWellFormed
  <2>4. QED BY <2>1, <2>2, <2>3
<1>7. QED BY <1>1, <1>2, <1>4, <1>6 DEF c

\* The node that applies goes on to the next point of the history.
LEMMA ApplyHistory ==
    ASSUME Types, History, NEW n \in Node, Apply(n)
    PROVE  History'
<1>1. PICK r : Replays(r) /\ AtPoint(r)
  BY DEF History
<1> DEFINE i == applied[n] + 1
           c == log[i]
<1>2. applied[n] \in Nat /\ i \in 1 .. Len(log) /\ c \in Command
      /\ applied'[n] = i /\ sm'[n] = ApplyManagement(sm[n], c)
      /\ (\A m \in Node \ {n} : applied'[m] = applied[m] /\ sm'[m] = sm[m])
      /\ log' = log
  BY Applied
<1>3. \/ events' = events /\ Events(sm[n], c) = <<>>
      \/ \E e \in Event : events' = [events EXCEPT ![n] = Append(@, e)] /\ Events(sm[n], c) = <<e>>
  BY Applied
<1>4. WellFormed(sm[n]) /\ sm[n] = r[i - 1] /\ HeardOf(r, n)
  BY <1>1, <1>2 DEF Types, AtPoint
<1>5. Replays(r)'
  BY <1>1, <1>2 DEF Replays
<1>6. sm'[n] = r[i]
  BY <1>1, <1>2, <1>4 DEF Replays
<1>7. HeardOf(r, n)'
  <2>1. CASE events' = events
    BY <1>2, <1>4, <2>1 DEF HeardOf
  <2>2. ASSUME NEW e \in Event, events' = [events EXCEPT ![n] = Append(@, e)],
               Events(sm[n], c) = <<e>>
        PROVE  HeardOf(r, n)'
    <3>1. e.type = "Created" => c.type = "Create" /\ e = Creation(r[i - 1], c)
      <4>1. CASE c.type = "Create"
        BY <1>2, <1>4, <2>2, <4>1, ApplyWellFormed DEF Creation
      <4>2. CASE c.type # "Create"
        <5>1. e = c
          <6>1. Events(sm[n], c) = <<>> \/ Events(sm[n], c) = <<c>>
            BY <1>2, <1>4, <4>2, ApplyWellFormed
          <6>2. <<e>> # <<>> /\ (<<e>> = <<c>> => e = c)
            OBVIOUS
          <6>3. QED BY <2>2, <6>1, <6>2
        <5>2. QED BY <1>2, <5>1, CommandFields
      <4>3. QED BY <4>1, <4>2
    <3>2. Len(events[n]) \in Nat /\ DOMAIN events[n] = 1 .. Len(events[n])
          /\ DOMAIN events'[n] = 1 .. Len(events[n]) + 1 /\ events'[n][Len(events[n]) + 1] = e
          /\ \A k \in 1 .. Len(events[n]) : events'[n][k] = events[n][k]
      BY <2>2, Published
    <3>3. ASSUME NEW k \in DOMAIN events'[n], events'[n][k].type = "Created"
          PROVE  \E j \in 1 .. i : log[j].type = "Create" /\ events'[n][k] = Creation(r[j - 1], log[j])
      <4>1. CASE k = Len(events[n]) + 1
        BY <1>2, <3>1, <3>2, <3>3, <4>1
      <4>2. CASE k \in 1 .. Len(events[n])
        <5>1. PICK j \in 1 .. applied[n] :
                  log[j].type = "Create" /\ events[n][k] = Creation(r[j - 1], log[j])
          BY <1>4, <3>2, <3>3, <4>2 DEF HeardOf
        <5>2. j \in 1 .. i
          BY <1>2
        <5>3. QED BY <3>2, <4>2, <5>1, <5>2
      <4>3. QED BY <3>2, <3>3, <4>1, <4>2
    <3> HIDE DEF i, c
    <3>4. QED BY <1>2, <3>3 DEF HeardOf
  <2>3. QED BY <1>3, <2>1, <2>2
<1>8. \A m \in Node \ {n} : events'[m] = events[m]
  BY <1>3, Published
<1>9. \A m \in Node \ {n} : sm'[m] = r[applied'[m]] /\ HeardOf(r, m)'
  <2> SUFFICES ASSUME NEW m \in Node \ {n} PROVE sm'[m] = r[applied'[m]] /\ HeardOf(r, m)'
    OBVIOUS
  <2>1. sm'[m] = sm[m] /\ applied'[m] = applied[m] /\ events'[m] = events[m] /\ log' = log
    BY <1>2, <1>8
  <2>2. sm[m] = r[applied[m]] /\ HeardOf(r, m)
    BY <1>1 DEF AtPoint
  <2>3. QED BY <2>1, <2>2 DEF HeardOf
<1> HIDE DEF i, c
<1>10. AtPoint(r)'
  <2>1. sm'[n] = r[applied'[n]]
    BY <1>2, <1>6
  <2>2. QED BY <1>7, <1>9, <2>1 DEF AtPoint
<1>11. QED BY <1>5, <1>10 DEF History

\* A snapshot takes a node to the point of the history where another one is.
LEMMA InstallSnapshotHistory ==
    ASSUME Types, History, NEW n \in Node, NEW m \in Node, InstallSnapshot(n, m)
    PROVE  History'
<1>1. PICK r : Replays(r) /\ AtPoint(r)
  BY DEF History
<1>2. sm' = [sm EXCEPT ![n] = Snapshot(sm[m])] /\ applied' = [applied EXCEPT ![n] = applied[m]]
      /\ UNCHANGED <<log, events>> /\ applied[n] < applied[m]
  BY DEF InstallSnapshot, raftVars
<1>3. sm = [k \in Node |-> sm[k]] /\ applied \in [Node -> Nat] /\ WellFormed(sm[m])
  BY DEF Types
<1>4. Snapshot(sm[m]) = sm[m]
  BY <1>3, SnapshotIsState
<1>5. Replays(r)'
  BY <1>1, <1>2 DEF Replays
<1>6. ASSUME NEW k \in Node PROVE sm'[k] = r[applied'[k]] /\ HeardOf(r, k)'
  <2>1. sm[k] = r[applied[k]] /\ sm[m] = r[applied[m]] /\ HeardOf(r, k)
    BY <1>1 DEF AtPoint
  <2>2. sm'[k] = r[applied'[k]]
    BY <1>2, <1>3, <1>4, <2>1
  <2>3. applied[k] \in Nat /\ applied'[k] \in Nat /\ applied[k] <= applied'[k]
    BY <1>2, <1>3
  <2>4. \A i : i \in 1 .. applied[k] => i \in 1 .. applied'[k]
    BY <2>3
  <2>5. QED BY <1>2, <2>1, <2>2, <2>4 DEF HeardOf
<1>7. QED BY <1>5, <1>6 DEF AtPoint, History

\* The history is the same when log, states and events of creations are.
LEMMA SameHistory ==
    ASSUME Types, History, UNCHANGED <<log, sm, applied>>,
           \/ UNCHANGED events
           \/ \E n \in Node, e \in Event : /\ e.type # "Created"
                                          /\ events' = [events EXCEPT ![n] = Append(@, e)]
    PROVE  History'
<1>1. PICK r : Replays(r) /\ AtPoint(r)
  BY DEF History
<1>2. Replays(r)'
  BY <1>1 DEF Replays
<1>3. CASE UNCHANGED events
  <2>1. AtPoint(r)'
    BY <1>1, <1>3 DEF AtPoint, HeardOf
  <2>2. QED BY <1>2, <2>1 DEF History
<1>4. ASSUME NEW n \in Node, NEW e \in Event, e.type # "Created",
             events' = [events EXCEPT ![n] = Append(@, e)]
      PROVE  History'
  <2>1. Len(events[n]) \in Nat /\ DOMAIN events[n] = 1 .. Len(events[n])
        /\ DOMAIN events'[n] = 1 .. Len(events[n]) + 1 /\ events'[n][Len(events[n]) + 1] = e
        /\ (\A k \in 1 .. Len(events[n]) : events'[n][k] = events[n][k])
        /\ \A m \in Node \ {n} : events'[m] = events[m]
    BY <1>4, Published
  <2>2. ASSUME NEW m \in Node PROVE HeardOf(r, m)'
    <3>1. HeardOf(r, m)
      BY <1>1 DEF AtPoint
    <3>2. CASE m # n
      BY <2>1, <3>1, <3>2 DEF HeardOf
    <3>3. CASE m = n
      <4>1. ASSUME NEW k \in DOMAIN events'[n], events'[n][k].type = "Created"
            PROVE  k \in DOMAIN events[n] /\ events'[n][k] = events[n][k]
        BY <1>4, <2>1, <4>1
      <4>2. QED BY <3>1, <3>3, <4>1 DEF HeardOf
    <3>4. QED BY <3>2, <3>3
  <2>3. AtPoint(r)'
    BY <1>1, <2>2 DEF AtPoint
  <2>4. QED BY <1>2, <2>3 DEF History
<1>5. QED BY <1>3, <1>4

\* Every step keeps the history.
LEMMA NextHistory ==
    ASSUME Types, Types', History, Kinds
    PROVE  History'
<1>1. CASE LocalStep
  BY <1>1, SameHistory DEF LocalStep
<1>2. CASE CommitStep
  BY <1>2, CommitHistory
<1>3. CASE \E n \in Node : Apply(n)
  BY <1>3, ApplyHistory
<1>4. CASE \E n \in Node : Observe(n) \/ Lag(n)
  <2>1. UNCHANGED <<log, sm, applied, events>>
    BY <1>4 DEF Observe, Lag, raftVars, nodeVars
  <2>2. QED BY <2>1, SameHistory
<1>5. CASE \E n, m \in Node : InstallSnapshot(n, m)
  BY <1>5, InstallSnapshotHistory
<1>6. CASE \E m \in Node : DetectFailure(m)
  <2>1. PICK m \in Node : DetectFailure(m)
    BY <1>6
  <2>2. leader \in Node /\ [type |-> "Failed", node |-> m] \in Event
        /\ events' = [events EXCEPT ![leader] = Append(@, [type |-> "Failed", node |-> m])]
        /\ UNCHANGED <<log, sm, applied>>
    BY <2>1, DetectFailureTypes
  <2>3. [type |-> "Failed", node |-> m].type # "Created"
    OBVIOUS
  <2>4. QED BY <2>2, <2>3, SameHistory
<1>7. QED BY <1>1, <1>2, <1>3, <1>4, <1>5, <1>6 DEF Kinds

\* On a history, replicas that have applied the same number of commands agree.
LEMMA HistoryAgrees == History => MetadataAgreement
BY DEF History, AtPoint, MetadataAgreement

\* Replicas that have applied the same commands hold the same state, however
\* far each is behind and whether it replayed the commands or was restored
\* from a snapshot (apply(), snapshot() and restore()).
THEOREM ReplicasOfMetadataAgree == Spec => []MetadataAgreement
<1>1. Init => Types /\ History
  BY InitTypes, InitHistory
<1>2. Types /\ History /\ [Next]_vars => (Types /\ History)'
  BY NextTypes, NextHistory
<1>3. QED BY <1>1, <1>2, HistoryAgrees, PTL DEF Spec

\* After a creation the counter is past its id, at every later point.
LEMMA CreationsPass ==
    ASSUME Types, NEW r, Replays(r), NEW i \in 1 .. Len(log), log[i].type = "Create",
           NEW j \in i .. Len(log)
    PROVE  r[i - 1].next \in Nat /\ r[j].next \in Nat /\ r[i - 1].next < r[j].next
<1>1. Len(log) \in Nat /\ log[i] \in Command
  BY DEF Types
<1>2. i - 1 \in 0 .. Len(log) /\ i \in 0 .. Len(log) /\ j \in 0 .. Len(log) /\ i <= j
  BY <1>1
<1>3. WellFormed(r[i - 1]) /\ WellFormed(r[i]) /\ WellFormed(r[j])
      /\ r[i] = ApplyManagement(r[i - 1], log[i]) /\ r[i].next <= r[j].next
  BY <1>2 DEF Replays
<1>4. r[i].next = r[i - 1].next + 1
  BY <1>1, <1>3, ApplyWellFormed
<1>5. r[i - 1].next \in Nat /\ r[i].next \in Nat /\ r[j].next \in Nat
  BY <1>3 DEF WellFormed
<1>6. QED BY <1>3, <1>4, <1>5

\* The ids of the creations a node has heard of are below its counter.
LEMMA HeardBelow ==
    ASSUME Types, History, NEW n \in Node, NEW k \in DOMAIN events[n],
           events[n][k].type = "Created"
    PROVE  events[n][k].cluster \in Nat /\ sm[n].next \in Nat /\ events[n][k].cluster < sm[n].next
<1>1. PICK r : Replays(r) /\ AtPoint(r)
  BY DEF History
<1>2. PICK i \in 1 .. applied[n] :
          log[i].type = "Create" /\ events[n][k] = Creation(r[i - 1], log[i])
  BY <1>1 DEF AtPoint, HeardOf
<1>3. applied[n] \in Nat /\ Len(log) \in Nat /\ applied[n] <= Len(log)
  BY DEF Types
<1>4. i \in 1 .. Len(log) /\ applied[n] \in i .. Len(log)
  BY <1>3
<1>5. r[i - 1].next \in Nat /\ r[applied[n]].next \in Nat /\ r[i - 1].next < r[applied[n]].next
  BY <1>1, <1>2, <1>4, CreationsPass
<1>6. sm[n] = r[applied[n]]
  BY <1>1 DEF AtPoint
<1>7. QED BY <1>2, <1>5, <1>6 DEF Creation

\* An event with an id above those before it.
LEMMA PublishedGrows ==
    ASSUME Types, IdsGrow, NEW n \in Node, NEW e \in Event,
           events' = [events EXCEPT ![n] = Append(@, e)],
           e.type = "Created" => \A k \in DOMAIN events[n] :
               events[n][k].type = "Created" => events[n][k].cluster < e.cluster
    PROVE  IdsGrow'
<1>1. Len(events[n]) \in Nat /\ DOMAIN events[n] = 1 .. Len(events[n])
      /\ DOMAIN events'[n] = 1 .. Len(events[n]) + 1 /\ events'[n][Len(events[n]) + 1] = e
      /\ (\A k \in 1 .. Len(events[n]) : events'[n][k] = events[n][k])
      /\ \A m \in Node \ {n} : events'[m] = events[m]
  BY Published
<1>2. ASSUME NEW m \in Node, NEW j \in DOMAIN events'[m], NEW k \in DOMAIN events'[m],
             events'[m][j].type = "Created", events'[m][k].type = "Created", j < k
      PROVE  events'[m][j].cluster < events'[m][k].cluster
  <2>1. CASE m # n
    BY <1>1, <1>2, <2>1 DEF IdsGrow
  <2>2. CASE m = n
    <3>1. j \in 1 .. Len(events[n]) /\ j \in DOMAIN events[n] /\ events'[n][j] = events[n][j]
      BY <1>1, <1>2, <2>2
    <3>2. CASE k = Len(events[n]) + 1
      BY <1>1, <1>2, <2>2, <3>1, <3>2
    <3>3. CASE k \in 1 .. Len(events[n])
      BY <1>1, <1>2, <2>2, <3>1, <3>3 DEF IdsGrow
    <3>4. QED BY <1>1, <1>2, <2>2, <3>2, <3>3
  <2>3. QED BY <2>1, <2>2
<1>3. QED BY <1>2 DEF IdsGrow

\* Every step keeps the order of the ids.
LEMMA NextIdsGrow ==
    ASSUME Types, History, IdsGrow, Kinds
    PROVE  IdsGrow'
<1>1. CASE UNCHANGED events
  BY <1>1 DEF IdsGrow
<1>2. ASSUME NEW n \in Node, Apply(n) PROVE IdsGrow'
  <2> DEFINE c == log[applied[n] + 1]
  <2>1. CASE events' = events
    BY <1>1, <2>1
  <2>2. ASSUME NEW e \in Event, events' = [events EXCEPT ![n] = Append(@, e)],
               Events(sm[n], c) = <<e>>
        PROVE  IdsGrow'
    <3>1. c \in Command /\ WellFormed(sm[n])
      BY <1>2, Applied DEF Types
    <3>2. e.type = "Created" => e.cluster = sm[n].next
      <4>1. CASE c.type = "Create"
        BY <2>2, <3>1, <4>1, ApplyWellFormed
      <4>2. CASE c.type # "Create"
        <5>1. Events(sm[n], c) = <<>> \/ Events(sm[n], c) = <<c>>
          BY <3>1, <4>2, ApplyWellFormed
        <5>2. <<e>> # <<>> /\ (<<e>> = <<c>> => e = c)
          OBVIOUS
        <5>3. e = c
          BY <2>2, <5>1, <5>2
        <5>4. QED BY <3>1, <5>3, CommandFields
      <4>3. QED BY <4>1, <4>2
    <3>3. QED BY <2>2, <3>2, HeardBelow, PublishedGrows
  <2>3. QED BY <1>2, <2>1, <2>2, Applied
<1>3. ASSUME NEW m \in Node, DetectFailure(m) PROVE IdsGrow'
  <2>1. leader \in Node /\ [type |-> "Failed", node |-> m] \in Event
        /\ events' = [events EXCEPT ![leader] = Append(@, [type |-> "Failed", node |-> m])]
    BY <1>3, DetectFailureTypes
  <2>2. [type |-> "Failed", node |-> m].type # "Created"
    OBVIOUS
  <2>3. QED BY <2>1, <2>2, PublishedGrows
<1>4. ASSUME NEW n \in Node, NEW m \in Node, Observe(n) \/ Lag(n) \/ InstallSnapshot(n, m)
      PROVE  IdsGrow'
  BY <1>1, <1>4 DEF Observe, Lag, InstallSnapshot, nodeVars
<1>5. QED BY <1>1, <1>2, <1>3, <1>4 DEF Kinds, LocalStep, CommitStep

\* On a history, a creation is known by its id.
LEMMA HistoryNeverReuses == Types /\ History /\ IdsGrow => IdsNeverReused
<1> SUFFICES ASSUME Types, History, IdsGrow,
                    NEW n \in Node, NEW m \in Node,
                    NEW i \in DOMAIN events[n], NEW j \in DOMAIN events[m],
                    events[n][i].type = "Created", events[m][j].type = "Created",
                    events[n][i].cluster = events[m][j].cluster
             PROVE  events[n][i] = events[m][j] /\ (n = m => i = j)
  BY DEF IdsNeverReused
<1>1. PICK r : Replays(r) /\ AtPoint(r)
  BY DEF History
<1>2. PICK a \in 1 .. applied[n] :
          log[a].type = "Create" /\ events[n][i] = Creation(r[a - 1], log[a])
  BY <1>1 DEF AtPoint, HeardOf
<1>3. PICK b \in 1 .. applied[m] :
          log[b].type = "Create" /\ events[m][j] = Creation(r[b - 1], log[b])
  BY <1>1 DEF AtPoint, HeardOf
<1>4. applied[n] \in Nat /\ applied[m] \in Nat /\ Len(log) \in Nat
      /\ applied[n] <= Len(log) /\ applied[m] <= Len(log)
  BY DEF Types
<1>5. a \in 1 .. Len(log) /\ b \in 1 .. Len(log)
  BY <1>4
<1>6. r[a - 1].next = r[b - 1].next
  BY <1>2, <1>3 DEF Creation
<1>7. ~ (a < b)
  <2>1. ASSUME a < b PROVE FALSE
    <3>1. b - 1 \in a .. Len(log)
      BY <1>4, <1>5, <2>1
    <3>2. QED BY <1>1, <1>2, <1>5, <1>6, <3>1, CreationsPass
  <2>2. QED BY <2>1
<1>8. ~ (b < a)
  <2>1. ASSUME b < a PROVE FALSE
    <3>1. a - 1 \in b .. Len(log)
      BY <1>4, <1>5, <2>1
    <3>2. QED BY <1>1, <1>3, <1>5, <1>6, <3>1, CreationsPass
  <2>2. QED BY <2>1
<1>9. a = b
  BY <1>5, <1>7, <1>8
<1>10. ASSUME n = m, i # j PROVE FALSE
  <2>1. events[n] \in Seq(Event) /\ i \in Nat /\ j \in Nat
    BY <1>10 DEF Types
  <2>2. i < j \/ j < i
    BY <1>10, <2>1
  <2>3. events[n][i].cluster \in Nat
    BY HeardBelow
  <2>4. QED BY <1>10, <2>2, <2>3 DEF IdsGrow
<1>11. QED BY <1>2, <1>3, <1>9, <1>10

\* An id stands for one sub-cluster for good: no two creations, seen on any
\* two nodes, are given the same id, whatever was deleted, replayed or restored
\* in between (the counter next_cluster_id and its place in the snapshot).
THEOREM IdsAreNeverReused == Spec => []IdsNeverReused
<1>1. Init => Types /\ History /\ IdsGrow
  <2>1. Init => IdsGrow
    BY DEF Init, IdsGrow
  <2>2. QED BY <2>1, InitTypes, InitHistory
<1>2. Types /\ History /\ IdsGrow /\ [Next]_vars => (Types /\ History /\ IdsGrow)'
  BY NextTypes, NextHistory, NextIdsGrow
<1>3. QED BY <1>1, <1>2, HistoryNeverReuses, PTL DEF Spec

-----------------------------------------------------------------------------
(* The runtimes of a node follow its state machine. *)

\* A command moves a node in or out of a sub-cluster exactly when its event
\* bears on the two.
LEMMA ApplyBears ==
    ASSUME NEW s, WellFormed(s), NEW cmd \in Command, NEW c, NEW n
    PROVE  LET t == ApplyManagement(s, cmd) IN
           /\ Events(s, cmd) = <<>> => (Member(t, c, n) <=> Member(s, c, n))
           /\ \A e : Events(s, cmd) = <<e>> =>
                  /\ Bears(e, c, n) => (e.type \in {"Created", "Add"} <=> Member(t, c, n))
                  /\ ~Bears(e, c, n) => (Member(t, c, n) <=> Member(s, c, n))
<1> DEFINE t == ApplyManagement(s, cmd)
<1>1. \A e, x : <<e>> # <<>> /\ (<<x>> = <<e>> => x = e)
  OBVIOUS
<1>2. CASE ~Succeeds(s, cmd)
  <2>1. t = s /\ Events(s, cmd) = <<>>
    BY <1>2, ApplyFailed
  <2>2. QED BY <1>1, <2>1
<1>3. CASE cmd.type = "Create"
  <2> DEFINE x == [type |-> "Created", cluster |-> s.next, nodes |-> cmd.nodes]
  <2>1. Events(s, cmd) = <<x>>
        /\ (Member(t, c, n) <=> IF c = s.next THEN n \in Range(cmd.nodes) ELSE Member(s, c, n))
    BY <1>3, ApplyCreateProperties
  <2>2. ~Member(s, s.next, n)
    BY DEF Member, WellFormed
  <2>3. Bears(x, c, n) <=> c = s.next /\ n \in Range(cmd.nodes)
    BY DEF Bears
  <2>4. x.type = "Created"
    OBVIOUS
  <2> HIDE DEF x, t
  <2>5. QED BY <1>1, <2>1, <2>2, <2>3, <2>4 DEF t
<1>4. CASE cmd.type = "Delete"
  <2>1. Events(s, cmd) = <<cmd>> /\ (Member(t, c, n) <=> c # cmd.cluster /\ Member(s, c, n))
    BY <1>4, ApplyDeleteProperties
  <2>2. Bears(cmd, c, n) <=> c = cmd.cluster
    BY <1>4 DEF Bears
  <2> HIDE DEF t
  <2>3. QED BY <1>1, <1>4, <2>1, <2>2 DEF t
<1>5. CASE cmd.type = "Register"
  <2>1. Events(s, cmd) = <<>> /\ (Member(t, c, n) <=> Member(s, c, n))
    BY <1>5, ApplyRegisterProperties
  <2>2. QED BY <1>1, <2>1
<1>6. CASE cmd.type = "Add" /\ Succeeds(s, cmd)
  <2>1. Events(s, cmd) = <<cmd>>
        /\ (Member(t, c, n) <=> Member(s, c, n) \/ (c = cmd.cluster /\ n = cmd.node))
    BY <1>6, ApplyAddProperties
  <2>2. Bears(cmd, c, n) <=> c = cmd.cluster /\ n = cmd.node
    BY <1>6 DEF Bears
  <2> HIDE DEF t
  <2>3. QED BY <1>1, <1>6, <2>1, <2>2 DEF t
<1>7. CASE cmd.type = "Remove" /\ Succeeds(s, cmd)
  <2>1. Events(s, cmd) = <<cmd>>
        /\ (Member(t, c, n) <=> Member(s, c, n) /\ ~ (c = cmd.cluster /\ n = cmd.node))
    BY <1>7, ApplyRemoveProperties
  <2>2. Bears(cmd, c, n) <=> c = cmd.cluster /\ n = cmd.node
    BY <1>7 DEF Bears
  <2> HIDE DEF t
  <2>3. QED BY <1>1, <1>7, <2>1, <2>2 DEF t
<1>8. CASE cmd.type = "Metadata" /\ Succeeds(s, cmd)
  <2>1. Events(s, cmd) = <<cmd>> /\ (Member(t, c, n) <=> Member(s, c, n))
    BY <1>8, ApplyMetadataProperties
  <2>2. ~Bears(cmd, c, n)
    BY <1>8 DEF Bears
  <2> HIDE DEF t
  <2>3. QED BY <1>1, <2>1, <2>2 DEF t
<1>9. QED BY <1>2, <1>3, <1>4, <1>5, <1>6, <1>7, <1>8, CommandFields

\* A node that publishes nothing and observes nothing.
LEMMA FollowsSame ==
    ASSUME NEW n, NEW c, Follows(c, n),
           events'[n] = events[n], obs'[n] = obs[n], runtimes'[n] = runtimes[n],
           failed'[n] = failed[n],
           Member(sm'[n], c, n) <=> Member(sm[n], c, n)
    PROVE  Follows(c, n)'
<1>1. Pending(c, n)' = Pending(c, n)
  BY DEF Pending
<1>2. QED BY <1>1 DEF Follows

\* A node publishes an event and observes nothing.
LEMMA FollowsPublished ==
    ASSUME Types, NEW n \in Node, NEW c, Follows(c, n), NEW e \in Event,
           events' = [events EXCEPT ![n] = Append(@, e)], UNCHANGED <<obs, runtimes, failed>>,
           Bears(e, c, n) => (e.type \in {"Created", "Add"} <=> Member(sm'[n], c, n)),
           ~Bears(e, c, n) => (Member(sm'[n], c, n) <=> Member(sm[n], c, n))
    PROVE  Follows(c, n)'
<1> DEFINE last == Len(events[n]) + 1
<1>1. Len(events[n]) \in Nat /\ Len(events'[n]) = last /\ events'[n][last] = e
      /\ \A k \in 1 .. Len(events[n]) : events'[n][k] = events[n][k]
  BY Published
<1>2. obs[n] \in Nat /\ obs[n] <= Len(events[n])
  BY DEF Types
<1>3. \A k \in obs[n] + 1 .. Len(events[n]) : events'[n][k] = events[n][k] /\ k < last
  BY <1>1, <1>2
<1>4. Pending(c, n)' = Pending(c, n) \cup (IF Bears(e, c, n) THEN {last} ELSE {})
  <2>1. obs[n] + 1 .. last = (obs[n] + 1 .. Len(events[n])) \cup {last}
    BY <1>1, <1>2
  <2>2. Pending(c, n)' = {i \in obs[n] + 1 .. last : Bears(events'[n][i], c, n)}
    BY <1>1 DEF Pending
  <2> HIDE DEF last
  <2>3. QED BY <1>1, <1>3, <2>1, <2>2, ZenonT(30) DEF Pending
<1>5. CASE Bears(e, c, n)
  <2>1. last \in Pending(c, n)' /\ \A i \in Pending(c, n)' : i = last \/ i < last
    BY <1>3, <1>4, <1>5 DEF Pending
  <2>2. ASSUME NEW i \in Pending(c, n)', \A j \in Pending(c, n)' : j <= i
        PROVE  events'[n][i].type \in {"Created", "Add"} <=> Member(sm'[n], c, n)
    <3>1. i = last
      <4>1. last <= i /\ i \in Nat /\ last \in Nat
        BY <1>1, <1>2, <2>1, <2>2 DEF Pending
      <4>2. QED BY <2>1, <4>1
    <3>2. QED BY <1>1, <1>5, <3>1
  <2>3. QED BY <2>1, <2>2 DEF Follows
<1>6. CASE ~Bears(e, c, n)
  <2>1. Pending(c, n)' = Pending(c, n)
    BY <1>4, <1>6
  <2>2. \A i \in Pending(c, n) : events'[n][i] = events[n][i]
    BY <1>3 DEF Pending
  <2>3. QED BY <1>6, <2>1, <2>2 DEF Follows
<1>7. QED BY <1>5, <1>6

\* What the observer does to the map of runtimes for an event, by whether it
\* bears on sub-cluster c.
LEMMA ObservedRuntimes ==
    ASSUME Types, NEW n \in Node, Observe(n), NEW c \in Nat
    PROVE  LET e == events[n][obs[n] + 1] IN
           /\ e \in Event
           /\ ~Bears(e, c, n) => /\ c \in runtimes'[n] <=> c \in runtimes[n]
                                 /\ c \in failed'[n] <=> c \in failed[n]
           /\ Bears(e, c, n) =>
                  /\ e.type \in {"Created", "Add"} =>
                         c \in runtimes'[n] \cup failed'[n] \/ ~Member(sm[n], c, n)
                  /\ e.type \in {"Remove", "Delete"} => c \notin runtimes'[n]
                  /\ e.type \in {"Created", "Add", "Remove", "Delete"}
           /\ \A m \in Node \ {n} : runtimes'[m] = runtimes[m] /\ failed'[m] = failed[m]
<1>1. obs[n] \in Nat /\ obs[n] + 1 \in 1 .. Len(events[n]) /\ events[n] \in Seq(Event)
      /\ runtimes \in [Node -> SUBSET Nat] /\ failed \in [Node -> SUBSET Nat]
  BY DEF Types, Observe
<1>2. PICK e \in Event : e = events[n][obs[n] + 1]
  BY <1>1
<1>3. ASSUME NEW ids, StartRaftNode(n, e.cluster, ids)
      PROVE  /\ e.cluster \in runtimes'[n] \cup failed'[n]
             /\ c # e.cluster => /\ c \in runtimes'[n] <=> c \in runtimes[n]
                                 /\ c \in failed'[n] <=> c \in failed[n]
             /\ \A m \in Node \ {n} : runtimes'[m] = runtimes[m] /\ failed'[m] = failed[m]
  BY <1>1, <1>3 DEF StartRaftNode, SetRuntimes
<1>4. CASE e.type = "Created" /\ OnCreated(n, e)
  <2>1. CASE n \in Range(e.nodes)
    BY <1>2, <1>3, <1>4, <2>1 DEF OnCreated, Bears
  <2>2. CASE n \notin Range(e.nodes)
    BY <1>2, <1>4, <2>2 DEF OnCreated, Bears, subVars
  <2>3. QED BY <2>1, <2>2
<1>5. CASE e.type = "Add" /\ OnNodeAdded(n, e)
  <2>1. CASE e.cluster \in runtimes[n]
    BY <1>2, <1>5, <2>1 DEF OnNodeAdded, Bears
  <2>2. CASE e.cluster \notin runtimes[n] /\ e.node = n /\ e.cluster \in DOMAIN sm[n].clusters
    BY <1>2, <1>3, <1>5, <2>2 DEF OnNodeAdded, Bears
  <2>3. CASE e.cluster \notin runtimes[n] /\ ~ (e.node = n /\ e.cluster \in DOMAIN sm[n].clusters)
    BY <1>2, <1>5, <2>3 DEF OnNodeAdded, Bears, subVars, Member
  <2>4. QED BY <2>1, <2>2, <2>3
<1>6. CASE e.type = "Remove" /\ OnNodeRemoved(n, e)
  BY <1>1, <1>2, <1>6 DEF OnNodeRemoved, SetRuntimes, Bears
<1>7. CASE e.type = "Delete" /\ OnDeleted(n, e)
  BY <1>1, <1>2, <1>7 DEF OnDeleted, SetRuntimes, Bears
<1>8. CASE e.type \in {"Failed", "Metadata"} /\ UNCHANGED <<runtimes, failed>>
  BY <1>1, <1>2, <1>8 DEF Bears
<1>9. QED BY <1>2, <1>4, <1>5, <1>6, <1>7, <1>8 DEF Observe, OnFailed, subVars

\* The observer handles an event.
LEMMA ObserveFollows ==
    ASSUME Types, NEW n \in Node, Observe(n), NEW c \in Nat, Follows(c, n)
    PROVE  Follows(c, n)'
<1> DEFINE k == obs[n] + 1
<1>1. PICK e \in Event : e = events[n][k]
  BY ObservedRuntimes
<1>2. obs[n] \in Nat /\ k \in 1 .. Len(events[n]) /\ Len(events[n]) \in Nat /\ obs'[n] = k
      /\ UNCHANGED <<sm, events>>
  BY DEF Types, Observe, nodeVars
<1>3. Pending(c, n)' = {i \in k + 1 .. Len(events[n]) : Bears(events[n][i], c, n)}
  BY <1>2 DEF Pending
<1>4. (obs[n] + 1 .. Len(events[n])) = (k + 1 .. Len(events[n])) \cup {k}
  BY <1>2
<1>5. Pending(c, n) = Pending(c, n)' \cup (IF Bears(e, c, n) THEN {k} ELSE {})
  BY <1>1, <1>3, <1>4 DEF Pending
<1>6. \A i \in Pending(c, n)' : k < i
  BY <1>2, <1>3
<1>7. ASSUME NEW i \in Pending(c, n)', \A j \in Pending(c, n)' : j <= i
      PROVE  events'[n][i].type \in {"Created", "Add"} <=> Member(sm'[n], c, n)
  <2>1. i \in Pending(c, n)
    BY <1>5
  <2>2. \A j \in Pending(c, n) : j <= i
    <3>1. k <= i
      BY <1>2, <1>3, <1>6
    <3>2. QED BY <1>5, <1>7, <3>1
  <2>3. QED BY <1>2, <2>1, <2>2 DEF Follows
<1>8. ASSUME Pending(c, n)' = {}
      PROVE  /\ c \in runtimes'[n] => Member(sm'[n], c, n)
             /\ Member(sm'[n], c, n) => c \in runtimes'[n] \/ c \in failed'[n]
  <2>1. CASE Bears(e, c, n)
    <3>1. Pending(c, n) = {k}
      BY <1>5, <1>8, <2>1
    <3>2. e.type \in {"Created", "Add"} <=> Member(sm[n], c, n)
      <4>1. k <= k
        BY <1>2
      <4>2. QED BY <1>1, <3>1, <4>1 DEF Follows
    <3>3. e.type \in {"Created", "Add", "Remove", "Delete"}
          /\ (e.type \in {"Created", "Add"} => c \in runtimes'[n] \cup failed'[n] \/ ~Member(sm[n], c, n))
          /\ (e.type \in {"Remove", "Delete"} => c \notin runtimes'[n])
      BY <1>1, <2>1, ObservedRuntimes
    <3>4. QED BY <1>2, <3>2, <3>3
  <2>2. CASE ~Bears(e, c, n)
    <3>1. Pending(c, n) = {}
      BY <1>5, <1>8, <2>2
    <3>2. (c \in runtimes'[n] <=> c \in runtimes[n]) /\ (c \in failed'[n] <=> c \in failed[n])
      BY <1>1, <2>2, ObservedRuntimes
    <3>3. QED BY <1>2, <3>1, <3>2 DEF Follows
  <2>3. QED BY <2>1, <2>2
<1>9. QED BY <1>7, <1>8 DEF Follows

\* Every step keeps the runtimes on the way to what the state says.
LEMMA NextRuntimesFollow ==
    ASSUME Types, RuntimesFollow, Kinds
    PROVE  RuntimesFollow'
<1>1. ASSUME UNCHANGED <<sm, events, obs, runtimes, failed, restored, missed>> PROVE RuntimesFollow'
  <2>1. ASSUME NEW m \in Node \ (restored \cup missed), NEW c \in Nat PROVE Follows(c, m)'
    BY <1>1, <2>1, FollowsSame DEF RuntimesFollow
  <2>2. QED BY <1>1, <2>1 DEF RuntimesFollow
<1>2. ASSUME NEW n \in Node, Apply(n) PROVE RuntimesFollow'
  <2> DEFINE cmd == log[applied[n] + 1]
  <2>1. cmd \in Command /\ sm'[n] = ApplyManagement(sm[n], cmd)
        /\ (\A m \in Node \ {n} : sm'[m] = sm[m])
        /\ UNCHANGED <<restored, missed, obs, runtimes, failed>>
    BY <1>2, Applied
  <2>2. \/ events' = events /\ Events(sm[n], cmd) = <<>>
        \/ \E e \in Event : /\ events' = [events EXCEPT ![n] = Append(@, e)]
                           /\ Events(sm[n], cmd) = <<e>>
    BY <1>2, Applied
  <2> HIDE DEF cmd
  <2>3. WellFormed(sm[n])
    BY DEF Types
  <2>4. ASSUME NEW m \in Node \ (restored \cup missed), NEW c \in Nat PROVE Follows(c, m)'
    <3>0. Follows(c, m)
      BY DEF RuntimesFollow
    <3>1. CASE m # n
      <4>1. events'[m] = events[m]
        BY <2>2, <3>1, Published
      <4>2. QED BY <2>1, <3>0, <3>1, <4>1, FollowsSame
    <3>2. CASE m = n /\ events' = events /\ Events(sm[n], cmd) = <<>>
      <4>1. Member(sm'[n], c, n) <=> Member(sm[n], c, n)
        BY <2>1, <2>3, <3>2, ApplyBears
      <4>2. QED BY <2>1, <3>0, <3>2, <4>1, FollowsSame
    <3>3. ASSUME m = n, NEW e \in Event, events' = [events EXCEPT ![n] = Append(@, e)],
                 Events(sm[n], cmd) = <<e>>
          PROVE  Follows(c, m)'
      <4>1. /\ Bears(e, c, n) => (e.type \in {"Created", "Add"} <=> Member(sm'[n], c, n))
            /\ ~Bears(e, c, n) => (Member(sm'[n], c, n) <=> Member(sm[n], c, n))
        BY <2>1, <2>3, <3>3, ApplyBears
      <4>2. QED BY <2>1, <3>0, <3>3, <4>1, FollowsPublished
    <3>4. QED BY <2>2, <3>1, <3>2, <3>3
  <2>5. QED BY <2>1, <2>4 DEF RuntimesFollow
<1>3. ASSUME NEW n \in Node, Observe(n) PROVE RuntimesFollow'
  <2>1. UNCHANGED <<sm, events, restored, missed>> /\ \A m \in Node \ {n} : obs'[m] = obs[m]
    BY <1>3 DEF Observe, nodeVars, Types
  <2>2. ASSUME NEW m \in Node \ (restored \cup missed), NEW c \in Nat PROVE Follows(c, m)'
    <3>0. Follows(c, m)
      BY DEF RuntimesFollow
    <3>1. CASE m = n
      BY <1>3, <3>0, <3>1, ObserveFollows
    <3>2. CASE m # n
      <4>1. runtimes'[m] = runtimes[m] /\ failed'[m] = failed[m]
        BY <1>3, <3>2, ObservedRuntimes
      <4>2. QED BY <2>1, <3>0, <3>2, <4>1, FollowsSame
    <3>3. QED BY <3>1, <3>2
  <2>3. QED BY <2>1, <2>2 DEF RuntimesFollow
<1>4. ASSUME NEW n \in Node, NEW k \in Node, InstallSnapshot(n, k) PROVE RuntimesFollow'
  <2>1. UNCHANGED <<events, obs, missed, runtimes, failed>> /\ restored' = restored \cup {n}
        /\ \A m \in Node \ {n} : sm'[m] = sm[m]
    BY <1>4 DEF InstallSnapshot, obsVars, subVars, Types
  <2>2. ASSUME NEW m \in Node \ (restored' \cup missed'), NEW c \in Nat PROVE Follows(c, m)'
    <3>1. m \in Node \ (restored \cup missed) /\ m # n
      BY <2>1
    <3>2. QED BY <2>1, <3>1, FollowsSame DEF RuntimesFollow
  <2>3. QED BY <2>2 DEF RuntimesFollow
<1>5. ASSUME NEW k \in Node, DetectFailure(k) PROVE RuntimesFollow'
  <2> DEFINE e == [type |-> "Failed", node |-> k]
  <2>1. leader \in Node /\ e \in Event /\ events' = [events EXCEPT ![leader] = Append(@, e)]
        /\ UNCHANGED <<sm, restored, missed, obs, runtimes, failed>>
    BY <1>5, DetectFailureTypes
  <2>2. \A c, m : ~Bears(e, c, m)
    BY DEF Bears
  <2> HIDE DEF e
  <2>3. ASSUME NEW m \in Node \ (restored \cup missed), NEW c \in Nat PROVE Follows(c, m)'
    <3>0. Follows(c, m)
      BY DEF RuntimesFollow
    <3>1. CASE m = leader
      BY <2>1, <2>2, <3>0, <3>1, FollowsPublished
    <3>2. CASE m # leader
      <4>1. events'[m] = events[m]
        BY <2>1, <3>2, Published
      <4>2. QED BY <2>1, <3>0, <4>1, FollowsSame
    <3>3. QED BY <3>1, <3>2
  <2>4. QED BY <2>1, <2>3 DEF RuntimesFollow
<1>6. ASSUME NEW n \in Node, Lag(n) PROVE RuntimesFollow'
  <2>1. /\ UNCHANGED <<sm, events, restored, runtimes, failed>> /\ missed' = missed \cup {n}
        /\ \A m \in Node \ {n} : obs'[m] = obs[m]
    BY <1>6 DEF Lag, nodeVars, subVars, Types
  <2>2. ASSUME NEW m \in Node \ (restored' \cup missed'), NEW c \in Nat PROVE Follows(c, m)'
    <3>1. m \in Node \ (restored \cup missed) /\ m # n
      BY <2>1
    <3>2. QED BY <2>1, <3>1, FollowsSame DEF RuntimesFollow
  <2>3. QED BY <2>2 DEF RuntimesFollow
<1>7. QED BY <1>1, <1>2, <1>3, <1>4, <1>5, <1>6 DEF Kinds, LocalStep, CommitStep

\* An observer that has caught up has no event pending.
LEMMA FollowMetadata == Types /\ RuntimesFollow => RuntimesFollowMetadata
<1> SUFFICES ASSUME Types, RuntimesFollow, NEW n \in Node \ (restored \cup missed),
                    obs[n] = Len(events[n])
             PROVE  runtimes[n] \subseteq MemberOf(n) /\ MemberOf(n) \ failed[n] \subseteq runtimes[n]
  BY DEF RuntimesFollowMetadata
<1>1. obs[n] \in Nat /\ runtimes[n] \in SUBSET Nat /\ WellFormed(sm[n])
  BY DEF Types
<1>2. \A c : Pending(c, n) = {}
  BY <1>1 DEF Pending
<1>3. \A c \in Nat : /\ c \in runtimes[n] => Member(sm[n], c, n)
                     /\ Member(sm[n], c, n) => c \in runtimes[n] \/ c \in failed[n]
  BY <1>2 DEF RuntimesFollow, Follows
<1>4. \A c : Member(sm[n], c, n) <=> c \in MemberOf(n)
  BY DEF Member, MemberOf, Known
<1>5. MemberOf(n) \subseteq Nat
  BY <1>1 DEF MemberOf, Known, WellFormed
<1>6. QED BY <1>1, <1>3, <1>4, <1>5

\* A node whose observer has caught up runs only sub-clusters its state machine
\* puts it in, and all of them but those whose Raft node could not be created
\* when it was last told to, whatever was created, deleted, split, drained,
\* added and removed in between and in whatever order the events were handled
\* relative to the commands (run_event_observer and apply()); a node restored
\* from a snapshot, or whose observer lagged, was not told of everything and is
\* left out.
THEOREM RuntimesAreTheMetadatas == Spec => []RuntimesFollowMetadata
<1>1. Init => Types /\ RuntimesFollow
  <2>1. ASSUME Init, NEW n \in Node, NEW c \in Nat PROVE Follows(c, n)
    <3>1. Pending(c, n) = {}
      BY <2>1 DEF Pending, Init
    <3>2. c \notin runtimes[n] /\ ~Member(sm[n], c, n)
      BY <2>1 DEF Init, Member, NewState
    <3>3. QED BY <3>1, <3>2 DEF Follows
  <2>2. Init => RuntimesFollow
    BY <2>1 DEF RuntimesFollow
  <2>3. QED BY <2>2, InitTypes
<1>2. Types /\ RuntimesFollow /\ [Next]_vars => (Types /\ RuntimesFollow)'
  BY NextTypes, NextRuntimesFollow
<1>3. QED BY <1>1, <1>2, FollowMetadata, PTL DEF Spec

-----------------------------------------------------------------------------
(* A second Raft group of a sub-cluster needs a founder that was removed. *)

\* The event puts node n in sub-cluster c.
Joins(e, c, n) == e.type \in {"Created", "Add"} /\ Bears(e, c, n)

\* No command removes node n from c.
Kept(c, n) == \A i \in DOMAIN log : log[i] # RemoveNode(c, n)

\* What event e may be, told to node n in state s after it joined c.
Behind(e, c, s) ==
    /\ e.type = "Created" => e.cluster # c
    /\ e.type = "Delete" /\ e.cluster = c => c \notin DOMAIN s.clusters

\* A removal a node is told of was commanded, and what it joins was created;
\* behind having joined a sub-cluster it is not told of its creation, and told
\* of its deletion only when it is gone.
Told(n, k) ==
    /\ events[n][k].type = "Remove" => \E i \in DOMAIN log : log[i] = events[n][k]
    /\ \A c \in Nat : Joins(events[n][k], c, n) => c < sm[n].next
    /\ \A l \in DOMAIN events[n], c \in Nat :
           l < k /\ Joins(events[n][l], c, n) => Behind(events[n][k], c, sm[n])

InOrder == \A n \in Node : \A k \in DOMAIN events[n] : Told(n, k)

\* Node n was named first when c was created; or was all of c at some time.
NamedFirst(r, c, n) ==
    \E i \in 1 .. Len(log) : /\ log[i].type = "Create" /\ r[i - 1].next = c
                             /\ log[i].nodes # <<>> /\ Head(log[i].nodes) = n

Alone(r, c, n) ==
    \E i \in 0 .. Len(log) : c \in DOMAIN r[i].clusters /\ Range(r[i].clusters[c].nodes) = {n}

Founding == {v[1] : v \in members}

Rooted(r) ==
    \A g \in Founding : NamedFirst(r, g.cluster, g.founder) \/ Alone(r, g.cluster, g.founder)

\* A founder that is never removed runs the sub-cluster until it is gone, and
\* founds it once.
Stands(g) ==
    /\ g.since \in 1 .. obs[g.founder]
    /\ Joins(events[g.founder][g.since], g.cluster, g.founder)
    /\ Kept(g.cluster, g.founder) =>
           /\ \/ g.cluster \in runtimes[g.founder]
              \/ g.cluster \notin DOMAIN sm[g.founder].clusters
           /\ \A h \in Founding : h.cluster = g.cluster /\ h.founder = g.founder => h = g

Lineage ==
    /\ InOrder
    /\ \A g \in Founding : Stands(g)
    /\ \A r : Replays(r) => Rooted(r)

\* The sub-clusters there are after a command.
LEMMA ApplyDomain ==
    ASSUME NEW s, WellFormed(s), NEW c \in Command
    PROVE  DOMAIN ApplyManagement(s, c).clusters =
               CASE c.type = "Create" -> DOMAIN s.clusters \cup {s.next}
                 [] c.type = "Delete" -> DOMAIN s.clusters \ {c.cluster}
                 [] OTHER -> DOMAIN s.clusters
<1> DEFINE t == ApplyManagement(s, c)
<1>0. s = [clusters |-> s.clusters, next |-> s.next, addresses |-> s.addresses]
  BY DEF WellFormed, Snapshot
<1>1. ASSUME NEW d, NEW sub
      PROVE  /\ DOMAIN With(s, d, sub).clusters = DOMAIN s.clusters \cup {d}
             /\ With(s, d, sub) = [clusters |-> With(s, d, sub).clusters,
                                   next |-> s.next, addresses |-> s.addresses]
  <2> DEFINE k == [e \in DOMAIN s.clusters \cup {d} |-> IF e = d THEN sub ELSE s.clusters[e]]
  <2>1. With(s, d, sub) = [clusters |-> k, next |-> s.next, addresses |-> s.addresses]
    BY <1>0 DEF With
  <2>2. DOMAIN k = DOMAIN s.clusters \cup {d}
    OBVIOUS
  <2> HIDE DEF k
  <2>3. QED BY <2>1, <2>2
<1>2. CASE ~Succeeds(s, c)
  <2>1. t = s /\ c.type \notin {"Create", "Delete"}
    BY <1>2, ApplyFailed DEF Succeeds
  <2>2. QED BY <2>1
<1>3. CASE c.type = "Create"
  <2> DEFINE u == With(s, s.next, [nodes |-> c.nodes, draining |-> None])
  <2>1. t = [u EXCEPT !.next = @ + 1]
    BY <1>3 DEF ApplyManagement, Succeeds, ApplyCreate
  <2>2. /\ DOMAIN u.clusters = DOMAIN s.clusters \cup {s.next}
        /\ u = [clusters |-> u.clusters, next |-> s.next, addresses |-> s.addresses]
    BY <1>1
  <2> HIDE DEF u
  <2>3. t.clusters = u.clusters
    BY <2>1, <2>2
  <2>4. QED BY <1>3, <2>2, <2>3
<1>4. CASE c.type = "Delete"
  <2>1. t = Without(s, c.cluster)
    BY <1>4 DEF ApplyManagement, Succeeds
  <2>2. t.clusters = [d \in DOMAIN s.clusters \ {c.cluster} |-> s.clusters[d]]
    BY <1>0, <2>1 DEF Without
  <2>3. QED BY <1>4, <2>2
<1>5. CASE c.type = "Register"
  <2>1. t = [s EXCEPT !.addresses = @ \cup {c.node}]
    BY <1>5 DEF ApplyManagement, Succeeds
  <2>2. t.clusters = s.clusters
    BY <1>0, <2>1
  <2>3. QED BY <1>5, <2>2
<1>6. CASE Succeeds(s, c) /\ c.type \in {"Add", "Remove", "Metadata"}
  <2>1. c.cluster \in DOMAIN s.clusters
    BY <1>6 DEF Succeeds
  <2>2. t = s \/ \E sub : t = With(s, c.cluster, sub)
    BY <1>6 DEF ApplyManagement, ApplyAdd, ApplyRemove, ApplyMetadata
  <2>3. ASSUME NEW sub, t = With(s, c.cluster, sub) PROVE DOMAIN t.clusters = DOMAIN s.clusters
    <3>1. DOMAIN With(s, c.cluster, sub).clusters = DOMAIN s.clusters \cup {c.cluster}
      BY <1>1
    <3>2. QED BY <2>1, <2>3, <3>1
  <2> HIDE DEF t
  <2>4. DOMAIN t.clusters = DOMAIN s.clusters
    BY <2>2, <2>3
  <2>5. QED BY <1>6, <2>4 DEF t
<1>7. QED BY <1>2, <1>3, <1>4, <1>5, <1>6, CommandFields

\* An id that was given out and deleted does not come back, and a member that
\* is not removed stays while the sub-cluster does.
LEMMA OneCommandMore ==
    ASSUME NEW s, WellFormed(s), NEW cmd \in Command, NEW c \in Nat, NEW x
    PROVE  LET t == ApplyManagement(s, cmd) IN
           /\ c < s.next /\ c \notin DOMAIN s.clusters => c \notin DOMAIN t.clusters
           /\ Member(s, c, x) /\ cmd # RemoveNode(c, x) =>
                  Member(t, c, x) \/ c \notin DOMAIN t.clusters
<1> DEFINE t == ApplyManagement(s, cmd)
<1>1. s.next \in Nat
  BY DEF WellFormed
<1>2. c < s.next /\ c \notin DOMAIN s.clusters => c \notin DOMAIN t.clusters
  <2>1. DOMAIN t.clusters \subseteq DOMAIN s.clusters \cup {s.next}
    <3>1. CASE cmd.type = "Create"
      BY <3>1, ApplyDomain
    <3>2. CASE cmd.type = "Delete"
      BY <3>2, ApplyDomain
    <3>3. CASE cmd.type \notin {"Create", "Delete"}
      BY <3>3, ApplyDomain
    <3>4. QED BY <3>1, <3>2, <3>3
  <2> HIDE DEF t
  <2>2. QED BY <1>1, <2>1
<1>3. ASSUME Member(s, c, x), cmd # RemoveNode(c, x), ~Member(t, c, x)
      PROVE  c \notin DOMAIN t.clusters
  <2>1. CASE ~Succeeds(s, cmd)
    BY <1>3, <2>1, ApplyFailed
  <2>2. CASE cmd.type = "Create"
    <3>1. c # s.next
      BY <1>3 DEF Member, WellFormed
    <3>2. QED BY <1>3, <2>2, <3>1, ApplyCreateProperties
  <2>3. CASE cmd.type = "Delete"
    <3>1. c = cmd.cluster
      BY <1>3, <2>3, ApplyDeleteProperties
    <3>2. QED BY <2>3, <3>1, ApplyDomain
  <2>4. CASE cmd.type = "Register"
    BY <1>3, <2>4, ApplyRegisterProperties
  <2>5. CASE cmd.type = "Add" /\ Succeeds(s, cmd)
    BY <1>3, <2>5, ApplyAddProperties
  <2>6. CASE cmd.type = "Metadata" /\ Succeeds(s, cmd)
    BY <1>3, <2>6, ApplyMetadataProperties
  <2>7. CASE cmd.type = "Remove" /\ Succeeds(s, cmd)
    <3>1. c = cmd.cluster /\ x = cmd.node
      BY <1>3, <2>7, ApplyRemoveProperties
    <3>2. cmd = RemoveNode(c, x)
      BY <2>7, <3>1, CommandFields DEF MemberCommand, RemoveNode
    <3>3. QED BY <1>3, <3>2
  <2>8. QED BY <2>1, <2>2, <2>3, <2>4, <2>5, <2>6, <2>7, CommandFields
<1>4. QED BY <1>2, <1>3

\* The step from one point of the history to the next.
LEMMA ReplayStep ==
    ASSUME Types, NEW r, Replays(r), NEW i \in 0 .. Len(log), NEW k \in i + 1 .. Len(log)
    PROVE  /\ k \in 1 .. Len(log) /\ k - 1 \in i .. Len(log) /\ log[k] \in Command
           /\ WellFormed(r[i]) /\ WellFormed(r[k - 1])
           /\ r[k] = ApplyManagement(r[k - 1], log[k])
           /\ r[i].next \in Nat /\ r[k - 1].next \in Nat /\ r[i].next <= r[k - 1].next
<1>1. log \in Seq(Command) /\ Len(log) \in Nat
  BY DEF Types
<1>2. k \in 1 .. Len(log) /\ k - 1 \in i .. Len(log) /\ k - 1 \in 0 .. Len(log) /\ i <= k - 1
  BY <1>1
<1>3. log[k] \in Command
  BY <1>1, <1>2
<1>4. /\ WellFormed(r[i]) /\ WellFormed(r[k - 1]) /\ r[i].next <= r[k - 1].next
      /\ r[k] = ApplyManagement(r[k - 1], log[k])
  BY <1>2 DEF Replays
<1>5. QED BY <1>2, <1>3, <1>4 DEF WellFormed

\* Deleted is deleted for good.
LEMMA GoneForGood ==
    ASSUME Types, NEW r, Replays(r), NEW i \in 0 .. Len(log), NEW c \in Nat,
           c < r[i].next, c \notin DOMAIN r[i].clusters, NEW j \in i .. Len(log)
    PROVE  c \notin DOMAIN r[j].clusters
<1> DEFINE Bad == {k \in i .. Len(log) : c \in DOMAIN r[k].clusters}
<1>1. SUFFICES ASSUME Bad # {} PROVE FALSE
  OBVIOUS
<1>2. Len(log) \in Nat /\ Bad \in SUBSET Nat
  BY DEF Types
<1>3. PICK k \in Bad : \A y \in Bad : k <= y
  BY <1>1, <1>2, LeastNumber
<1>4. k # i /\ k \in i .. Len(log) /\ c \in DOMAIN r[k].clusters
  BY <1>3
<1>5. k \in i + 1 .. Len(log)
  BY <1>2, <1>4
<1>6. /\ k - 1 \in i .. Len(log) /\ log[k] \in Command /\ WellFormed(r[k - 1])
      /\ r[k] = ApplyManagement(r[k - 1], log[k])
      /\ r[i].next \in Nat /\ r[k - 1].next \in Nat /\ r[i].next <= r[k - 1].next
  BY <1>5, ReplayStep
<1>7. c \notin DOMAIN r[k - 1].clusters
  BY <1>2, <1>3, <1>6
<1>8. c < r[k - 1].next
  BY <1>6
<1>9. QED BY <1>4, <1>6, <1>7, <1>8, OneCommandMore

\* A member that is never removed stays while the sub-cluster does.
LEMMA MembersStay ==
    ASSUME Types, NEW r, Replays(r), NEW i \in 0 .. Len(log), NEW c \in Nat, NEW x,
           Member(r[i], c, x), Kept(c, x), NEW j \in i .. Len(log)
    PROVE  Member(r[j], c, x) \/ c \notin DOMAIN r[j].clusters
<1> DEFINE Fine(k) == Member(r[k], c, x) \/ c \notin DOMAIN r[k].clusters
           Bad == {k \in i .. Len(log) : ~Fine(k)}
<1>1. SUFFICES ASSUME Bad # {} PROVE FALSE
  OBVIOUS
<1>2. Len(log) \in Nat /\ Bad \in SUBSET Nat
  BY DEF Types
<1>3. PICK k \in Bad : \A y \in Bad : k <= y
  BY <1>1, <1>2, LeastNumber
<1>4. k # i /\ k \in i .. Len(log) /\ ~Fine(k)
  BY <1>3
<1>5. k \in i + 1 .. Len(log)
  BY <1>2, <1>4
<1>6. /\ k \in 1 .. Len(log) /\ k - 1 \in i .. Len(log) /\ log[k] \in Command
      /\ WellFormed(r[i]) /\ WellFormed(r[k - 1])
      /\ r[k] = ApplyManagement(r[k - 1], log[k])
      /\ r[i].next \in Nat /\ r[k - 1].next \in Nat /\ r[i].next <= r[k - 1].next
  BY <1>5, ReplayStep
<1>7. Fine(k - 1)
  BY <1>2, <1>3, <1>6
<1>8. log[k] # RemoveNode(c, x)
  BY <1>6 DEF Kept, Types
<1>9. c < r[k - 1].next
  <2>1. c < r[i].next
    BY <1>6 DEF Member, WellFormed
  <2>2. QED BY <1>6, <2>1
<1>10. QED BY <1>4, <1>6, <1>7, <1>8, <1>9, OneCommandMore

\* A log has one replay, and so has each longer one.
LEMMA OneReplay ==
    ASSUME NEW r, NEW q, NEW l \in Seq(Command), NEW n \in Nat,
           r[0] = NewState, q[0] = NewState,
           \A i \in 1 .. n : r[i] = ApplyManagement(r[i - 1], l[i]),
           \A i \in 1 .. n : q[i] = ApplyManagement(q[i - 1], l[i])
    PROVE  \A i \in 0 .. n : q[i] = r[i]
<1> DEFINE Bad == {k \in 0 .. n : q[k] # r[k]}
<1>1. SUFFICES ASSUME Bad # {} PROVE FALSE
  OBVIOUS
<1>2. Bad \in SUBSET Nat
  OBVIOUS
<1>3. PICK k \in Bad : \A y \in Bad : k <= y
  BY <1>1, <1>2, LeastNumber
<1>4. k \in 1 .. n /\ k - 1 \in 0 .. n /\ k - 1 \notin Bad
  BY <1>3
<1>5. q[k - 1] = r[k - 1]
  BY <1>4
<1>6. q[k] = r[k]
  BY <1>4, <1>5
<1>7. QED BY <1>3, <1>6

\* Every node is at a point of whatever replay of the log.
LEMMA EveryReplay ==
    ASSUME Types, History, NEW q, Replays(q)
    PROVE  AtPoint(q)
<1>1. PICK r : Replays(r) /\ AtPoint(r)
  BY DEF History
<1>2. log \in Seq(Command) /\ Len(log) \in Nat
  BY DEF Types
<1>3. \A i \in 0 .. Len(log) : q[i] = r[i]
  BY <1>1, <1>2, OneReplay DEF Replays
<1>4. ASSUME NEW n \in Node PROVE sm[n] = q[applied[n]] /\ HeardOf(q, n)
  <2>1. applied[n] \in 0 .. Len(log) /\ sm[n] = r[applied[n]] /\ HeardOf(r, n)
    BY <1>1 DEF AtPoint, Types
  <2>2. \A i \in 1 .. applied[n] : i - 1 \in 0 .. Len(log) /\ q[i - 1] = r[i - 1]
    BY <1>2, <1>3, <2>1
  <2>3. HeardOf(q, n)
    BY <2>1, <2>2 DEF HeardOf
  <2>4. QED BY <1>3, <2>1, <2>3
<1>5. QED BY <1>4 DEF AtPoint

\* A state that comes after another: ids are not taken back, and what is gone
\* stays gone.
Later(s, t) ==
    /\ s.next <= t.next
    /\ \A c \in Nat : c < s.next /\ c \notin DOMAIN s.clusters => c \notin DOMAIN t.clusters

\* Every step takes every node to the same or a later state.
LEMMA StatesMoveOn ==
    ASSUME Types, Types', History, Kinds, NEW n \in Node
    PROVE  Later(sm[n], sm'[n]) /\ sm[n].next \in Nat /\ sm'[n].next \in Nat
<1>1. WellFormed(sm[n]) /\ sm[n].next \in Nat /\ sm'[n].next \in Nat
  <2>1. WellFormed(sm[n]) /\ WellFormed(sm'[n])
    BY DEF Types
  <2>2. QED BY <2>1 DEF WellFormed
<1>2. CASE sm'[n] = sm[n]
  BY <1>1, <1>2 DEF Later
<1>3. ASSUME Apply(n) PROVE Later(sm[n], sm'[n])
  <2>1. PICK c \in Command : sm'[n] = ApplyManagement(sm[n], c)
    BY <1>3, Applied
  <2>2. ApplyManagement(sm[n], c).next \in {sm[n].next, sm[n].next + 1}
    BY <1>1, ApplyWellFormed
  <2>3. QED BY <1>1, <2>1, <2>2, OneCommandMore DEF Later
<1>4. ASSUME NEW m \in Node, InstallSnapshot(n, m) PROVE Later(sm[n], sm'[n])
  <2>1. PICK r : Replays(r) /\ AtPoint(r)
    BY DEF History
  <2>2. sm' = [sm EXCEPT ![n] = Snapshot(sm[m])] /\ applied[n] < applied[m]
    BY <1>4 DEF InstallSnapshot
  <2>3. sm = [k \in Node |-> sm[k]] /\ WellFormed(sm[m]) /\ Len(log) \in Nat
        /\ applied[n] \in 0 .. Len(log) /\ applied[m] \in 0 .. Len(log)
    BY DEF Types
  <2>4. sm'[n] = sm[m]
    BY <2>2, <2>3, SnapshotIsState
  <2>5. sm[n] = r[applied[n]] /\ sm[m] = r[applied[m]]
    BY <2>1 DEF AtPoint
  <2>6. applied[m] \in applied[n] .. Len(log) /\ applied[n] <= applied[m]
    BY <2>2, <2>3
  <2>7. r[applied[n]].next <= r[applied[m]].next
    BY <2>1, <2>3, <2>6 DEF Replays
  <2>8. ASSUME NEW c \in Nat, c < sm[n].next, c \notin DOMAIN sm[n].clusters
        PROVE  c \notin DOMAIN sm'[n].clusters
    BY <2>1, <2>3, <2>4, <2>5, <2>6, <2>8, GoneForGood
  <2>9. QED BY <2>4, <2>5, <2>7, <2>8 DEF Later
<1>5. sm = [k \in Node |-> sm[k]]
  BY DEF Types
<1>6. ASSUME NEW k \in Node, Apply(k), k # n PROVE sm'[n] = sm[n]
  BY <1>6, Applied
<1>7. ASSUME NEW k \in Node, NEW m \in Node, InstallSnapshot(k, m), k # n PROVE sm'[n] = sm[n]
  BY <1>5, <1>7 DEF InstallSnapshot
<1>8. Later(sm[n], sm'[n])
  <2>1. CASE LocalStep \/ CommitStep
    BY <1>2, <2>1 DEF LocalStep, CommitStep
  <2>2. CASE \E k \in Node : Apply(k)
    BY <1>2, <1>3, <1>6, <2>2
  <2>3. CASE \E k \in Node : Observe(k) \/ Lag(k)
    BY <1>2, <2>3 DEF Observe, Lag, nodeVars
  <2>4. CASE \E k, m \in Node : InstallSnapshot(k, m)
    BY <1>2, <1>4, <1>7, <2>4
  <2>5. CASE \E m \in Node : DetectFailure(m)
    BY <1>2, <2>5 DEF DetectFailure
  <2>6. QED BY <2>1, <2>2, <2>3, <2>4, <2>5 DEF Kinds
<1>9. QED BY <1>1, <1>8

\* What no step takes back: the log and the events.
LEMMA LogAndEventsGrow ==
    ASSUME Types, Types', Kinds
    PROVE  /\ \A i \in DOMAIN log : i \in DOMAIN log' /\ log'[i] = log[i]
           /\ \A n \in Node : \A k \in DOMAIN events[n] :
                  k \in DOMAIN events'[n] /\ events'[n][k] = events[n][k]
<1> DEFINE Held == \A n \in Node : \A k \in DOMAIN events[n] :
                       k \in DOMAIN events'[n] /\ events'[n][k] = events[n][k]
<1>1. CASE CommitStep
  <2>1. PICK c \in Command : log' = Append(log, c)
    BY <1>1 DEF CommitStep
  <2>2. log \in Seq(Command) /\ UNCHANGED events
    BY <1>1 DEF CommitStep, Types
  <2>3. QED BY <2>1, <2>2
<1>2. ASSUME NEW n \in Node, NEW e \in Event, events' = [events EXCEPT ![n] = Append(@, e)]
      PROVE  Held
  <2>1. Len(events[n]) \in Nat /\ DOMAIN events[n] = 1 .. Len(events[n])
        /\ DOMAIN events'[n] = 1 .. Len(events[n]) + 1
        /\ (\A k \in 1 .. Len(events[n]) : events'[n][k] = events[n][k])
        /\ \A m \in Node \ {n} : events'[m] = events[m]
    BY <1>2, Published
  <2>2. \A k \in 1 .. Len(events[n]) : k \in 1 .. Len(events[n]) + 1
    BY <2>1
  <2>3. QED BY <2>1, <2>2
<1>3. CASE \E n \in Node : Apply(n)
  <2>1. PICK n \in Node : Apply(n)
    BY <1>3
  <2>2. log' = log /\ (events' = events \/ \E e \in Event : events' = [events EXCEPT ![n] = Append(@, e)])
    BY <2>1, Applied
  <2>3. QED BY <1>2, <2>2
<1>4. CASE \E m \in Node : DetectFailure(m)
  <2>1. PICK m \in Node : DetectFailure(m)
    BY <1>4
  <2>2. leader \in Node /\ [type |-> "Failed", node |-> m] \in Event
        /\ events' = [events EXCEPT ![leader] = Append(@, [type |-> "Failed", node |-> m])]
        /\ log' = log
    BY <2>1, DetectFailureTypes
  <2>3. QED BY <1>2, <2>2
<1>5. CASE UNCHANGED <<log, events>>
  BY <1>5
<1>6. ASSUME \/ LocalStep \/ \E n \in Node : Observe(n) \/ Lag(n)
             \/ \E n, m \in Node : InstallSnapshot(n, m)
      PROVE  UNCHANGED <<log, events>>
  BY <1>6 DEF LocalStep, Observe, Lag, InstallSnapshot, raftVars, nodeVars
<1>7. QED BY <1>1, <1>3, <1>4, <1>5, <1>6 DEF Kinds

\* What a node was told stays in order.
LEMMA ToldBefore ==
    ASSUME Types, Types', History, Kinds, InOrder, NEW n \in Node, NEW k \in DOMAIN events[n]
    PROVE  Told(n, k)'
<1>1. Told(n, k) /\ \A l \in DOMAIN events[n] : Told(n, l)
  BY DEF InOrder
<1>2. Later(sm[n], sm'[n]) /\ sm[n].next \in Nat /\ sm'[n].next \in Nat
  BY StatesMoveOn
<1>3. /\ \A i \in DOMAIN log : i \in DOMAIN log' /\ log'[i] = log[i]
      /\ \A l \in DOMAIN events[n] : l \in DOMAIN events'[n] /\ events'[n][l] = events[n][l]
  BY LogAndEventsGrow
<1>4. events'[n][k].type = "Remove" => \E i \in DOMAIN log' : log'[i] = events'[n][k]
  BY <1>1, <1>3 DEF Told
<1>5. \A c \in Nat : Joins(events'[n][k], c, n) => c < sm'[n].next
  <2>1. SUFFICES ASSUME NEW c \in Nat, Joins(events'[n][k], c, n) PROVE c < sm'[n].next
    OBVIOUS
  <2>2. c < sm[n].next
    BY <1>1, <1>3, <2>1 DEF Told
  <2>3. QED BY <1>2, <2>2 DEF Later
<1>6. ASSUME NEW l \in DOMAIN events'[n], NEW c \in Nat, l < k, Joins(events'[n][l], c, n)
      PROVE  Behind(events'[n][k], c, sm'[n])
  <2>1. l \in DOMAIN events[n]
    <3>1. events[n] \in Seq(Event) /\ events'[n] \in Seq(Event)
      BY DEF Types
    <3>2. Len(events[n]) \in Nat /\ DOMAIN events[n] = 1 .. Len(events[n])
          /\ Len(events'[n]) \in Nat /\ DOMAIN events'[n] = 1 .. Len(events'[n])
      BY <3>1
    <3>3. QED BY <1>6, <3>2
  <2>2. Joins(events[n][l], c, n)
    BY <1>3, <1>6, <2>1
  <2>3. c < sm[n].next /\ Behind(events[n][k], c, sm[n])
    BY <1>1, <1>6, <2>1, <2>2 DEF Told
  <2>4. QED BY <1>2, <1>3, <2>3 DEF Behind, Later
<1>7. QED BY <1>4, <1>5, <1>6 DEF Told

\* What a node publishes comes in order.
LEMMA ApplyTold ==
    ASSUME Types, Types', History, InOrder, NEW n \in Node, Apply(n), NEW e \in Event,
           events' = [events EXCEPT ![n] = Append(@, e)],
           Events(sm[n], log[applied[n] + 1]) = <<e>>, NEW last \in Nat, last = Len(events[n]) + 1
    PROVE  Told(n, last)'
<1> DEFINE i == applied[n] + 1
<1>1. PICK cmd \in Command : cmd = log[i]
  BY Applied
<1>2. i \in DOMAIN log /\ log' = log /\ sm'[n] = ApplyManagement(sm[n], cmd)
  <2>1. i \in 1 .. Len(log) /\ log' = log /\ sm'[n] = ApplyManagement(sm[n], cmd)
    BY <1>1, Applied
  <2>2. log \in Seq(Command)
    BY DEF Types
  <2>3. QED BY <2>1, <2>2
<1>3. WellFormed(sm[n]) /\ WellFormed(sm'[n]) /\ sm[n].next \in Nat
  <2>1. WellFormed(sm[n]) /\ WellFormed(sm'[n])
    BY DEF Types
  <2>2. QED BY <2>1 DEF WellFormed
<1>4. Len(events[n]) \in Nat /\ DOMAIN events[n] = 1 .. Len(events[n])
      /\ DOMAIN events'[n] = 1 .. last /\ events'[n][last] = e
      /\ \A k \in 1 .. Len(events[n]) : events'[n][k] = events[n][k]
  BY Published
<1>5. /\ e.type = "Created" => e.cluster = sm[n].next
      /\ e.type # "Created" => e = cmd
  <2>1. CASE cmd.type = "Create"
    <3>1. <<e>> = <<[type |-> "Created", cluster |-> sm[n].next, nodes |-> cmd.nodes]>>
      BY <1>1, <1>3, <2>1, ApplyWellFormed
    <3>2. e = [type |-> "Created", cluster |-> sm[n].next, nodes |-> cmd.nodes]
      BY <3>1
    <3>3. e.type = "Created" /\ e.cluster = sm[n].next
      BY <3>2
    <3>4. QED BY <3>3
  <2>2. CASE cmd.type # "Create"
    <3>1. <<e>> = <<>> \/ <<e>> = <<cmd>>
      BY <1>1, <1>3, <2>2, ApplyWellFormed
    <3>2. e = cmd
      BY <3>1
    <3>3. cmd.type # "Created"
      BY CommandFields
    <3>4. QED BY <3>2, <3>3
  <2>3. QED BY <2>1, <2>2
<1>6. e.type = "Remove" => \E j \in DOMAIN log' : log'[j] = e
  <2>1. SUFFICES ASSUME e.type = "Remove" PROVE \E j \in DOMAIN log' : log'[j] = e
    OBVIOUS
  <2>2. e = cmd
    BY <1>5, <2>1
  <2>3. QED BY <1>1, <1>2, <2>2
<1>7. ASSUME NEW c \in Nat, Joins(e, c, n) PROVE c < sm'[n].next
  <2>1. Member(sm'[n], c, n)
    BY <1>1, <1>2, <1>3, <1>7, ApplyBears DEF Joins
  <2>2. QED BY <1>3, <2>1 DEF Member, WellFormed
<1>8. ASSUME NEW l \in DOMAIN events'[n], NEW c \in Nat, l < last, Joins(events'[n][l], c, n)
      PROVE  Behind(e, c, sm'[n])
  <2>1. l \in DOMAIN events[n] /\ events'[n][l] = events[n][l]
    BY <1>4, <1>8
  <2>2. c < sm[n].next
    BY <1>8, <2>1 DEF InOrder, Told
  <2>3. e.type = "Created" => e.cluster # c
    BY <1>3, <1>5, <2>2
  <2>4. ASSUME e.type = "Delete", e.cluster = c PROVE c \notin DOMAIN sm'[n].clusters
    <3>1. e = cmd
      BY <1>5, <2>4
    <3>2. cmd.type = "Delete" /\ cmd.cluster = c
      BY <2>4, <3>1
    <3>3. DOMAIN ApplyManagement(sm[n], cmd).clusters = DOMAIN sm[n].clusters \ {cmd.cluster}
      BY <1>3, <3>2, ApplyDomain
    <3>4. QED BY <1>2, <3>2, <3>3
  <2>5. QED BY <2>3, <2>4 DEF Behind
<1>9. QED BY <1>4, <1>6, <1>7, <1>8 DEF Told

\* Every step keeps what the nodes are told in order.
LEMMA NextInOrder ==
    ASSUME Types, Types', History, Kinds, InOrder
    PROVE  InOrder'
<1>1. ASSUME UNCHANGED events PROVE InOrder'
  BY <1>1, ToldBefore DEF InOrder
<1>2. ASSUME NEW n \in Node, NEW e \in Event, events' = [events EXCEPT ![n] = Append(@, e)],
             NEW last \in Nat, last = Len(events[n]) + 1, Told(n, last)'
      PROVE  InOrder'
  <2>1. Len(events[n]) \in Nat /\ DOMAIN events[n] = 1 .. Len(events[n])
        /\ DOMAIN events'[n] = 1 .. Len(events[n]) + 1
        /\ \A m \in Node \ {n} : events'[m] = events[m]
    BY <1>2, Published
  <2>2. \A k \in DOMAIN events'[n] : k = last \/ k \in DOMAIN events[n]
    BY <1>2, <2>1
  <2>3. ASSUME NEW m \in Node, NEW k \in DOMAIN events'[m] PROVE Told(m, k)'
    <3>1. CASE k \in DOMAIN events[m]
      BY <3>1, ToldBefore
    <3>2. CASE k \notin DOMAIN events[m]
      <4>1. m = n
        BY <2>1, <3>2
      <4>2. k = last
        BY <2>2, <3>2, <4>1
      <4>3. QED BY <1>2, <4>1, <4>2
    <3>3. QED BY <3>1, <3>2
  <2>4. QED BY <2>3 DEF InOrder
<1>3. ASSUME NEW n \in Node, Apply(n) PROVE InOrder'
  <2>1. CASE events' = events
    BY <1>1, <2>1
  <2>2. ASSUME NEW e \in Event, events' = [events EXCEPT ![n] = Append(@, e)],
               Events(sm[n], log[applied[n] + 1]) = <<e>>
        PROVE  InOrder'
    <3>1. Len(events[n]) \in Nat
      BY <2>2, Published
    <3>2. PICK last \in Nat : last = Len(events[n]) + 1
      BY <3>1
    <3>3. Told(n, last)'
      BY <1>3, <2>2, <3>2, ApplyTold
    <3>4. QED BY <1>2, <2>2, <3>2, <3>3
  <2>3. QED BY <1>3, <2>1, <2>2, Applied
<1>4. ASSUME NEW m \in Node, DetectFailure(m) PROVE InOrder'
  <2> DEFINE e == [type |-> "Failed", node |-> m]
  <2>1. leader \in Node /\ e \in Event /\ events' = [events EXCEPT ![leader] = Append(@, e)]
    BY <1>4, DetectFailureTypes
  <2>2. e.type = "Failed"
    OBVIOUS
  <2> HIDE DEF e
  <2>3. Len(events[leader]) \in Nat /\ events'[leader][Len(events[leader]) + 1] = e
    BY <2>1, Published
  <2>4. PICK n \in Node : n = leader
    BY <2>1
  <2>5. PICK last \in Nat : last = Len(events[n]) + 1
    BY <2>3, <2>4
  <2>6. events'[n][last].type = "Failed"
    BY <2>2, <2>3, <2>4, <2>5
  <2>7. Told(n, last)'
    BY <2>6 DEF Told, Joins, Behind
  <2>8. QED BY <1>2, <2>1, <2>4, <2>5, <2>7
<1>5. ASSUME \/ LocalStep \/ CommitStep \/ \E n \in Node : Observe(n) \/ Lag(n)
             \/ \E n, m \in Node : InstallSnapshot(n, m)
      PROVE  UNCHANGED events
  BY <1>5 DEF LocalStep, CommitStep, Observe, Lag, InstallSnapshot, nodeVars
<1>6. QED BY <1>1, <1>3, <1>4, <1>5 DEF Kinds

\* One more member of a group.
LEMMA OneMemberMore ==
    ASSUME NEW g, NEW n, members' = members \cup {<<g, n>>}
    PROVE  Founding' = Founding \cup {g}
<1>1. <<g, n>>[1] = g
  OBVIOUS
<1>2. PICK w : w = <<g, n>> /\ w[1] = g
  BY <1>1
<1>3. \A x : x \in Founding' <=> \E v \in members \cup {w} : x = v[1]
  BY <1>2 DEF Founding
<1>4. \A x : x \in Founding <=> \E v \in members : x = v[1]
  BY DEF Founding
<1>5. QED BY <1>2, <1>3, <1>4

\* What the observer does to the map of runtimes and to the groups: it founds a
\* group for a node named first, or for one that finds itself alone.
LEMMA ObserveFounds ==
    ASSUME Types, NEW n \in Node, Observe(n)
    PROVE  LET e == events[n][obs[n] + 1] IN
           /\ e \in Event /\ obs[n] + 1 \in DOMAIN events[n] /\ obs'[n] = obs[n] + 1
           /\ \A m \in Node \ {n} : runtimes'[m] = runtimes[m] /\ obs'[m] = obs[m]
           /\ \A c \in runtimes[n] : c \in runtimes'[n] \/
                  /\ e.cluster = c
                  /\ e.type = "Delete" \/ e = RemoveNode(c, n)
           /\ Founding \subseteq Founding'
           /\ \A g \in Founding' \ Founding :
                  /\ g = Group(e.cluster, n) /\ e.cluster \in runtimes'[n]
                  /\ \/ e.type = "Created" /\ n \in Range(e.nodes) /\ Head(e.nodes) = n
                     \/ /\ e.type = "Add" /\ e.node = n /\ e.cluster \notin runtimes[n]
                        /\ e.cluster \in DOMAIN sm[n].clusters
                        /\ Range(sm[n].clusters[e.cluster].nodes) = {n}
<1>1. obs[n] \in Nat /\ obs[n] + 1 \in 1 .. Len(events[n]) /\ events[n] \in Seq(Event)
      /\ runtimes \in [Node -> SUBSET Nat] /\ obs \in [Node -> Nat]
  BY DEF Types, Observe
<1>2. PICK e \in Event : e = events[n][obs[n] + 1]
  BY <1>1
<1>3. obs' = [obs EXCEPT ![n] = @ + 1]
  BY DEF Observe
<1> DEFINE Effect(Cond) ==
        /\ \A m \in Node \ {n} : runtimes'[m] = runtimes[m]
        /\ \A c \in runtimes[n] : c \in runtimes'[n] \/
               (e.cluster = c /\ (e.type = "Delete" \/ e = RemoveNode(c, n)))
        /\ Founding \subseteq Founding'
        /\ \A g \in Founding' \ Founding :
               g = Group(e.cluster, n) /\ e.cluster \in runtimes'[n] /\ Cond
<1>4. ASSUME NEW ids, StartRaftNode(n, e.cluster, ids)
      PROVE  Effect(Range(ids) = {n})
  <2>1. \A m \in Node \ {n} : runtimes'[m] = runtimes[m]
    BY <1>1, <1>4 DEF StartRaftNode, SetRuntimes
  <2>2. \A c \in runtimes[n] : c \in runtimes'[n]
    BY <1>1, <1>4 DEF StartRaftNode, SetRuntimes
  <2>3. \/ members' = members
        \/ /\ e.cluster \in runtimes'[n] /\ Range(ids) = {n}
           /\ members' = members \cup {<<Group(e.cluster, n), n>>}
    BY <1>1, <1>4 DEF StartRaftNode, SetRuntimes, Founded
  <2>4. CASE members' = members
    BY <2>1, <2>2, <2>4 DEF Founding
  <2>5. CASE /\ e.cluster \in runtimes'[n] /\ Range(ids) = {n}
             /\ members' = members \cup {<<Group(e.cluster, n), n>>}
    <3>1. Founding' = Founding \cup {Group(e.cluster, n)}
      BY <2>5, OneMemberMore
    <3>2. QED BY <2>1, <2>2, <2>5, <3>1
  <2>6. QED BY <2>3, <2>4, <2>5
<1>5. ASSUME UNCHANGED subVars PROVE Effect(FALSE)
  BY <1>5 DEF subVars, Founding
<1> DEFINE Cause == \/ e.type = "Created" /\ n \in Range(e.nodes) /\ Head(e.nodes) = n
                    \/ /\ e.type = "Add" /\ e.node = n /\ e.cluster \notin runtimes[n]
                       /\ e.cluster \in DOMAIN sm[n].clusters
                       /\ Range(sm[n].clusters[e.cluster].nodes) = {n}
<1>6. ASSUME e.type = "Created", OnCreated(n, e) PROVE Effect(Cause)
  <2>1. CASE n \in Range(e.nodes)
    <3>1. PICK ids : /\ ids = IF Head(e.nodes) = n THEN <<n>> ELSE e.nodes
                     /\ StartRaftNode(n, e.cluster, ids)
      BY <1>6, <2>1 DEF OnCreated
    <3>2. ASSUME Range(ids) = {n} PROVE Head(e.nodes) = n
      <4>1. SUFFICES ASSUME Head(e.nodes) # n PROVE FALSE
        OBVIOUS
      <4>2. Range(e.nodes) = {n}
        BY <3>1, <3>2, <4>1
      <4>3. e.nodes \in Seq(Node)
        BY <1>6, EventFields
      <4>4. e.nodes # <<>>
        BY <2>1, <4>3 DEF Range
      <4>5. Head(e.nodes) \in Range(e.nodes)
        BY <4>3, <4>4 DEF Range
      <4>6. QED BY <4>1, <4>2, <4>5
    <3>3. Effect(Range(ids) = {n})
      BY <1>4, <3>1
    <3>4. Range(ids) = {n} => Cause
      BY <1>6, <2>1, <3>2
    <3> HIDE DEF Cause
    <3>5. QED BY <3>3, <3>4
  <2>2. CASE n \notin Range(e.nodes)
    BY <1>5, <1>6, <2>2 DEF OnCreated
  <2>3. QED BY <2>1, <2>2
<1>7. ASSUME e.type = "Add", OnNodeAdded(n, e) PROVE Effect(Cause)
  <2>1. CASE e.cluster \in runtimes[n]
    <3>1. UNCHANGED runtimes
      BY <1>7, <2>1 DEF OnNodeAdded
    <3>2. members' = members \/ \E v \in members : members' = members \cup {<<v[1], e.node>>}
      BY <1>7, <2>1 DEF OnNodeAdded
    <3>3. ASSUME NEW v \in members, members' = members \cup {<<v[1], e.node>>}
          PROVE  Founding' = Founding
      <4>1. Founding' = Founding \cup {v[1]}
        BY <3>3, OneMemberMore
      <4>2. v[1] \in Founding
        BY DEF Founding
      <4>3. QED BY <4>1, <4>2
    <3>4. Founding' = Founding
      BY <3>2, <3>3 DEF Founding
    <3>5. QED BY <3>1, <3>4
  <2>2. CASE e.cluster \notin runtimes[n] /\ e.node = n /\ e.cluster \in DOMAIN sm[n].clusters
    <3>1. StartRaftNode(n, e.cluster, sm[n].clusters[e.cluster].nodes)
      BY <1>7, <2>2 DEF OnNodeAdded
    <3>2. Effect(Range(sm[n].clusters[e.cluster].nodes) = {n})
      BY <1>4, <3>1
    <3>3. Range(sm[n].clusters[e.cluster].nodes) = {n} => Cause
      BY <1>7, <2>2
    <3> HIDE DEF Cause
    <3>4. QED BY <3>2, <3>3
  <2>3. CASE e.cluster \notin runtimes[n] /\ ~ (e.node = n /\ e.cluster \in DOMAIN sm[n].clusters)
    BY <1>5, <1>7, <2>3 DEF OnNodeAdded
  <2>4. QED BY <2>1, <2>2, <2>3
<1>8. ASSUME e.type \in {"Remove", "Delete"}, UNCHANGED members,
             runtimes' = [runtimes EXCEPT ![n] =
                 IF e.type = "Delete" \/ e.node = n THEN @ \ {e.cluster} ELSE @]
      PROVE  Effect(Cause)
  <2>1. Founding' = Founding /\ \A m \in Node \ {n} : runtimes'[m] = runtimes[m]
    BY <1>1, <1>8 DEF Founding
  <2>2. \A c \in runtimes[n] : c \in runtimes'[n] \/
            (e.cluster = c /\ (e.type = "Delete" \/ e.node = n))
    BY <1>1, <1>8
  <2>3. e.type = "Remove" => e = RemoveNode(e.cluster, e.node)
    BY DEF Event, DeleteCommand, MemberCommand, MetadataCommand, RemoveNode
  <2>4. QED BY <1>8, <2>1, <2>2, <2>3
<1>9. Effect(Cause)
  <2>1. CASE e.type = "Remove" /\ OnNodeRemoved(n, e)
    <3>1. runtimes' = [runtimes EXCEPT ![n] = IF e.node = n THEN @ \ {e.cluster} ELSE @]
          /\ UNCHANGED members
      BY <2>1 DEF OnNodeRemoved, SetRuntimes
    <3>2. QED BY <1>8, <2>1, <3>1
  <2>2. CASE e.type = "Delete" /\ OnDeleted(n, e)
    <3>1. runtimes' = [runtimes EXCEPT ![n] = @ \ {e.cluster}] /\ UNCHANGED members
      BY <2>2 DEF OnDeleted, SetRuntimes
    <3>2. QED BY <1>8, <2>2, <3>1
  <2>3. CASE e.type \in {"Failed", "Metadata"} /\ UNCHANGED subVars
    BY <1>5, <2>3
  <2>4. \/ e.type = "Created" /\ OnCreated(n, e)
        \/ e.type = "Add" /\ OnNodeAdded(n, e)
        \/ e.type = "Remove" /\ OnNodeRemoved(n, e)
        \/ e.type = "Delete" /\ OnDeleted(n, e)
        \/ e.type \in {"Failed", "Metadata"} /\ UNCHANGED subVars
    BY <1>2 DEF Observe, OnFailed
  <2>5. QED BY <1>6, <1>7, <2>1, <2>2, <2>3, <2>4
<1>10. QED BY <1>1, <1>2, <1>3, <1>9

\* A group has a sub-cluster and a founder.
LEMMA FoundersType ==
    ASSUME Types, NEW g \in Founding
    PROVE  g \in Groups /\ g.cluster \in Nat /\ g.founder \in Node
<1>1. PICK v \in Groups \X Node : g = v[1]
  BY DEF Founding, Types
<1>2. g \in Groups
  BY <1>1
<1>3. QED BY <1>2 DEF Groups

\* A group stands after a step of anybody but the observers.
LEMMA StandsBefore ==
    ASSUME Types, Types', History, Kinds, InOrder, UNCHANGED <<obs, runtimes, members>>,
           NEW g \in Founding, Stands(g)
    PROVE  Stands(g)'
<1>1. PICK c \in Nat, f \in Node : c = g.cluster /\ f = g.founder
  BY FoundersType
<1>2. obs[f] \in Nat /\ obs[f] <= Len(events[f]) /\ events[f] \in Seq(Event)
  BY DEF Types
<1>3. g.since \in 1 .. obs[f] /\ g.since \in DOMAIN events[f] /\ Joins(events[f][g.since], c, f)
  BY <1>1, <1>2 DEF Stands
<1>4. events'[f][g.since] = events[f][g.since]
  BY <1>3, LogAndEventsGrow
<1>5. Kept(c, f)' => Kept(c, f)
  BY LogAndEventsGrow DEF Kept
<1>6. c \notin DOMAIN sm[f].clusters => c \notin DOMAIN sm'[f].clusters
  <2>1. c < sm[f].next
    BY <1>3 DEF InOrder, Told
  <2>2. QED BY <2>1, StatesMoveOn DEF Later
<1>7. Founding' = Founding
  BY DEF Founding
<1>8. QED BY <1>1, <1>3, <1>4, <1>5, <1>6, <1>7 DEF Stands

\* A group stands after a step of an observer.
LEMMA ObserveStands ==
    ASSUME Types, InOrder, NEW n \in Node, Observe(n), \A g \in Founding : Stands(g),
           NEW g \in Founding'
    PROVE  Stands(g)'
<1> DEFINE k == obs[n] + 1
<1>1. PICK e \in Event : e = events[n][k]
  BY ObserveFounds
<1>2. /\ k \in DOMAIN events[n] /\ obs'[n] = k
      /\ \A m \in Node \ {n} : runtimes'[m] = runtimes[m] /\ obs'[m] = obs[m]
      /\ \A c \in runtimes[n] : c \in runtimes'[n] \/
             (e.cluster = c /\ (e.type = "Delete" \/ e = RemoveNode(c, n)))
      /\ Founding \subseteq Founding'
  BY <1>1, ObserveFounds
<1>3. ASSUME NEW h \in Founding' \ Founding
      PROVE  /\ h = Group(e.cluster, n) /\ e.cluster \in runtimes'[n]
             /\ \/ e.type = "Created" /\ n \in Range(e.nodes) /\ Head(e.nodes) = n
                \/ /\ e.type = "Add" /\ e.node = n /\ e.cluster \notin runtimes[n]
                   /\ e.cluster \in DOMAIN sm[n].clusters
  BY <1>1, <1>3, ObserveFounds
<1>4. UNCHANGED <<log, sm, events>>
  BY DEF Observe, raftVars, nodeVars
<1>5. obs \in [Node -> Nat] /\ k \in Nat
  BY DEF Types
<1>6. \A c, m : Kept(c, m)' <=> Kept(c, m)
  BY <1>4 DEF Kept
<1> HIDE DEF k
<1>7. ASSUME NEW c \in Nat, Kept(c, n), NEW h \in Founding, h.cluster = c, h.founder = n
      PROVE  /\ c \in runtimes'[n] \/ c \notin DOMAIN sm[n].clusters
             /\ \A x \in Founding' : x.cluster = c /\ x.founder = n => x \in Founding
  <2>1. /\ h.since \in 1 .. obs[n] /\ Joins(events[n][h.since], c, n)
        /\ c \in runtimes[n] \/ c \notin DOMAIN sm[n].clusters
    BY <1>7 DEF Stands
  <2>2. h.since \in DOMAIN events[n] /\ h.since < k
    <3>1. obs[n] \in Nat /\ obs[n] <= Len(events[n]) /\ events[n] \in Seq(Event)
      BY DEF Types
    <3>2. QED BY <2>1, <3>1 DEF k
  <2>3. Told(n, k) /\ Behind(e, c, sm[n])
    BY <1>1, <1>2, <2>1, <2>2 DEF InOrder, Told
  <2>4. e # RemoveNode(c, n)
    <3>1. SUFFICES ASSUME e = RemoveNode(c, n) PROVE FALSE
      OBVIOUS
    <3>2. e.type = "Remove"
      BY <3>1 DEF RemoveNode
    <3>3. QED BY <1>1, <1>7, <2>3, <3>1, <3>2 DEF Told, Kept
  <2>5. c \in runtimes'[n] \/ c \notin DOMAIN sm[n].clusters
    BY <1>2, <2>1, <2>3, <2>4 DEF Behind
  <2>6. ASSUME NEW x \in Founding' \ Founding, x.cluster = c, x.founder = n PROVE FALSE
    <3>1. e.cluster = c
      BY <1>3, <2>6 DEF Group
    <3>2. QED BY <1>3, <2>1, <2>3, <2>6, <3>1 DEF Behind
  <2>7. QED BY <2>5, <2>6
<1>8. CASE g \in Founding
  <2>1. PICK c \in Nat, f \in Node : c = g.cluster /\ f = g.founder
    BY <1>8, FoundersType
  <2>2. Stands(g) /\ obs[f] \in Nat /\ obs'[f] \in Nat /\ obs[f] <= obs'[f]
    BY <1>2, <1>5, <1>8 DEF k
  <2>3. g.since \in 1 .. obs'[f] /\ Joins(events[f][g.since], c, f)
    BY <2>1, <2>2 DEF Stands
  <2>4. ASSUME Kept(c, f)
        PROVE  /\ c \in runtimes'[f] \/ c \notin DOMAIN sm[f].clusters
               /\ \A h \in Founding' : h.cluster = c /\ h.founder = f => h \in Founding
    <3>1. CASE f = n
      BY <1>7, <1>8, <2>1, <2>4, <3>1
    <3>2. CASE f # n
      <4>1. \A h \in Founding' \ Founding : h.founder = n
        BY <1>3 DEF Group
      <4>2. QED BY <1>2, <2>1, <2>2, <2>4, <3>2, <4>1 DEF Stands
    <3>3. QED BY <3>1, <3>2
  <2>5. ASSUME Kept(c, f), NEW h \in Founding, h.cluster = c, h.founder = f PROVE h = g
    BY <2>1, <2>2, <2>5 DEF Stands
  <2>6. QED BY <1>4, <1>6, <2>1, <2>3, <2>4, <2>5 DEF Stands
<1>9. CASE g \notin Founding
  <2>1. g = Group(e.cluster, n) /\ e.cluster \in runtimes'[n]
    BY <1>3, <1>9
  <2>2. g.cluster = e.cluster /\ g.founder = n /\ g.since = k
    BY <2>1 DEF Group, k
  <2>3. Joins(events[n][k], e.cluster, n) /\ e.cluster \in Nat
    <3>1. Joins(e, e.cluster, n) /\ e.type \in {"Created", "Add"}
      BY <1>3, <1>9 DEF Joins, Bears
    <3>2. QED BY <1>1, <3>1, EventFields
  <2>4. k \in 1 .. obs'[n]
    <3>1. k >= 1
      BY <1>5 DEF k, Types
    <3>2. QED BY <1>2, <1>5, <3>1
  <2>5. ASSUME Kept(e.cluster, n), NEW h \in Founding', h.cluster = e.cluster, h.founder = n
        PROVE  h = g
    <3>1. CASE h \in Founding
      BY <1>7, <1>9, <2>2, <2>3, <2>5, <3>1
    <3>2. CASE h \notin Founding
      BY <1>3, <2>1, <3>2
    <3>3. QED BY <3>1, <3>2
  <2>6. QED BY <1>4, <1>6, <2>1, <2>2, <2>3, <2>4, <2>5 DEF Stands
<1>10. QED BY <1>8, <1>9

\* A group that was founded is rooted in the log, also when that grows.
LEMMA RootedBefore ==
    ASSUME Types, Types', Kinds, NEW q, Replays(q)', NEW c, NEW n,
           \A r : Replays(r) => NamedFirst(r, c, n) \/ Alone(r, c, n)
    PROVE  NamedFirst(q, c, n)' \/ Alone(q, c, n)'
<1>1. log \in Seq(Command) /\ log' \in Seq(Command)
  BY DEF Types
<1>2. Len(log) \in Nat /\ Len(log') \in Nat /\ Len(log) <= Len(log')
      /\ \A i \in 1 .. Len(log) : i \in 1 .. Len(log') /\ log'[i] = log[i]
  <2>1. \A i \in DOMAIN log : i \in DOMAIN log' /\ log'[i] = log[i]
    BY LogAndEventsGrow
  <2>2. Len(log) \in Nat /\ DOMAIN log = 1 .. Len(log)
        /\ Len(log') \in Nat /\ DOMAIN log' = 1 .. Len(log')
    BY <1>1
  <2>3. Len(log) <= Len(log')
    <3>1. Len(log) # 0 => Len(log) \in 1 .. Len(log')
      BY <2>1, <2>2
    <3>2. QED BY <2>2, <3>1
  <2>4. QED BY <2>1, <2>2, <2>3
<1>3. PICK r : r = [i \in 0 .. Len(log) |-> q[i]]
  OBVIOUS
<1>4. DOMAIN r = 0 .. Len(log) /\ \A i \in 0 .. Len(log) : r[i] = q[i] /\ i \in 0 .. Len(log')
  BY <1>2, <1>3
<1>5. Replays(r)
  <2>1. r[0] = NewState
    BY <1>2, <1>4 DEF Replays
  <2>2. ASSUME NEW i \in 1 .. Len(log) PROVE r[i] = ApplyManagement(r[i - 1], log[i])
    <3>1. i \in 0 .. Len(log) /\ i - 1 \in 0 .. Len(log) /\ i \in 1 .. Len(log') /\ log'[i] = log[i]
      BY <1>2
    <3>2. q[i] = ApplyManagement(q[i - 1], log'[i])
      BY <3>1 DEF Replays
    <3>3. QED BY <1>4, <3>1, <3>2
  <2>3. \A i \in 0 .. Len(log) : WellFormed(r[i])
    BY <1>4 DEF Replays
  <2>4. \A i, j \in 0 .. Len(log) : i <= j => r[i].next <= r[j].next
    BY <1>4 DEF Replays
  <2>5. QED BY <1>4, <2>1, <2>2, <2>3, <2>4 DEF Replays
<1>6. ASSUME NamedFirst(r, c, n) PROVE NamedFirst(q, c, n)'
  <2>1. PICK i \in 1 .. Len(log) : /\ log[i].type = "Create" /\ r[i - 1].next = c
                                   /\ log[i].nodes # <<>> /\ Head(log[i].nodes) = n
    BY <1>6 DEF NamedFirst
  <2>2. i - 1 \in 0 .. Len(log) /\ i \in 1 .. Len(log') /\ log'[i] = log[i]
    BY <1>2
  <2>3. r[i - 1] = q[i - 1]
    BY <1>4, <2>2
  <2>4. QED BY <2>1, <2>2, <2>3 DEF NamedFirst
<1>7. ASSUME Alone(r, c, n) PROVE Alone(q, c, n)'
  BY <1>4, <1>7 DEF Alone
<1>8. QED BY <1>5, <1>6, <1>7

\* A group is rooted when an observer founds it.
LEMMA ObserveRooted ==
    ASSUME Types, History, NEW n \in Node, Observe(n), NEW r, Replays(r),
           NEW g \in Founding' \ Founding
    PROVE  NamedFirst(r, g.cluster, n) \/ Alone(r, g.cluster, n)
<1> DEFINE k == obs[n] + 1
<1>1. PICK e \in Event : e = events[n][k]
  BY ObserveFounds
<1>2. /\ k \in DOMAIN events[n] /\ g = Group(e.cluster, n)
      /\ \/ e.type = "Created" /\ n \in Range(e.nodes) /\ Head(e.nodes) = n
         \/ /\ e.type = "Add" /\ e.cluster \in DOMAIN sm[n].clusters
            /\ Range(sm[n].clusters[e.cluster].nodes) = {n}
  BY <1>1, ObserveFounds
<1>3. g.cluster = e.cluster
  BY <1>2 DEF Group
<1>4. sm[n] = r[applied[n]] /\ HeardOf(r, n)
  BY EveryReplay DEF AtPoint
<1>5. applied[n] \in 0 .. Len(log) /\ Len(log) \in Nat
  BY DEF Types
<1>6. CASE e.type = "Created" /\ n \in Range(e.nodes) /\ Head(e.nodes) = n
  <2>1. PICK i \in 1 .. applied[n] : log[i].type = "Create" /\ e = Creation(r[i - 1], log[i])
    BY <1>1, <1>2, <1>4, <1>6 DEF HeardOf
  <2>2. e.cluster = r[i - 1].next /\ e.nodes = log[i].nodes
    BY <2>1 DEF Creation
  <2>3. e.nodes # <<>>
    BY <1>6 DEF Range
  <2>4. i \in 1 .. Len(log)
    BY <1>5
  <2>5. QED BY <1>3, <1>6, <2>1, <2>2, <2>3, <2>4 DEF NamedFirst
<1>7. CASE e.type = "Add" /\ e.cluster \in DOMAIN sm[n].clusters
           /\ Range(sm[n].clusters[e.cluster].nodes) = {n}
  BY <1>3, <1>4, <1>5, <1>7 DEF Alone
<1>8. QED BY <1>2, <1>6, <1>7

\* Every step keeps the lineage.
LEMMA NextLineage ==
    ASSUME Types, Types', History, Kinds, Lineage
    PROVE  Lineage'
<1>1. InOrder /\ (\A g \in Founding : Stands(g)) /\ \A r : Replays(r) => Rooted(r)
  BY DEF Lineage
<1>2. InOrder'
  BY <1>1, NextInOrder
<1>3. ASSUME NEW q, Replays(q)', NEW g \in Founding
      PROVE  NamedFirst(q, g.cluster, g.founder)' \/ Alone(q, g.cluster, g.founder)'
  <2>1. PICK c, f : c = g.cluster /\ f = g.founder
    OBVIOUS
  <2>2. \A r : Replays(r) => NamedFirst(r, c, f) \/ Alone(r, c, f)
    BY <1>1, <2>1 DEF Rooted
  <2>3. NamedFirst(q, c, f)' \/ Alone(q, c, f)'
    BY <1>3, <2>2, RootedBefore
  <2>4. QED BY <2>1, <2>3
<1>4. CASE Founding' = Founding /\ \A g \in Founding : Stands(g)'
  <2>1. \A q : Replays(q)' => Rooted(q)'
    BY <1>3, <1>4 DEF Rooted
  <2>2. QED BY <1>2, <1>4, <2>1 DEF Lineage
<1>5. ASSUME UNCHANGED <<obs, runtimes, members>> PROVE Lineage'
  <2>1. Founding' = Founding
    BY <1>5 DEF Founding
  <2>2. QED BY <1>1, <1>4, <1>5, <2>1, StandsBefore
<1>6. ASSUME NEW n \in Node, Lag(n) PROVE Lineage'
  <2>1. UNCHANGED <<log, sm, events, runtimes, members>>
        /\ Len(events[n]) - obs[n] > BusSize
        /\ obs' = [obs EXCEPT ![n] = Len(events[n]) - BusSize]
    BY <1>6 DEF Lag, raftVars, nodeVars, subVars
  <2>2. /\ obs \in [Node -> Nat] /\ obs' \in [Node -> Nat] /\ BusSize \in Nat
        /\ events[n] \in Seq(Event) /\ Len(events[n]) \in Nat
    <3>1. obs \in [Node -> Nat] /\ obs' \in [Node -> Nat] /\ events[n] \in Seq(Event)
      BY DEF Types
    <3>2. BusSize \in Nat
      BY RuntimeAssumption
    <3>3. QED BY <3>1, <3>2
  <2>3. \A m \in Node : obs[m] \in Nat /\ obs'[m] \in Nat /\ obs[m] <= obs'[m]
    BY <2>1, <2>2
  <2>4. Founding' = Founding /\ \A c, f : Kept(c, f)' <=> Kept(c, f)
    BY <2>1 DEF Founding, Kept
  <2>5. ASSUME NEW g \in Founding PROVE Stands(g)'
    <3>1. g.founder \in Node
      BY FoundersType
    <3>2. g.since \in 1 .. obs[g.founder] /\ Stands(g)
      BY <1>1 DEF Stands
    <3>3. g.since \in 1 .. obs'[g.founder]
      BY <2>3, <3>1, <3>2
    <3>4. QED BY <2>1, <2>4, <3>2, <3>3 DEF Stands
  <2>6. QED BY <1>4, <2>4, <2>5
<1>7. ASSUME NEW n \in Node, Observe(n) PROVE Lineage'
  <2>1. \A g \in Founding' : Stands(g)'
    BY <1>1, <1>7, ObserveStands
  <2>2. ASSUME NEW q, Replays(q)', NEW g \in Founding'
        PROVE  NamedFirst(q, g.cluster, g.founder)' \/ Alone(q, g.cluster, g.founder)'
    <3>1. CASE g \in Founding
      BY <1>3, <2>2, <3>1
    <3>2. CASE g \notin Founding
      <4>1. log' = log
        BY <1>7 DEF Observe, raftVars
      <4>2. Replays(q)
        BY <2>2, <4>1 DEF Replays
      <4>3. g.founder = n
        BY <1>7, <3>2, ObserveFounds DEF Group
      <4>4. NamedFirst(q, g.cluster, n) \/ Alone(q, g.cluster, n)
        BY <1>7, <3>2, <4>2, ObserveRooted
      <4>5. PICK c : c = g.cluster
        OBVIOUS
      <4>6. NamedFirst(q, c, n)' \/ Alone(q, c, n)'
        BY <4>1, <4>4, <4>5 DEF NamedFirst, Alone
      <4>7. QED BY <4>3, <4>5, <4>6
    <3>3. QED BY <3>1, <3>2
  <2>3. \A q : Replays(q)' => Rooted(q)'
    BY <2>2 DEF Rooted
  <2>4. QED BY <1>2, <2>1, <2>3 DEF Lineage
<1>8. ASSUME \/ LocalStep \/ CommitStep
             \/ (\E n \in Node : Apply(n))
             \/ (\E n, m \in Node : InstallSnapshot(n, m))
             \/ (\E n \in Node : DetectFailure(n))
      PROVE  UNCHANGED <<obs, runtimes, members>>
  BY <1>8 DEF LocalStep, CommitStep, Apply, InstallSnapshot, DetectFailure, obsVars, subVars
<1>9. QED BY <1>5, <1>6, <1>7, <1>8 DEF Kinds

\* The node that was named first is a member from then on; nobody was before.
LEMMA FirstIsMember ==
    ASSUME Types, NEW r, Replays(r), NEW c \in Nat, NEW n, NEW i \in 1 .. Len(log),
           log[i].type = "Create", r[i - 1].next = c,
           log[i].nodes # <<>>, Head(log[i].nodes) = n
    PROVE  /\ Member(r[i], c, n)
           /\ \A j \in 0 .. Len(log) : c \in DOMAIN r[j].clusters => i <= j
<1>1. log \in Seq(Command) /\ Len(log) \in Nat
  BY DEF Types
<1>2. log[i] \in Command /\ i - 1 \in 0 .. Len(log)
  BY <1>1
<1>3. log[i].nodes \in Seq(Node)
  BY <1>2, CommandFields DEF CreateCommand
<1>4. n \in Range(log[i].nodes)
  BY <1>3 DEF Range
<1>5. r[i] = ApplyManagement(r[i - 1], log[i]) /\ WellFormed(r[i - 1])
  BY <1>2 DEF Replays
<1>6. Member(r[i], c, n)
  BY <1>2, <1>4, <1>5, ApplyCreateProperties
<1>7. ASSUME NEW j \in 0 .. Len(log), c \in DOMAIN r[j].clusters PROVE i <= j
  <2>1. WellFormed(r[j]) /\ r[j].next \in Nat /\ c < r[j].next
    BY <1>7 DEF Replays, WellFormed
  <2>2. j <= i - 1 => r[j].next <= c
    BY <1>2 DEF Replays
  <2>3. QED BY <1>1, <2>1, <2>2
<1>8. QED BY <1>6, <1>7

\* Two founders of a sub-cluster that were never removed are the same node.
LEMMA OneFounder ==
    ASSUME Types, NEW r, Replays(r), NEW c \in Nat, NEW n, NEW m,
           Kept(c, n), Kept(c, m),
           NamedFirst(r, c, n) \/ Alone(r, c, n), NamedFirst(r, c, m) \/ Alone(r, c, m)
    PROVE  n = m
<1>1. Len(log) \in Nat
  BY DEF Types
<1>2. ASSUME NEW x, NEW y, Kept(c, x), NEW i \in 0 .. Len(log), Member(r[i], c, x),
             NEW j \in i .. Len(log), c \in DOMAIN r[j].clusters, Range(r[j].clusters[c].nodes) = {y}
      PROVE  x = y
  <2>1. Member(r[j], c, x)
    BY <1>2, MembersStay
  <2>2. QED BY <1>2, <2>1 DEF Member
<1>3. ASSUME NEW x, NEW y, Kept(c, x), NamedFirst(r, c, x), Alone(r, c, y) PROVE x = y
  <2>1. PICK i \in 1 .. Len(log) : /\ log[i].type = "Create" /\ r[i - 1].next = c
                                   /\ log[i].nodes # <<>> /\ Head(log[i].nodes) = x
    BY <1>3 DEF NamedFirst
  <2>2. PICK j \in 0 .. Len(log) : c \in DOMAIN r[j].clusters /\ Range(r[j].clusters[c].nodes) = {y}
    BY <1>3 DEF Alone
  <2>3. Member(r[i], c, x) /\ i <= j
    BY <2>1, <2>2, FirstIsMember
  <2>4. i \in 0 .. Len(log) /\ j \in i .. Len(log)
    BY <1>1, <2>3
  <2>5. QED BY <1>2, <1>3, <2>2, <2>3, <2>4
<1>4. CASE NamedFirst(r, c, n) /\ NamedFirst(r, c, m)
  <2>1. PICK i \in 1 .. Len(log) : /\ log[i].type = "Create" /\ r[i - 1].next = c
                                   /\ log[i].nodes # <<>> /\ Head(log[i].nodes) = n
    BY <1>4 DEF NamedFirst
  <2>2. PICK j \in 1 .. Len(log) : /\ log[j].type = "Create" /\ r[j - 1].next = c
                                   /\ log[j].nodes # <<>> /\ Head(log[j].nodes) = m
    BY <1>4 DEF NamedFirst
  <2>3. c \in DOMAIN r[i].clusters /\ c \in DOMAIN r[j].clusters
    BY <2>1, <2>2, FirstIsMember DEF Member
  <2>4. i \in 0 .. Len(log) /\ j \in 0 .. Len(log)
    BY <1>1
  <2>5. i <= j /\ j <= i
    BY <2>1, <2>2, <2>3, <2>4, FirstIsMember
  <2>6. i = j
    BY <2>4, <2>5
  <2>7. QED BY <2>1, <2>2, <2>6
<1>5. CASE Alone(r, c, n) /\ Alone(r, c, m)
  <2>1. PICK i \in 0 .. Len(log) : c \in DOMAIN r[i].clusters /\ Range(r[i].clusters[c].nodes) = {n}
    BY <1>5 DEF Alone
  <2>2. PICK j \in 0 .. Len(log) : c \in DOMAIN r[j].clusters /\ Range(r[j].clusters[c].nodes) = {m}
    BY <1>5 DEF Alone
  <2>3. Member(r[i], c, n) /\ Member(r[j], c, m)
    BY <2>1, <2>2 DEF Member
  <2>4. j \in i .. Len(log) \/ i \in j .. Len(log)
    BY <1>1
  <2>5. QED BY <1>2, <2>1, <2>2, <2>3, <2>4
<1>6. QED BY <1>3, <1>4, <1>5

\* With that lineage, a second group needs a founder that was removed.
LEMMA LineageIsOne == Types /\ History /\ Lineage => OneGroupPerSubCluster
<1> SUFFICES ASSUME Types, History, Lineage, NEW v \in members, NEW w \in members,
                    Rivals(v[1], w[1])
             PROVE  \E i \in DOMAIN log :
                        log[i] \in {RemoveNode(v[1].cluster, v[1].founder),
                                    RemoveNode(v[1].cluster, w[1].founder)}
  BY DEF OneGroupPerSubCluster
<1>1. PICK g, h \in Founding : g = v[1] /\ h = w[1] /\ g # h /\ g.cluster = h.cluster
  BY DEF Founding, Rivals
<1>2. PICK c \in Nat : c = g.cluster
  BY FoundersType
<1>3. SUFFICES ASSUME Kept(c, g.founder), Kept(c, h.founder) PROVE FALSE
  BY <1>1, <1>2 DEF Kept
<1>4. PICK r : Replays(r)
  BY DEF History
<1>5. /\ NamedFirst(r, c, g.founder) \/ Alone(r, c, g.founder)
      /\ NamedFirst(r, c, h.founder) \/ Alone(r, c, h.founder)
  BY <1>1, <1>2, <1>4 DEF Lineage, Rooted
<1>6. g.founder = h.founder
  BY <1>2, <1>3, <1>4, <1>5, OneFounder
<1>7. Stands(g)
  BY DEF Lineage
<1>8. QED BY <1>1, <1>2, <1>3, <1>6, <1>7 DEF Stands

\* Nothing is founded at first.
LEMMA InitLineage == Init => Lineage
<1> SUFFICES ASSUME Init PROVE Lineage
  OBVIOUS
<1>1. Founding = {} /\ \A n \in Node : DOMAIN events[n] = {}
  BY DEF Init, Founding
<1>2. QED BY <1>1 DEF Lineage, InOrder, Rooted

\* A sub-cluster has a second Raft group only if the founder of one of the two
\* was removed from it: the node named first founds one, and one that is added
\* founds another only where it finds itself alone, which it cannot while the
\* founder is a member; and no founder that stays starts its Raft node a second
\* time (run_event_observer), over failed starts, lost events and snapshots.
THEOREM GroupsAreNotSplit == Spec => []OneGroupPerSubCluster
<1>1. Init => Types /\ History /\ Lineage
  BY InitTypes, InitHistory, InitLineage
<1>2. Types /\ History /\ Lineage /\ [Next]_vars => (Types /\ History /\ Lineage)'
  BY NextTypes, NextHistory, NextLineage
<1>3. QED BY <1>1, <1>2, LineageIsOne, PTL DEF Spec

-----------------------------------------------------------------------------
(* While nothing is taken away, no node is stranded. *)

\* Node x is in a sub-cluster that was created after c.
Younger(s, c, x) == \E d \in Nat : d > c /\ Member(s, d, x)

\* Instruction i founds a sub-cluster with node x, or will put x in one.
Founds(i, x) == i.op = "propose" /\ i.cmd.type = "Create" /\ x \in Range(i.cmd.nodes)

Places(i, x) ==
    \/ i.op = "decide" /\ i.node = x
    \/ i.op = "propose" /\ i.cmd.type = "Add" /\ i.cmd.node = x
    \/ Founds(i, x)

\* What an operation that only adds may still have to execute; what it adds to
\* and removes from exists.
Grows(i, s) ==
    /\ i.op = "propose" => i.cmd.type \in {"Register", "Create", "Add", "Remove"}
    /\ i.op = "propose" /\ i.cmd.type \in {"Add", "Remove"} =>
           i.cmd.cluster \in DOMAIN s.clusters
    /\ i.op = "call" => /\ i.cmd.type \in {"Create", "Add", "Metadata"}
                        /\ i.after \in {"id", "nothing", "splits"}
    /\ i.op = "decide" => i.how = "placement"

\* A node is removed from a sub-cluster only once it is in a younger one, or
\* behind the command that founds one; it is registered ahead of its placement.
Removal(q, j, s) ==
    q[j].op = "propose" /\ q[j].cmd.type = "Remove" =>
        \/ Younger(s, q[j].cmd.cluster, q[j].cmd.node)
        \/ \E i \in DOMAIN q : i < j /\ Founds(q[i], q[j].cmd.node)

Registration(q, j) ==
    q[j].op = "propose" /\ q[j].cmd.type = "Register" =>
        \E i \in DOMAIN q : j < i /\ Places(q[i], q[j].cmd.node)

GrowingCode(q, s) ==
    \A j \in DOMAIN q : Grows(q[j], s) /\ Removal(q, j, s) /\ Registration(q, j)

PlacedBy(q, x) == \E j \in DOMAIN q : Places(q[j], x)

\* Every registered node is in a sub-cluster or on its way into one.
Settled(s, ts) ==
    \A x \in s.addresses : Younger(s, 0, x) \/ \E t \in DOMAIN ts : PlacedBy(ts[t].code, x)

GrowingTasks(s, ts) == \A t \in DOMAIN ts : GrowingCode(ts[t].code, s)

Growing(r) ==
    /\ \A i \in 0 .. Len(log) : DOMAIN r[i].clusters \subseteq DOMAIN r[Len(log)].clusters
    /\ GrowingTasks(r[Len(log)], tasks)
    /\ Settled(r[Len(log)], tasks)

GrowthInv ==
    /\ env.lost <= MaxLost
    /\ OnlyGrowth => \A r : Replays(r) => Growing(r)

\* From s to t no sub-cluster goes, and nobody has to step back to an older one.
Grew(s, t) ==
    /\ DOMAIN s.clusters \subseteq DOMAIN t.clusters
    /\ \A c \in Nat : \A x : Younger(s, c, x) => Younger(t, c, x)

-----------------------------------------------------------------------------
(* One command *)

\* The ids and addresses a command leaves, if it deletes nothing.
LEMMA ApplyKeeps ==
    ASSUME NEW s, WellFormed(s), NEW c \in Command, c.type # "Delete"
    PROVE  LET t == ApplyManagement(s, c)
           IN  /\ DOMAIN s.clusters \subseteq DOMAIN t.clusters
               /\ t.addresses = IF c.type = "Register" THEN s.addresses \cup {c.node}
                                                       ELSE s.addresses
<1> DEFINE t == ApplyManagement(s, c)
<1>0. s = [clusters |-> s.clusters, next |-> s.next, addresses |-> s.addresses]
  BY DEF WellFormed, Snapshot
<1>w. ASSUME NEW d, NEW sub
      PROVE  /\ DOMAIN s.clusters \subseteq DOMAIN With(s, d, sub).clusters
             /\ With(s, d, sub).addresses = s.addresses
             /\ With(s, d, sub).next = s.next
             /\ With(s, d, sub) = [clusters |-> With(s, d, sub).clusters,
                                   next |-> s.next, addresses |-> s.addresses]
  <2> DEFINE k == [e \in DOMAIN s.clusters \cup {d} |-> IF e = d THEN sub ELSE s.clusters[e]]
  <2>1. With(s, d, sub) = [clusters |-> k, next |-> s.next, addresses |-> s.addresses]
    BY <1>0 DEF With
  <2>2. DOMAIN s.clusters \subseteq DOMAIN k
    OBVIOUS
  <2> HIDE DEF k
  <2>3. QED BY <2>1, <2>2
<1>1. CASE ~Succeeds(s, c)
  <2>1. c.type # "Register"
    BY <1>1 DEF Succeeds
  <2>2. QED BY <1>1, <2>1, ApplyFailed
<1>2. CASE c.type = "Create"
  <2> DEFINE u == With(s, s.next, [nodes |-> c.nodes, draining |-> None])
  <2>1. t = [u EXCEPT !.next = @ + 1]
    BY <1>2 DEF ApplyManagement, Succeeds, ApplyCreate
  <2>2. /\ DOMAIN s.clusters \subseteq DOMAIN u.clusters /\ u.addresses = s.addresses
        /\ u = [clusters |-> u.clusters, next |-> s.next, addresses |-> s.addresses]
    BY <1>w
  <2> HIDE DEF u
  <2>3. t.clusters = u.clusters /\ t.addresses = u.addresses
    BY <2>1, <2>2
  <2>4. QED BY <1>2, <2>2, <2>3
<1>3. CASE c.type = "Register"
  <2>1. t = [s EXCEPT !.addresses = @ \cup {c.node}]
    BY <1>3 DEF ApplyManagement, Succeeds
  <2>2. t.clusters = s.clusters /\ t.addresses = s.addresses \cup {c.node}
    BY <1>0, <2>1
  <2>3. QED BY <1>3, <2>2
<1>4. CASE Succeeds(s, c) /\ c.type = "Add"
  <2>1. t = ApplyAdd(s, c.cluster, c.node)
    BY <1>4 DEF ApplyManagement
  <2>2. QED BY <1>4, <1>w, <2>1 DEF ApplyAdd
<1>5. CASE Succeeds(s, c) /\ c.type = "Remove"
  <2>1. t = ApplyRemove(s, c.cluster, c.node)
    BY <1>5 DEF ApplyManagement
  <2>2. QED BY <1>5, <1>w, <2>1 DEF ApplyRemove
<1>6. CASE Succeeds(s, c) /\ c.type = "Metadata"
  <2>1. t = ApplyMetadata(s, c.cluster, c.value)
    BY <1>6 DEF ApplyManagement
  <2>2. QED BY <1>6, <1>w, <2>1 DEF ApplyMetadata
<1>7. QED BY <1>1, <1>2, <1>3, <1>4, <1>5, <1>6, CommandFields

\* A command that deletes nothing, and removes a node only from a sub-cluster
\* older than another one of the node, lets the state grow.
LEMMA ApplyGrows ==
    ASSUME NEW s, WellFormed(s), NEW c \in Command, c.type # "Delete",
           c.type = "Remove" => Younger(s, c.cluster, c.node)
    PROVE  Grew(s, ApplyManagement(s, c))
<1> DEFINE t == ApplyManagement(s, c)
<1>1. DOMAIN s.clusters \subseteq DOMAIN t.clusters
  BY ApplyKeeps
<1>2. CASE c.type # "Remove" \/ ~Succeeds(s, c)
  <2>1. \A d, x : Member(s, d, x) => Member(t, d, x)
    <3>1. CASE ~Succeeds(s, c)
      BY <3>1, ApplyFailed
    <3>2. CASE c.type = "Create"
      <4>1. \A x : ~ Member(s, s.next, x)
        BY DEF WellFormed, Member
      <4>2. QED BY <3>2, <4>1, ApplyCreateProperties
    <3>3. CASE c.type = "Register"
      BY <3>3, ApplyRegisterProperties
    <3>4. CASE c.type = "Add" /\ Succeeds(s, c)
      BY <3>4, ApplyAddProperties
    <3>5. CASE c.type = "Metadata" /\ Succeeds(s, c)
      BY <3>5, ApplyMetadataProperties
    <3>6. QED BY <1>2, <3>1, <3>2, <3>3, <3>4, <3>5, CommandFields
  <2>2. QED BY <1>1, <2>1 DEF Grew, Younger
<1>3. CASE c.type = "Remove" /\ Succeeds(s, c)
  <2>1. \A d, x : Member(t, d, x) <=> Member(s, d, x) /\ ~ (d = c.cluster /\ x = c.node)
    BY <1>3, ApplyRemoveProperties
  <2>2. c.cluster \in Nat
    BY <1>3, CommandFields DEF MemberCommand
  <2>3. PICK e \in Nat : e > c.cluster /\ Member(s, e, c.node)
    BY <1>3 DEF Younger
  <2>4. Member(t, e, c.node)
    BY <2>1, <2>2, <2>3
  <2> HIDE DEF t
  <2>5. ASSUME NEW b \in Nat, NEW x, Younger(s, b, x) PROVE Younger(t, b, x)
    <3>1. PICK d \in Nat : d > b /\ Member(s, d, x)
      BY <2>5 DEF Younger
    <3>2. CASE d = c.cluster /\ x = c.node
      BY <2>2, <2>3, <2>4, <3>1, <3>2 DEF Younger
    <3>3. CASE ~ (d = c.cluster /\ x = c.node)
      BY <2>1, <3>1, <3>3 DEF Younger
    <3>4. QED BY <3>2, <3>3
  <2>6. QED BY <1>1, <2>5 DEF Grew, t
<1>4. QED BY <1>2, <1>3

\* A creation puts its nodes in the youngest sub-cluster.
LEMMA ApplyFounds ==
    ASSUME NEW s, WellFormed(s), NEW c \in Command, c.type = "Create",
           NEW x \in Range(c.nodes), NEW b \in DOMAIN s.clusters \cup {0}
    PROVE  Younger(ApplyManagement(s, c), b, x)
<1>1. Member(ApplyManagement(s, c), s.next, x)
  BY ApplyCreateProperties
<1>2. s.next \in Nat /\ s.next > b
  BY DEF WellFormed
<1>3. QED BY <1>1, <1>2 DEF Younger

\* An addition to a sub-cluster that exists puts its node there.
LEMMA ApplyAdds ==
    ASSUME NEW s, WellFormed(s), NEW c \in Command, c.type = "Add",
           c.cluster \in DOMAIN s.clusters
    PROVE  Younger(ApplyManagement(s, c), 0, c.node)
<1>1. Succeeds(s, c) /\ c.cluster \in Nat /\ c.cluster > 0
  BY DEF Succeeds, WellFormed
<1>2. Member(ApplyManagement(s, c), c.cluster, c.node)
  BY <1>1, ApplyAddProperties
<1>3. QED BY <1>1, <1>2 DEF Younger

-----------------------------------------------------------------------------
(* What the operations and the decisions propose *)

\* Commands that found sub-clusters and remove from old ones who is in them.
Splitting(cmds, s) ==
    \A j \in DOMAIN cmds :
        /\ cmds[j].type \in {"Create", "Remove"}
        /\ cmds[j].type = "Remove" =>
               /\ cmds[j].cluster \in DOMAIN s.clusters
               /\ \E i \in DOMAIN cmds : /\ i < j /\ cmds[i].type = "Create"
                                         /\ cmds[j].node \in Range(cmds[i].nodes)

\* A split founds first.
LEMMA SplitMoves ==
    ASSUME NEW s, WellFormed(s), NEW c \in DOMAIN s.clusters
    PROVE  Splitting(Split(s, c), s)
<1> DEFINE sorted == Sort(s.clusters[c].nodes)
           k == IF SplitSize < Len(sorted) THEN SplitSize ELSE Len(sorted)
           moved == SubSeq(sorted, 1, k)
           removals == [i \in DOMAIN moved |-> RemoveNode(c, moved[i])]
<1>1. SplitSize \in Nat /\ s.clusters[c].nodes \in Seq(Node) /\ c \in Nat
  BY ManagementAssumption DEF WellFormed, SubCluster
<1>2. sorted \in Seq(Node)
  BY <1>1, SortType
<1> HIDE DEF sorted
<1>3. k \in Int /\ \A i \in 1 .. k : sorted[i] \in Node
  BY <1>1, <1>2
<1> HIDE DEF k
<1>4. moved \in Seq(Node)
  BY <1>3, SubSeqProperties
<1>5. Split(s, c) = <<CreateSubCluster(moved)>> \o removals
  BY DEF Split, k, sorted
<1> HIDE DEF moved
<1>6. PICK n \in Nat : n = Len(moved) /\ DOMAIN moved = 1 .. n /\ DOMAIN removals = 1 .. n
  BY <1>4
<1>7. removals \in Seq(Command)
  <2>1. \A i \in 1 .. n : RemoveNode(c, moved[i]) \in Command
    BY <1>1, <1>4, <1>6, CommandTypes
  <2>2. QED BY <1>6, <2>1
<1>8. Len(removals) = n
  BY <1>6, <1>7
<1>9. PICK q : q = Split(s, c)
  OBVIOUS
<1>10. /\ DOMAIN q = 1 .. n + 1 /\ q[1] = CreateSubCluster(moved)
       /\ \A j \in 2 .. n + 1 : q[j] = removals[j - 1]
  <2>1. CreateSubCluster(moved) \in Command
    BY <1>4, CommandTypes
  <2> HIDE DEF removals
  <2>2. QED BY <1>5, <1>7, <1>8, <1>9, <2>1
<1>11. q[1].type = "Create" /\ q[1].nodes = moved /\ 1 \in DOMAIN q
  BY <1>10 DEF CreateSubCluster
<1>12. ASSUME NEW j \in 2 .. n + 1
       PROVE  q[j].type = "Remove" /\ q[j].cluster = c /\ q[j].node \in Range(moved)
  <2>1. j - 1 \in 1 .. n
    BY <1>6
  <2>2. q[j] = RemoveNode(c, moved[j - 1])
    BY <1>6, <1>10, <2>1
  <2>3. moved[j - 1] \in Range(moved)
    BY <1>6, <2>1 DEF Range
  <2>4. QED BY <2>2, <2>3 DEF RemoveNode
<1>13. ASSUME NEW j \in DOMAIN q PROVE j = 1 \/ (j \in 2 .. n + 1 /\ 1 < j)
  BY <1>10
<1>14. QED BY <1>9, <1>11, <1>12, <1>13 DEF Splitting

\* One split after the other.
LEMMA SplittingConcat ==
    ASSUME NEW s, NEW a \in Seq(Command), NEW b \in Seq(Command),
           Splitting(a, s), Splitting(b, s)
    PROVE  Splitting(a \o b, s)
<1>1. PICK m \in Nat, n \in Nat : /\ m = Len(a) /\ n = Len(b)
                                  /\ DOMAIN a = 1 .. m /\ DOMAIN b = 1 .. n
  OBVIOUS
<1>2. PICK q : q = a \o b
  OBVIOUS
<1>3. /\ DOMAIN q = 1 .. m + n
      /\ \A i \in 1 .. m : q[i] = a[i] /\ i \in DOMAIN q
      /\ \A i \in 1 .. n : q[m + i] = b[i] /\ m + i \in DOMAIN q
  BY <1>1, <1>2
<1>4. ASSUME NEW j \in 1 .. m
      PROVE  /\ q[j].type \in {"Create", "Remove"}
             /\ q[j].type = "Remove" =>
                    /\ q[j].cluster \in DOMAIN s.clusters
                    /\ \E i \in DOMAIN q : /\ i < j /\ q[i].type = "Create"
                                           /\ q[j].node \in Range(q[i].nodes)
  BY <1>1, <1>3 DEF Splitting
<1>5. ASSUME NEW j \in 1 .. n
      PROVE  /\ q[m + j].type \in {"Create", "Remove"}
             /\ q[m + j].type = "Remove" =>
                    /\ q[m + j].cluster \in DOMAIN s.clusters
                    /\ \E i \in DOMAIN q : /\ i < m + j /\ q[i].type = "Create"
                                           /\ q[m + j].node \in Range(q[i].nodes)
  <2>1. q[m + j] = b[j] /\ j \in DOMAIN b
    BY <1>1, <1>3
  <2>2. b[j].type \in {"Create", "Remove"}
        /\ (b[j].type = "Remove" => b[j].cluster \in DOMAIN s.clusters)
    BY <2>1 DEF Splitting
  <2>3. ASSUME b[j].type = "Remove"
        PROVE  \E i \in DOMAIN q : /\ i < m + j /\ q[i].type = "Create"
                                   /\ b[j].node \in Range(q[i].nodes)
    <3>1. PICK i \in 1 .. n : i < j /\ b[i].type = "Create" /\ b[j].node \in Range(b[i].nodes)
      BY <1>1, <2>1, <2>3 DEF Splitting
    <3>2. m + i < m + j
      BY <3>1
    <3>3. QED BY <1>3, <3>1, <3>2
  <2>4. QED BY <2>1, <2>2, <2>3
<1>6. ASSUME NEW j \in 1 .. m + n PROVE j \in 1 .. m \/ \E i \in 1 .. n : j = m + i
  <2>1. CASE j > m
    <3>1. j - m \in 1 .. n /\ j = m + (j - m)
      BY <2>1
    <3>2. QED BY <3>1
  <2>2. QED BY <2>1
<1>7. ASSUME NEW j \in DOMAIN q
      PROVE  /\ q[j].type \in {"Create", "Remove"}
             /\ q[j].type = "Remove" =>
                    /\ q[j].cluster \in DOMAIN s.clusters
                    /\ \E i \in DOMAIN q : /\ i < j /\ q[i].type = "Create"
                                           /\ q[j].node \in Range(q[i].nodes)
  <2>1. CASE j \in 1 .. m
    BY <1>4, <2>1
  <2>2. CASE \E i \in 1 .. n : j = m + i
    BY <1>5, <2>2
  <2>3. QED BY <1>3, <1>6, <2>1, <2>2
<1>8. QED BY <1>2, <1>7 DEF Splitting

\* Whichever order the full sub-clusters are split in.
LEMMA SplitsMove ==
    ASSUME NEW s, WellFormed(s), NEW d \in decide_splits(s)
    PROVE  Splitting(d, s)
<1> DEFINE full == {c \in Active(s) : Size(s, c) >= MaxSize}
<1>0. SplitSize \in Nat
  BY ManagementAssumption
<1>1. full \in SUBSET DOMAIN s.clusters
  BY DEF Active
<1>2. PICK p \in SetToSeqs(full) : d = FlattenSeq([i \in DOMAIN p |-> Split(s, p[i])])
  BY DEF decide_splits
<1>3. Len(p) \in Nat /\ DOMAIN p = 1 .. Len(p) /\ \A i \in DOMAIN p : p[i] \in DOMAIN s.clusters
  BY <1>1, OrderType
<1>4. PICK seqs : seqs = [i \in DOMAIN p |-> Split(s, p[i])]
  OBVIOUS
<1>5. \A i \in 1 .. Len(p) : Split(s, p[i]) \in Seq(Command) /\ Splitting(Split(s, p[i]), s)
  BY <1>0, <1>3, SplitType, SplitMoves
<1>6. seqs \in Seq(Seq(Command)) /\ DOMAIN seqs = 1 .. Len(p)
  BY <1>3, <1>4, <1>5
<1>7. PICK n \in Nat : n = Len(seqs) /\ n = Len(p)
  <2>1. PICK n \in Nat : n = Len(p)
    BY <1>3
  <2>2. n = Len(seqs)
    BY <1>6, <2>1
  <2>3. QED BY <2>1, <2>2
<1>8. \A i \in 1 .. n : seqs[i] \in Seq(Command) /\ Splitting(seqs[i], s)
  BY <1>3, <1>4, <1>5, <1>7
<1>9. CASE n = 0
  <2>1. seqs = <<>> /\ FlattenSeq(seqs) = seqs
    BY <1>6, <1>7, <1>9 DEF FlattenSeq
  <2>2. QED BY <1>2, <1>4, <2>1 DEF Splitting
<1>10. CASE n # 0
  <2>1. PICK f : Flattens(f, seqs, n) /\ FlattenSeq(seqs) = f[n]
    BY <1>7, <1>10, FlattenDefined
  <2>2. \A k \in 1 .. n : f[k] = IF k = 1 THEN seqs[k] ELSE f[k - 1] \o seqs[k]
    BY <2>1 DEF Flattens
  <2> DEFINE Bad == {k \in 1 .. n : ~ (f[k] \in Seq(Command) /\ Splitting(f[k], s))}
  <2>3. ASSUME Bad # {} PROVE FALSE
    <3>1. Bad \in SUBSET Nat
      BY <1>7
    <3>2. PICK k \in Bad : \A y \in Bad : k <= y
      BY <2>3, <3>1, LeastNumber
    <3>3. k \in 1 .. n /\ ~ (f[k] \in Seq(Command) /\ Splitting(f[k], s))
      BY <3>2
    <3>4. k # 1
      BY <1>8, <2>2, <3>3
    <3>5. k - 1 \in 1 .. n /\ k - 1 \notin Bad
      BY <3>2, <3>3, <3>4
    <3>6. f[k - 1] \in Seq(Command) /\ Splitting(f[k - 1], s)
      BY <3>5
    <3>7. seqs[k] \in Seq(Command) /\ Splitting(seqs[k], s) /\ f[k] = f[k - 1] \o seqs[k]
      BY <1>8, <2>2, <3>3, <3>4
    <3> HIDE DEF Bad
    <3>8. f[k] \in Seq(Command)
      BY <3>6, <3>7, ConcatProperties
    <3>9. QED BY <3>3, <3>6, <3>7, <3>8, SplittingConcat
  <2>4. QED BY <1>2, <1>4, <1>10, <2>1, <2>3
<1>11. QED BY <1>9, <1>10

\* What is left to do stays right when the state grows.
LEMMA StillGrowing ==
    ASSUME NEW s, NEW t, Grew(s, t), NEW q \in Seq(Instruction), GrowingCode(q, s)
    PROVE  GrowingCode(q, t)
<1>1. SUFFICES ASSUME NEW j \in DOMAIN q
               PROVE  Grows(q[j], t) /\ Removal(q, j, t) /\ Registration(q, j)
  BY DEF GrowingCode
<1>2. q[j] \in Instruction /\ Grows(q[j], s) /\ Removal(q, j, s) /\ Registration(q, j)
  BY DEF GrowingCode
<1>3. Grows(q[j], t)
  BY <1>2 DEF Grows, Grew
<1>4. Removal(q, j, t)
  <2>1. ASSUME q[j].op = "propose", q[j].cmd.type = "Remove" PROVE q[j].cmd.cluster \in Nat
    BY <1>2, <2>1, InstructionFields, CommandFields DEF MemberCommand
  <2>2. QED BY <1>2, <2>1 DEF Removal, Grew
<1>5. QED BY <1>2, <1>3, <1>4

\* The instructions behind the first one are right in a state that has grown,
\* and has founded what that one founds.
LEMMA GrowingTail ==
    ASSUME NEW s, NEW t, Grew(s, t), NEW q \in Seq(Instruction), q # <<>>, GrowingCode(q, s),
           \A x : Founds(Head(q), x) => \A c \in DOMAIN s.clusters : Younger(t, c, x)
    PROVE  GrowingCode(Tail(q), t)
<1>0. GrowingCode(q, t)
  BY StillGrowing
<1>1. PICK n \in Nat : /\ DOMAIN q = 1 .. n + 1 /\ Len(q) = n + 1
  <2>1. Len(q) \in Nat /\ Len(q) # 0 /\ DOMAIN q = 1 .. Len(q)
    OBVIOUS
  <2>2. Len(q) - 1 \in Nat /\ Len(q) = (Len(q) - 1) + 1
    BY <2>1
  <2>3. QED BY <2>1, <2>2
<1>2. PICK u : u = Tail(q)
  OBVIOUS
<1>3. DOMAIN u = 1 .. n /\ \A i \in 1 .. n : u[i] = q[i + 1]
  BY <1>1, <1>2
<1>4. Head(q) = q[1]
  OBVIOUS
<1>5. ASSUME NEW j \in 1 .. n PROVE Grows(u[j], t) /\ Removal(u, j, t) /\ Registration(u, j)
  <2>1. PICK k \in 1 .. n + 1 : k = j + 1
    BY <1>1
  <2>2. u[j] = q[k] /\ Grows(q[k], t) /\ Removal(q, k, t) /\ Registration(q, k) /\ Grows(q[k], s)
    BY <1>0, <1>1, <1>3, <2>1 DEF GrowingCode
  <2>3. Removal(u, j, t)
    <3>1. SUFFICES ASSUME q[k].op = "propose", q[k].cmd.type = "Remove",
                          ~ Younger(t, q[k].cmd.cluster, q[k].cmd.node)
                   PROVE  \E i \in DOMAIN u : i < j /\ Founds(u[i], q[k].cmd.node)
      BY <2>2 DEF Removal
    <3>2. PICK i \in 1 .. n + 1 : i < k /\ Founds(q[i], q[k].cmd.node)
      BY <1>1, <2>2, <3>1 DEF Removal
    <3>3. i # 1
      BY <1>4, <2>2, <3>1, <3>2 DEF Grows
    <3>4. PICK h \in 1 .. n : i = h + 1
      <4>1. i - 1 \in 1 .. n /\ i = (i - 1) + 1
        BY <3>2, <3>3
      <4>2. QED BY <4>1
    <3>5. h < j /\ u[h] = q[i]
      BY <1>3, <2>1, <3>2, <3>4
    <3>6. QED BY <1>3, <3>2, <3>5
  <2>4. Registration(u, j)
    <3>1. SUFFICES ASSUME q[k].op = "propose", q[k].cmd.type = "Register"
                   PROVE  \E i \in DOMAIN u : j < i /\ Places(u[i], q[k].cmd.node)
      BY <2>2 DEF Registration
    <3>2. PICK i \in 1 .. n + 1 : k < i /\ Places(q[i], q[k].cmd.node)
      BY <1>1, <2>2, <3>1 DEF Registration
    <3>3. PICK h \in 1 .. n : i = h + 1
      <4>1. i - 1 \in 1 .. n /\ i = (i - 1) + 1
        BY <2>1, <3>2
      <4>2. QED BY <4>1
    <3>4. j < h /\ u[h] = q[i]
      BY <1>3, <2>1, <3>2, <3>3
    <3>5. QED BY <1>3, <3>2, <3>4
  <2>5. QED BY <2>2, <2>3, <2>4
<1>6. QED BY <1>2, <1>3, <1>5 DEF GrowingCode

\* Of what the code places, all but what its first instruction places is left.
LEMMA PlacedByTail ==
    ASSUME NEW q \in Seq(Instruction), q # <<>>, NEW x, PlacedBy(q, x), ~ Places(Head(q), x)
    PROVE  PlacedBy(Tail(q), x)
<1>1. PICK k \in DOMAIN q : Places(q[k], x)
  BY DEF PlacedBy
<1>2. k # 1 /\ k \in 1 .. Len(q) /\ Len(q) \in Nat
  BY <1>1
<1>3. k - 1 \in 1 .. Len(q) - 1 /\ k = (k - 1) + 1
  BY <1>2
<1>4. DOMAIN Tail(q) = 1 .. Len(q) - 1 /\ \A i \in 1 .. Len(q) - 1 : Tail(q)[i] = q[i + 1]
  BY <1>2
<1>5. QED BY <1>1, <1>3, <1>4 DEF PlacedBy

\* What is proposed first and what follows it.
LEMMA GrowingConcat ==
    ASSUME NEW s, NEW a \in Seq(Instruction), NEW b \in Seq(Instruction),
           GrowingCode(a, s), GrowingCode(b, s)
    PROVE  /\ GrowingCode(a \o b, s)
           /\ \A x : PlacedBy(a, x) \/ PlacedBy(b, x) => PlacedBy(a \o b, x)
<1>1. PICK m \in Nat, n \in Nat : /\ m = Len(a) /\ n = Len(b)
                                  /\ DOMAIN a = 1 .. m /\ DOMAIN b = 1 .. n
  OBVIOUS
<1>2. PICK q : q = a \o b
  OBVIOUS
<1>3. /\ DOMAIN q = 1 .. m + n
      /\ \A i \in 1 .. m : q[i] = a[i] /\ i \in DOMAIN q
      /\ \A i \in 1 .. n : q[m + i] = b[i] /\ m + i \in DOMAIN q
  BY <1>1, <1>2
<1>4. ASSUME NEW j \in 1 .. m PROVE Grows(q[j], s) /\ Removal(q, j, s) /\ Registration(q, j)
  <2>1. q[j] = a[j] /\ Grows(a[j], s) /\ Removal(a, j, s) /\ Registration(a, j)
    BY <1>1, <1>3 DEF GrowingCode
  <2>2. Removal(q, j, s)
    BY <1>1, <1>3, <2>1 DEF Removal
  <2>3. Registration(q, j)
    BY <1>1, <1>3, <2>1 DEF Registration
  <2>4. QED BY <2>1, <2>2, <2>3
<1>5. ASSUME NEW j \in 1 .. n
      PROVE  Grows(q[m + j], s) /\ Removal(q, m + j, s) /\ Registration(q, m + j)
  <2>1. q[m + j] = b[j] /\ Grows(b[j], s) /\ Removal(b, j, s) /\ Registration(b, j)
    BY <1>1, <1>3 DEF GrowingCode
  <2>2. \A i \in 1 .. n : (i < j => m + i < m + j) /\ (j < i => m + j < m + i)
    BY <1>1
  <2>3. Removal(q, m + j, s)
    BY <1>1, <1>3, <2>1, <2>2 DEF Removal
  <2>4. Registration(q, m + j)
    BY <1>1, <1>3, <2>1, <2>2 DEF Registration
  <2>5. QED BY <2>1, <2>3, <2>4
<1>6. ASSUME NEW j \in 1 .. m + n PROVE j \in 1 .. m \/ \E i \in 1 .. n : j = m + i
  <2>1. CASE j > m
    <3>1. j - m \in 1 .. n /\ j = m + (j - m)
      BY <2>1
    <3>2. QED BY <3>1
  <2>2. QED BY <2>1
<1>7. ASSUME NEW j \in DOMAIN q PROVE Grows(q[j], s) /\ Removal(q, j, s) /\ Registration(q, j)
  <2>1. CASE j \in 1 .. m
    BY <1>4, <2>1
  <2>2. CASE \E i \in 1 .. n : j = m + i
    BY <1>5, <2>2
  <2>3. QED BY <1>3, <1>6, <2>1, <2>2
<1>8. \A x : PlacedBy(a, x) \/ PlacedBy(b, x) => PlacedBy(q, x)
  BY <1>1, <1>3 DEF PlacedBy
<1>9. QED BY <1>2, <1>7, <1>8 DEF GrowingCode

\* The fields of a proposal.
LEMMA ProposalFields ==
    ASSUME NEW cmds \in Seq(Command)
    PROVE  /\ DOMAIN Proposals(cmds) = DOMAIN cmds
           /\ \A j \in DOMAIN cmds : /\ Proposals(cmds)[j].op = "propose"
                                     /\ Proposals(cmds)[j].cmd = cmds[j]
BY DEF Proposals, ProposeI

\* What a split proposes, also when the state has grown since it was decided.
LEMMA SplitsGrow ==
    ASSUME NEW s, WellFormed(s), NEW t, DOMAIN s.clusters \subseteq DOMAIN t.clusters,
           NEW m, NEW d \in Decisions(s, "splits", m)
    PROVE  GrowingCode(d, t)
<1>0. SplitSize \in Nat
  BY ManagementAssumption
<1>1. PICK e \in decide_splits(s) : d = Proposals(e)
  BY DEF Decisions
<1>2. e \in Seq(Command) /\ Splitting(e, s)
  BY <1>0, SplitsType, SplitsMove
<1>3. DOMAIN d = DOMAIN e /\ \A j \in DOMAIN e : d[j].op = "propose" /\ d[j].cmd = e[j]
  BY <1>1, <1>2, ProposalFields
<1>4. ASSUME NEW j \in DOMAIN d PROVE Grows(d[j], t) /\ Removal(d, j, t) /\ Registration(d, j)
  <2>1. d[j].op = "propose" /\ d[j].cmd = e[j] /\ j \in DOMAIN e
        /\ e[j].type \in {"Create", "Remove"}
        /\ (e[j].type = "Remove" => e[j].cluster \in DOMAIN t.clusters)
    BY <1>2, <1>3 DEF Splitting
  <2>2. Grows(d[j], t)
    BY <2>1 DEF Grows
  <2>3. Registration(d, j)
    BY <2>1 DEF Registration
  <2>4. ASSUME e[j].type = "Remove" PROVE \E i \in DOMAIN d : i < j /\ Founds(d[i], e[j].node)
    BY <1>2, <1>3, <2>1, <2>4 DEF Splitting, Founds
  <2>5. Removal(d, j, t)
    BY <2>1, <2>4 DEF Removal
  <2>6. QED BY <2>2, <2>3, <2>5
<1>5. QED BY <1>4 DEF GrowingCode

\* What a placement proposes puts the node in a sub-cluster that exists.
LEMMA PlacementGrows ==
    ASSUME NEW s, WellFormed(s), NEW t, DOMAIN s.clusters \subseteq DOMAIN t.clusters,
           NEW m \in Node, NEW d \in Decisions(s, "placement", m)
    PROVE  GrowingCode(d, t) /\ PlacedBy(d, m)
<1>1. PICK e \in decide_node_placement(s, m) : d = Proposals(e)
  BY DEF Decisions
<1>2. PICK c : e = <<c>> /\ (c = CreateSubCluster(<<m>>)
                                \/ \E b \in DOMAIN s.clusters : c = AddNode(b, m))
  BY DEF decide_node_placement, Smallest, Active
<1>3. DOMAIN d = {1} /\ d[1].op = "propose" /\ d[1].cmd = c
  <2>1. e \in Seq(Command)
    BY PlacementType
  <2>2. DOMAIN e = {1} /\ e[1] = c
    BY <1>2
  <2>3. QED BY <1>1, <2>1, <2>2, ProposalFields
<1>4. CASE c = CreateSubCluster(<<m>>)
  <2>1. c.type = "Create" /\ m \in Range(c.nodes)
    BY <1>4 DEF CreateSubCluster, Range
  <2>2. QED BY <1>3, <2>1 DEF GrowingCode, Grows, Removal, Registration, PlacedBy, Places, Founds
<1>5. CASE \E b \in DOMAIN s.clusters : c = AddNode(b, m)
  <2>1. c.type = "Add" /\ c.node = m /\ c.cluster \in DOMAIN t.clusters
    BY <1>5 DEF AddNode
  <2>2. QED BY <1>3, <2>1 DEF GrowingCode, Grows, Removal, Registration, PlacedBy, Places
<1>6. QED BY <1>2, <1>4, <1>5

\* The code of add_node places the node it registers.
LEMMA AddNodeGrows ==
    ASSUME NEW s, NEW m \in Node
    PROVE  GrowingCode(AddNodeCode(m), s)
<1>1. PICK q : q = AddNodeCode(m)
  OBVIOUS
<1>2. DOMAIN q = 1 .. 3 /\ q[1] = ProposeI(RegisterNodeAddress(m)) /\ q[2] = ConfI("AddNode", m)
      /\ q[3] = DecideI("placement", m)
  BY <1>1 DEF AddNodeCode
<1>3. q[1].op = "propose" /\ q[1].cmd.type = "Register" /\ q[1].cmd.node = m
  BY <1>2 DEF ProposeI, RegisterNodeAddress
<1>4. q[2].op = "conf"
  BY <1>2 DEF ConfI
<1>5. q[3].op = "decide" /\ q[3].how = "placement" /\ q[3].node = m
  BY <1>2 DEF DecideI
<1>6. Grows(q[1], s) /\ Removal(q, 1, s) /\ Registration(q, 1)
  <2>1. Places(q[3], m) /\ 3 \in DOMAIN q
    BY <1>2, <1>5 DEF Places
  <2>2. QED BY <1>3, <2>1 DEF Grows, Removal, Registration
<1>7. Grows(q[2], s) /\ Removal(q, 2, s) /\ Registration(q, 2)
  BY <1>4 DEF Grows, Removal, Registration
<1>8. Grows(q[3], s) /\ Removal(q, 3, s) /\ Registration(q, 3)
  BY <1>5 DEF Grows, Removal, Registration
<1>9. QED BY <1>1, <1>2, <1>6, <1>7, <1>8 DEF GrowingCode

\* So do the operations that only propose one command and wait for it.
LEMMA CallGrows ==
    \A c, a, s : c.type \in {"Create", "Add", "Metadata"} /\ a \in {"id", "nothing", "splits"} =>
        GrowingCode(<<CallI(c, a)>>, s)
<1> SUFFICES ASSUME NEW c, NEW a, NEW s, c.type \in {"Create", "Add", "Metadata"},
                    a \in {"id", "nothing", "splits"}
             PROVE  GrowingCode(<<CallI(c, a)>>, s)
  OBVIOUS
<1>1. PICK q : q = <<CallI(c, a)>>
  OBVIOUS
<1>2. DOMAIN q = {1} /\ q[1].op = "call" /\ q[1].cmd = c /\ q[1].after = a
  BY <1>1 DEF CallI
<1>3. QED BY <1>1, <1>2 DEF GrowingCode, Grows, Removal, Registration

-----------------------------------------------------------------------------
(* All tasks together *)

\* Task u has a new code, or is new, and the state has grown from s to t.
LEMMA TasksGrow ==
    ASSUME NEW s, NEW t, Grew(s, t), NEW ts \in Seq(Task), NEW us \in Seq(Task),
           GrowingTasks(s, ts), Settled(s, ts),
           NEW u \in DOMAIN us, DOMAIN ts \subseteq DOMAIN us,
           DOMAIN us \subseteq DOMAIN ts \cup {u},
           \A v \in DOMAIN ts \ {u} : us[v].code = ts[v].code,
           GrowingCode(us[u].code, t),
           \A x : u \in DOMAIN ts /\ PlacedBy(ts[u].code, x) =>
                      PlacedBy(us[u].code, x) \/ Younger(t, 0, x),
           \A x \in t.addresses \ s.addresses : PlacedBy(us[u].code, x)
    PROVE  GrowingTasks(t, us) /\ Settled(t, us)
<1>1. ASSUME NEW v \in DOMAIN us PROVE GrowingCode(us[v].code, t)
  <2>1. CASE v = u
    BY <2>1
  <2>2. CASE v # u
    <3>1. v \in DOMAIN ts /\ us[v].code = ts[v].code
      BY <2>2
    <3>2. ts[v] \in Task
      BY <3>1
    <3>3. ts[v].code \in Seq(Instruction) /\ GrowingCode(ts[v].code, s)
      BY <3>1, <3>2 DEF Task, GrowingTasks
    <3>4. QED BY <3>1, <3>3, StillGrowing
  <2>3. QED BY <2>1, <2>2
<1>2. ASSUME NEW x \in t.addresses
      PROVE  Younger(t, 0, x) \/ \E v \in DOMAIN us : PlacedBy(us[v].code, x)
  <2>1. CASE x \notin s.addresses
    BY <2>1
  <2>2. CASE x \in s.addresses /\ Younger(s, 0, x)
    BY <2>2 DEF Grew
  <2>3. ASSUME NEW v \in DOMAIN ts, PlacedBy(ts[v].code, x)
        PROVE  Younger(t, 0, x) \/ \E w \in DOMAIN us : PlacedBy(us[w].code, x)
    <3>1. CASE v = u
      BY <2>3, <3>1
    <3>2. CASE v # u
      BY <2>3, <3>2
    <3>3. QED BY <3>1, <3>2
  <2>4. QED BY <2>1, <2>2, <2>3 DEF Settled
<1>3. QED BY <1>1, <1>2 DEF GrowingTasks, Settled

\* A state grows when it stays.
LEMMA GrewSame ==
    ASSUME NEW s PROVE Grew(s, s)
BY DEF Grew

-----------------------------------------------------------------------------
(* One step *)

\* Nothing went wrong before, if nothing has by now.
LEMMA GrowthBefore ==
    ASSUME OnlyGrowth', env'.lost = env.lost, DOMAIN tasks \subseteq DOMAIN tasks',
           \A v \in DOMAIN tasks : tasks'[v].kind = tasks[v].kind
    PROVE  OnlyGrowth
BY DEF OnlyGrowth

\* An error ends the growth.
LEMMA LostIsNoGrowth ==
    ASSUME Types, env.lost <= MaxLost, env.lost > 0, env' = [env EXCEPT !.lost = @ - 1]
    PROVE  env'.lost <= MaxLost /\ ~ OnlyGrowth'
<1>1. env \in Bounds /\ MaxLost \in Nat
  BY RuntimeAssumption DEF Types
<1>2. PICK k \in Nat : k = env.lost
  BY <1>1 DEF Bounds
<1>3. env'.lost = k - 1
  BY <1>1, <1>2 DEF Bounds
<1>4. env'.lost # MaxLost /\ env'.lost <= MaxLost
  BY <1>1, <1>2, <1>3
<1>5. QED BY <1>4 DEF OnlyGrowth

\* So does a lost proposal.
LEMMA DropIsNoGrowth ==
    ASSUME Types, env.lost <= MaxLost, NEW t, NEW rest, Drop(t, rest)
    PROVE  env'.lost <= MaxLost /\ ~ OnlyGrowth'
BY LostIsNoGrowth DEF Drop

\* A task that goes on.
LEMMA ContinueCode ==
    ASSUME Types, Types', NEW t \in DOMAIN tasks, NEW op, At(t, op),
           NEW front \in Seq(Instruction), Continue(t, front)
    PROVE  /\ tasks \in Seq(Task) /\ tasks' \in Seq(Task) /\ DOMAIN tasks' = DOMAIN tasks
           /\ tasks'[t].code = front \o Tail(tasks[t].code)
           /\ \A v \in DOMAIN tasks : tasks'[v].kind = tasks[v].kind
           /\ \A v \in DOMAIN tasks \ {t} : tasks'[v].code = tasks[v].code
<1> DEFINE code == front \o Tail(tasks[t].code)
           x == [tasks[t] EXCEPT !.code = code, !.wait = 0, !.res = None, !.sub = 0]
<1>1. tasks[t] \in Task /\ tasks \in Seq(Task) /\ tasks' \in Seq(Task)
  BY TaskAt DEF Types, TasksOK
<1>2. tasks' = [tasks EXCEPT ![t] = x]
  BY DEF Continue
<1> HIDE DEF code
<1>3. x.code = code /\ x.kind = tasks[t].kind
  BY <1>1 DEF Task
<1> HIDE DEF x
<1>4. DOMAIN tasks' = DOMAIN tasks /\ tasks'[t] = x /\ \A v \in DOMAIN tasks \ {t} : tasks'[v] = tasks[v]
  BY <1>1, <1>2
<1>5. QED BY <1>1, <1>3, <1>4 DEF code

\* The same log.
LEMMA SameLogGrows ==
    ASSUME Types, NEW r, Replays(r), Growing(r), UNCHANGED log,
           GrowingTasks(r[Len(log)], tasks'), Settled(r[Len(log)], tasks'),
           NEW q, Replays(q)'
    PROVE  Growing(q)'
<1>1. log \in Seq(Command) /\ Len(log) \in Nat
  BY DEF Types
<1>2. \A i \in 0 .. Len(log) : q[i] = r[i]
  BY <1>1, OneReplay DEF Replays
<1>3. Len(log) \in 0 .. Len(log)
  BY <1>1
<1>4. QED BY <1>2, <1>3 DEF Growing

\* The log with one command more.
LEMMA LongerLogGrows ==
    ASSUME Types, NEW r, Replays(r), Growing(r), NEW c \in Command, log' = Append(log, c),
           NEW t, t = ApplyManagement(r[Len(log)], c), Grew(r[Len(log)], t),
           GrowingTasks(t, tasks'), Settled(t, tasks'),
           NEW q, Replays(q)'
    PROVE  Growing(q)'
<1>0. log \in Seq(Command)
  BY DEF Types
<1>1. PICK n \in Nat : n = Len(log) /\ log \in Seq(Command)
  BY <1>0
<1>2. Len(log') = n + 1 /\ log'[n + 1] = c /\ \A i \in 1 .. n : log'[i] = log[i]
  BY <1>1
<1>3. /\ r[0] = NewState /\ q[0] = NewState
      /\ \A i \in 1 .. n : r[i] = ApplyManagement(r[i - 1], log[i])
      /\ \A i \in 1 .. n + 1 : q[i] = ApplyManagement(q[i - 1], log'[i])
  BY <1>1, <1>2 DEF Replays
<1>4. \A i \in 1 .. n : q[i] = ApplyManagement(q[i - 1], log[i])
  BY <1>2, <1>3
<1>5. \A i \in 0 .. n : q[i] = r[i]
  BY <1>1, <1>3, <1>4, OneReplay
<1>6. q[n + 1] = t
  <2>1. n + 1 \in 1 .. n + 1 /\ (n + 1) - 1 = n /\ n \in 0 .. n
    OBVIOUS
  <2>2. q[n + 1] = ApplyManagement(q[n], c) /\ q[n] = r[n]
    BY <1>2, <1>3, <1>5, <2>1
  <2>3. QED BY <1>1, <2>2
<1>7. ASSUME NEW i \in 0 .. n + 1 PROVE DOMAIN q[i].clusters \subseteq DOMAIN t.clusters
  <2>1. CASE i = n + 1
    BY <1>6, <2>1
  <2>2. CASE i \in 0 .. n
    <3>1. DOMAIN r[i].clusters \subseteq DOMAIN r[n].clusters
      BY <1>1, <2>2 DEF Growing
    <3>2. QED BY <1>1, <1>5, <2>2, <3>1 DEF Grew
  <2>3. QED BY <2>1, <2>2
<1>8. QED BY <1>2, <1>6, <1>7 DEF Growing

\* The state after the log, and that of a node, which is at most as far.
LEMMA LastState ==
    ASSUME Types, NEW r, Replays(r)
    PROVE  /\ WellFormed(r[Len(log)])
           /\ AtPoint(r) /\ Growing(r) =>
                  \A n \in Node : DOMAIN sm[n].clusters \subseteq DOMAIN r[Len(log)].clusters
<1>1. Len(log) \in Nat /\ Len(log) \in 0 .. Len(log) /\ \A n \in Node : applied[n] \in 0 .. Len(log)
  BY DEF Types
<1>2. QED BY <1>1 DEF Replays, AtPoint, Growing

\* A task goes on with what grows; what its instruction would have placed,
\* this places.
LEMMA ContinueGrows ==
    ASSUME Types, Types', NEW r, Replays(r), Growing(r), UNCHANGED log,
           NEW t \in DOMAIN tasks, NEW op, At(t, op),
           NEW front \in Seq(Instruction), Continue(t, front),
           GrowingCode(front, r[Len(log)]),
           \A x : Places(Head(tasks[t].code), x) => PlacedBy(front, x),
           \A x : ~ Founds(Head(tasks[t].code), x),
           NEW q, Replays(q)'
    PROVE  Growing(q)'
<1> DEFINE s == r[Len(log)]
           code == tasks[t].code
<1>1. code \in Seq(Instruction) /\ code # <<>> /\ Tail(code) \in Seq(Instruction)
  BY TaskAt
<1>2. GrowingTasks(s, tasks) /\ Settled(s, tasks)
  BY DEF Growing
<1>3. /\ tasks \in Seq(Task) /\ tasks' \in Seq(Task) /\ DOMAIN tasks' = DOMAIN tasks
      /\ tasks'[t].code = front \o Tail(code)
      /\ \A v \in DOMAIN tasks \ {t} : tasks'[v].code = tasks[v].code
  BY ContinueCode
<1>4. GrowingCode(code, s)
  BY <1>2 DEF GrowingTasks
<1> HIDE DEF s, code
<1>5. GrowingCode(Tail(code), s)
  BY <1>1, <1>4, GrewSame, GrowingTail DEF code
<1>6. /\ GrowingCode(front \o Tail(code), s)
      /\ \A x : PlacedBy(front, x) \/ PlacedBy(Tail(code), x) => PlacedBy(front \o Tail(code), x)
  BY <1>1, <1>5, GrowingConcat DEF s
<1>7. \A x : PlacedBy(code, x) => PlacedBy(front \o Tail(code), x)
  BY <1>1, <1>6, PlacedByTail DEF code
<1>8. GrowingTasks(s, tasks') /\ Settled(s, tasks')
  <2>1. Grew(s, s)
    BY GrewSame
  <2>2. PICK us : us = tasks'
    OBVIOUS
  <2>3. us \in Seq(Task) /\ t \in DOMAIN us /\ DOMAIN tasks \subseteq DOMAIN us
        /\ DOMAIN us \subseteq DOMAIN tasks \cup {t}
        /\ (\A v \in DOMAIN tasks \ {t} : us[v].code = tasks[v].code)
        /\ GrowingCode(us[t].code, s)
        /\ (\A x : PlacedBy(tasks[t].code, x) => PlacedBy(us[t].code, x))
    BY <1>3, <1>6, <1>7, <2>2 DEF code
  <2>4. GrowingTasks(s, us) /\ Settled(s, us)
    BY <1>2, <1>3, <2>1, <2>3, TasksGrow
  <2>5. QED BY <2>2, <2>4
<1>9. QED BY <1>8, SameLogGrows DEF s

\* propose(): what is committed puts its node where it was to be put.
LEMMA StepProposeGrows ==
    ASSUME Types, Types', History, GrowthInv, NEW t \in DOMAIN tasks, StepPropose(t)
    PROVE  GrowthInv'
<1> DEFINE code == tasks[t].code
           c == Head(code).cmd
<1>1. At(t, "propose")
  BY DEF StepPropose
<1>2. /\ code \in Seq(Instruction) /\ code # <<>> /\ Tail(code) \in Seq(Instruction)
      /\ Head(code) \in Instruction /\ Head(code).op = "propose"
  BY <1>1, TaskAt
<1>3. CASE Drop(t, Tail(code))
  BY <1>3, DropIsNoGrowth DEF GrowthInv
<1>4. CASE /\ log' = Append(log, c)
           /\ Continue(t, <<>>)
           /\ UNCHANGED <<voters, leader, nodeVars, obsVars, env>>
  <2>1. env'.lost <= MaxLost
    BY <1>4 DEF GrowthInv
  <2>2. SUFFICES ASSUME OnlyGrowth', NEW q, Replays(q)' PROVE Growing(q)'
    BY <2>1 DEF GrowthInv
  <2>3. c \in Command
    BY <1>2, InstructionFields
  <2>4. <<>> \in Seq(Instruction) /\ <<>> \o Tail(code) = Tail(code)
    BY <1>2
  <2>5. /\ tasks \in Seq(Task) /\ tasks' \in Seq(Task) /\ DOMAIN tasks' = DOMAIN tasks
        /\ tasks'[t].code = <<>> \o Tail(code)
        /\ \A v \in DOMAIN tasks : tasks'[v].kind = tasks[v].kind
        /\ \A v \in DOMAIN tasks \ {t} : tasks'[v].code = tasks[v].code
    BY <1>1, <1>4, <2>4, ContinueCode
  <2>6. OnlyGrowth
    BY <1>4, <2>2, <2>5, GrowthBefore
  <2>7. PICK r : Replays(r) /\ Growing(r)
    BY <2>6 DEF History, GrowthInv
  <2>8. PICK s : s = r[Len(log)] /\ WellFormed(s) /\ GrowingTasks(s, tasks) /\ Settled(s, tasks)
    BY <2>7, LastState DEF Growing
  <2>9. PICK u : u = ApplyManagement(s, c)
    OBVIOUS
  <2>10. GrowingCode(code, s) /\ Head(code) = code[1] /\ 1 \in DOMAIN code
    BY <1>2, <2>8 DEF GrowingTasks
  <2>11. Grows(Head(code), s) /\ Removal(code, 1, s) /\ Registration(code, 1)
    BY <2>10 DEF GrowingCode
  <2> HIDE DEF c
  <2>12. c.type # "Delete" /\ (c.type = "Remove" => Younger(s, c.cluster, c.node))
    <3>1. c.type \in {"Register", "Create", "Add", "Remove"}
      BY <1>2, <2>11 DEF Grows, c
    <3>2. ASSUME c.type = "Remove" PROVE Younger(s, c.cluster, c.node)
      <4>1. \A i \in DOMAIN code : ~ (i < 1)
        BY <1>2
      <4>2. QED BY <1>2, <2>10, <2>11, <3>2, <4>1 DEF Removal, c
    <3>3. QED BY <3>1, <3>2
  <2>13. Grew(s, u)
    BY <2>3, <2>8, <2>9, <2>12, ApplyGrows
  <2>14. \A x : Founds(Head(code), x) => \A b \in DOMAIN s.clusters \cup {0} : Younger(u, b, x)
    BY <2>3, <2>8, <2>9, ApplyFounds DEF Founds, c
  <2>15. GrowingCode(Tail(code), u)
    BY <1>2, <2>10, <2>13, <2>14, GrowingTail
  <2>16. ASSUME NEW x, Places(Head(code), x) PROVE Younger(u, 0, x)
    <3>1. CASE Founds(Head(code), x)
      BY <2>14, <3>1
    <3>2. CASE c.type = "Add" /\ c.node = x
      <4>1. c.cluster \in DOMAIN s.clusters
        BY <1>2, <2>11, <3>2 DEF Grows, c
      <4>2. QED BY <2>3, <2>8, <2>9, <3>2, <4>1, ApplyAdds
    <3>3. QED BY <1>2, <2>16, <3>1, <3>2 DEF Places, c
  <2>17. \A x : PlacedBy(code, x) => PlacedBy(Tail(code), x) \/ Younger(u, 0, x)
    BY <1>2, <2>16, PlacedByTail
  <2>18. ASSUME NEW x \in u.addresses \ s.addresses PROVE PlacedBy(Tail(code), x)
    <3>1. c.type = "Register" /\ x = c.node
      BY <2>3, <2>8, <2>9, <2>12, ApplyKeeps
    <3>2. PICK i \in DOMAIN code : 1 < i /\ Places(code[i], x)
      BY <1>2, <2>10, <2>11, <3>1 DEF Registration, c
    <3>3. i \in 1 .. Len(code) /\ Len(code) \in Nat
      BY <1>2
    <3>4. i - 1 \in 1 .. Len(code) - 1 /\ i = (i - 1) + 1
      BY <3>2, <3>3
    <3>5. DOMAIN Tail(code) = 1 .. Len(code) - 1
          /\ \A k \in 1 .. Len(code) - 1 : Tail(code)[k] = code[k + 1]
      BY <1>2, <3>3
    <3>6. QED BY <3>2, <3>4, <3>5 DEF PlacedBy
  <2>19. PICK us : us = tasks'
    OBVIOUS
  <2>20. us[t].code = Tail(code)
    BY <2>4, <2>5, <2>19
  <2>21. us \in Seq(Task) /\ t \in DOMAIN us /\ DOMAIN tasks \subseteq DOMAIN us
        /\ DOMAIN us \subseteq DOMAIN tasks \cup {t}
        /\ (\A v \in DOMAIN tasks \ {t} : us[v].code = tasks[v].code)
    BY <2>5, <2>19
  <2>22. GrowingTasks(u, us) /\ Settled(u, us)
    BY <2>5, <2>8, <2>13, <2>15, <2>17, <2>18, <2>20, <2>21, TasksGrow
  <2>23. log' = Append(log, c)
    BY <1>4 DEF c
  <2>24. QED BY <2>2, <2>3, <2>7, <2>8, <2>9, <2>13, <2>19, <2>22, <2>23, LongerLogGrows
<1>5. QED BY <1>3, <1>4 DEF StepPropose

\* propose_and_wait(): what is committed adds.
LEMMA StepCallGrows ==
    ASSUME Types, Types', History, GrowthInv, NEW t \in DOMAIN tasks, StepCall(t)
    PROVE  GrowthInv'
<1> DEFINE code == tasks[t].code
           c == Head(code).cmd
<1>1. At(t, "call")
  BY DEF StepCall
<1>2. /\ code \in Seq(Instruction) /\ code # <<>> /\ tasks[t] \in Task
      /\ Head(code) \in Instruction /\ Head(code).op = "call"
  BY <1>1, TaskAt
<1>3. CASE Drop(t, Tail(code))
  BY <1>3, DropIsNoGrowth DEF GrowthInv
<1>4. CASE env.lost > 0 /\ env' = [env EXCEPT !.lost = @ - 1]
  BY <1>4, LostIsNoGrowth DEF GrowthInv
<1>5. CASE /\ log' = Append(log, c)
           /\ tasks' = [tasks EXCEPT ![t] =
                  [@ EXCEPT !.wait = Len(log) + 1, !.sub = Len(events[tasks[t].node])]]
           /\ UNCHANGED <<voters, leader, nodeVars, obsVars, env>>
  <2>1. env'.lost <= MaxLost
    BY <1>5 DEF GrowthInv
  <2>2. SUFFICES ASSUME OnlyGrowth', NEW q, Replays(q)' PROVE Growing(q)'
    BY <2>1 DEF GrowthInv
  <2>3. c \in Command
    BY <1>2, InstructionFields
  <2>4. PICK x : x = [tasks[t] EXCEPT !.wait = Len(log) + 1, !.sub = Len(events[tasks[t].node])]
    OBVIOUS
  <2>5. x.code = code /\ x.kind = tasks[t].kind
    BY <1>2, <2>4 DEF Task
  <2>6. tasks \in Seq(Task) /\ tasks' \in Seq(Task) /\ tasks' = [tasks EXCEPT ![t] = x]
    BY <1>5, <2>4 DEF Types, TasksOK
  <2>7. DOMAIN tasks' = DOMAIN tasks /\ tasks'[t] = x
        /\ \A v \in DOMAIN tasks \ {t} : tasks'[v] = tasks[v]
    BY <2>6
  <2>8. OnlyGrowth
    <3>1. \A v \in DOMAIN tasks : tasks'[v].kind = tasks[v].kind
      BY <2>5, <2>7
    <3>2. QED BY <1>5, <2>2, <2>7, <3>1, GrowthBefore
  <2>9. PICK r : Replays(r) /\ Growing(r)
    BY <2>8 DEF History, GrowthInv
  <2>10. PICK s : s = r[Len(log)] /\ WellFormed(s) /\ GrowingTasks(s, tasks) /\ Settled(s, tasks)
    BY <2>9, LastState DEF Growing
  <2>11. PICK u : u = ApplyManagement(s, c)
    OBVIOUS
  <2>12. GrowingCode(code, s) /\ Head(code) = code[1] /\ 1 \in DOMAIN code
    BY <1>2, <2>10 DEF GrowingTasks
  <2>13. c.type \in {"Create", "Add", "Metadata"}
    BY <1>2, <2>12 DEF GrowingCode, Grows
  <2> HIDE DEF c
  <2>14. Grew(s, u) /\ u.addresses = s.addresses
    BY <2>3, <2>10, <2>11, <2>13, ApplyGrows, ApplyKeeps
  <2>15. GrowingCode(code, u)
    BY <1>2, <2>12, <2>14, StillGrowing
  <2>16. PICK us : us = tasks'
    OBVIOUS
  <2>17. us \in Seq(Task) /\ t \in DOMAIN us /\ DOMAIN tasks \subseteq DOMAIN us
        /\ DOMAIN us \subseteq DOMAIN tasks \cup {t} /\ us[t].code = code
        /\ (\A v \in DOMAIN tasks \ {t} : us[v].code = tasks[v].code)
    BY <2>5, <2>6, <2>7, <2>16
  <2>18. GrowingTasks(u, us) /\ Settled(u, us)
    BY <2>6, <2>10, <2>14, <2>15, <2>17, TasksGrow
  <2>19. log' = Append(log, c)
    BY <1>5 DEF c
  <2>20. QED BY <2>2, <2>3, <2>9, <2>10, <2>11, <2>14, <2>16, <2>18, <2>19, LongerLogGrows
<1>6. QED BY <1>3, <1>5, <1>4 DEF StepCall

\* A task goes on without a command being committed.
LEMMA LocalContinueGrows ==
    ASSUME Types, Types', History, GrowthInv, UNCHANGED <<log, env>>,
           NEW t \in DOMAIN tasks, NEW op, At(t, op),
           NEW front \in Seq(Instruction), Continue(t, front),
           \A r : Replays(r) /\ AtPoint(r) /\ Growing(r) => GrowingCode(front, r[Len(log)]),
           \A x : OnlyGrowth /\ Places(Head(tasks[t].code), x) => PlacedBy(front, x),
           \A x : ~ Founds(Head(tasks[t].code), x)
    PROVE  GrowthInv'
<1>1. env'.lost <= MaxLost
  BY DEF GrowthInv
<1>2. SUFFICES ASSUME OnlyGrowth', NEW q, Replays(q)' PROVE Growing(q)'
  BY <1>1 DEF GrowthInv
<1>3. OnlyGrowth
  <2>1. DOMAIN tasks' = DOMAIN tasks /\ \A v \in DOMAIN tasks : tasks'[v].kind = tasks[v].kind
    BY ContinueCode
  <2>2. QED BY <1>2, <2>1, GrowthBefore
<1>4. PICK r : Replays(r) /\ AtPoint(r) /\ Growing(r)
  BY <1>3 DEF History, GrowthInv
<1>5. QED BY <1>2, <1>3, <1>4, ContinueGrows

\* Nothing is left of an instruction that neither placed nor founded.
LEMMA EmptyGrows ==
    ASSUME NEW s PROVE GrowingCode(<<>>, s)
BY DEF GrowingCode

\* The configuration change of add_node.
LEMMA StepConfGrows ==
    ASSUME Types, Types', History, GrowthInv, NEW t \in DOMAIN tasks, StepConf(t)
    PROVE  GrowthInv'
<1> DEFINE i == Head(tasks[t].code)
<1>1. At(t, "conf")
  BY DEF StepConf
<1>2. i.op = "conf" /\ <<>> \in Seq(Instruction)
  BY <1>1, TaskAt
<1>3. CASE Drop(t, <<>>) \/ Drop(t, Tail(tasks[t].code))
  BY <1>3, DropIsNoGrowth DEF GrowthInv
<1>4. CASE Continue(t, <<>>) /\ UNCHANGED <<log, nodeVars, obsVars, env>>
  <2>1. \A x : ~ Founds(i, x) /\ ~ Places(i, x)
    BY <1>2 DEF Founds, Places
  <2>2. QED BY <1>1, <1>2, <1>4, <2>1, EmptyGrows, LocalContinueGrows
<1>5. QED BY <1>3, <1>4 DEF StepConf

\* The instructions of a task of a growing cluster.
LEMMA HeadGrows ==
    ASSUME Types, NEW r, Growing(r), NEW t \in DOMAIN tasks, NEW op, At(t, op)
    PROVE  Grows(Head(tasks[t].code), r[Len(log)])
<1>1. tasks[t].code \in Seq(Instruction) /\ tasks[t].code # <<>>
  BY TaskAt
<1>2. Head(tasks[t].code) = tasks[t].code[1] /\ 1 \in DOMAIN tasks[t].code
  BY <1>1
<1>3. QED BY <1>2 DEF Growing, GrowingTasks, GrowingCode

\* The ClusterManager decides where to put a node.
LEMMA StepDecideGrows ==
    ASSUME Types, Types', History, GrowthInv, NEW t \in DOMAIN tasks, StepDecide(t)
    PROVE  GrowthInv'
<1> DEFINE i == Head(tasks[t].code)
           n == tasks[t].node
<1>1. At(t, "decide")
  BY DEF StepDecide
<1>2. i \in Instruction /\ i.op = "decide" /\ n \in Node
  BY <1>1, TaskAt
<1>3. i.how \in {"placement", "rebalancing", "failed"} /\ i.node \in Node
  BY <1>2, InstructionFields
<1>4. WellFormed(sm[n])
  BY <1>2 DEF Types
<1>5. PICK d \in Decisions(sm[n], i.how, i.node) : Continue(t, d)
  BY DEF StepDecide
<1>6. d \in Seq(Instruction)
  BY <1>3, <1>4, <1>5, DecisionsType
<1>7. UNCHANGED <<log, env>>
  BY DEF StepDecide, raftVars
<1>8. ASSUME NEW r, Replays(r), AtPoint(r), Growing(r)
      PROVE  GrowingCode(d, r[Len(log)]) /\ PlacedBy(d, i.node)
  <2>1. i.how = "placement"
    BY <1>1, <1>2, <1>8, HeadGrows DEF Grows
  <2>2. DOMAIN sm[n].clusters \subseteq DOMAIN r[Len(log)].clusters
    BY <1>2, <1>8, LastState
  <2>3. d \in Decisions(sm[n], "placement", i.node)
    BY <1>5, <2>1
  <2>4. QED BY <1>3, <1>4, <2>2, <2>3, PlacementGrows
<1>9. ASSUME NEW x, OnlyGrowth, Places(i, x) PROVE PlacedBy(d, x)
  <2>1. x = i.node
    BY <1>2, <1>9 DEF Places, Founds
  <2>2. PICK r : Replays(r) /\ AtPoint(r) /\ Growing(r)
    BY <1>9 DEF History, GrowthInv
  <2>3. QED BY <1>8, <2>1, <2>2
<1>10. \A x : ~ Founds(i, x)
  BY <1>2 DEF Founds
<1>11. QED BY <1>1, <1>5, <1>6, <1>7, <1>8, <1>9, <1>10, LocalContinueGrows

\* The caller of propose_and_wait is woken up, and splits.
LEMMA StepReturnGrows ==
    ASSUME Types, Types', History, GrowthInv, NEW t \in DOMAIN tasks, StepReturn(t)
    PROVE  GrowthInv'
<1> DEFINE i == Head(tasks[t].code)
           n == tasks[t].node
<1>1. At(t, "call") /\ i.after # "id"
  BY DEF StepReturn
<1>2. i \in Instruction /\ i.op = "call" /\ n \in Node
  BY <1>1, TaskAt
<1>3. i.after \in {"nothing", "splits", "consolidation"} /\ Founder \in Node
  BY <1>1, <1>2, InstructionFields, RuntimeAssumption
<1>4. WellFormed(sm[n])
  BY <1>2 DEF Types
<1>5. PICK d : /\ d \in Decisions(sm[n], i.after, Founder) \/ d = <<>>
               /\ Continue(t, d)
  BY DEF StepReturn
<1>6. d \in Seq(Instruction)
  <2>1. CASE d \in Decisions(sm[n], i.after, Founder)
    BY <1>3, <1>4, <2>1, DecisionsType
  <2>2. CASE d = <<>>
    BY <2>2
  <2>3. QED BY <1>5, <2>1, <2>2
<1>7. UNCHANGED <<log, env>>
  BY DEF StepReturn, raftVars
<1>8. ASSUME NEW r, Replays(r), AtPoint(r), Growing(r) PROVE GrowingCode(d, r[Len(log)])
  <2>1. i.after \in {"nothing", "splits"}
    BY <1>1, <1>2, <1>8, HeadGrows DEF Grows
  <2>2. DOMAIN sm[n].clusters \subseteq DOMAIN r[Len(log)].clusters
    BY <1>2, <1>8, LastState
  <2>3. CASE d = <<>>
    BY <2>3, EmptyGrows
  <2>4. CASE i.after = "nothing" /\ d \in Decisions(sm[n], i.after, Founder)
    <3>1. d = <<>>
      BY <2>4 DEF Decisions
    <3>2. QED BY <3>1, EmptyGrows
  <2>5. CASE i.after = "splits" /\ d \in Decisions(sm[n], i.after, Founder)
    <3>1. d \in Decisions(sm[n], "splits", Founder)
      BY <2>5
    <3>2. QED BY <1>4, <2>2, <3>1, SplitsGrow
  <2>6. QED BY <1>5, <2>1, <2>3, <2>4, <2>5
<1>9. \A x : ~ Founds(i, x) /\ ~ Places(i, x)
  BY <1>2 DEF Founds, Places
<1>10. QED BY <1>1, <1>5, <1>6, <1>7, <1>8, <1>9, LocalContinueGrows

\* create_sub_cluster returns an id.
LEMMA StepCreatedGrows ==
    ASSUME Types, Types', History, GrowthInv, NEW t \in DOMAIN tasks, StepCreated(t)
    PROVE  GrowthInv'
<1> DEFINE code == tasks[t].code
<1>1. At(t, "call")
  BY DEF StepCreated
<1>2. /\ code \in Seq(Instruction) /\ code # <<>> /\ Tail(code) \in Seq(Instruction)
      /\ tasks[t] \in Task /\ Head(code).op = "call"
  BY <1>1, TaskAt
<1>3. UNCHANGED <<log, env>>
  BY DEF StepCreated, raftVars
<1>4. \A y : ~ Founds(Head(code), y) /\ ~ Places(Head(code), y)
  BY <1>2 DEF Founds, Places
<1>5. CASE Continue(t, <<>>)
  <2>1. <<>> \in Seq(Instruction)
    OBVIOUS
  <2>2. QED BY <1>1, <1>3, <1>4, <1>5, <2>1, EmptyGrows, LocalContinueGrows
<1>6. SUFFICES ASSUME ~ Continue(t, <<>>) PROVE GrowthInv'
  BY <1>5
<1>7. PICK id : tasks' = [tasks EXCEPT ![t] =
                              [@ EXCEPT !.code = Tail(tasks[t].code), !.res = None, !.ret = id]]
  BY <1>6 DEF StepCreated
<1>8. env'.lost <= MaxLost
  BY <1>3 DEF GrowthInv
<1>9. SUFFICES ASSUME OnlyGrowth', NEW q, Replays(q)' PROVE Growing(q)'
  BY <1>8 DEF GrowthInv
<1>10. PICK rest : rest = Tail(code)
  OBVIOUS
<1>11. PICK x : x = [tasks[t] EXCEPT !.code = rest, !.res = None, !.ret = id]
  OBVIOUS
<1>12. x.code = rest /\ x.kind = tasks[t].kind
  BY <1>2, <1>11 DEF Task
<1>13. tasks \in Seq(Task) /\ tasks' \in Seq(Task) /\ tasks' = [tasks EXCEPT ![t] = x]
  BY <1>7, <1>10, <1>11 DEF Types, TasksOK
<1>14. DOMAIN tasks' = DOMAIN tasks /\ tasks'[t] = x
       /\ \A v \in DOMAIN tasks \ {t} : tasks'[v] = tasks[v]
  BY <1>13
<1>15. OnlyGrowth
  <2>1. \A v \in DOMAIN tasks : tasks'[v].kind = tasks[v].kind
    BY <1>12, <1>14
  <2>2. QED BY <1>3, <1>9, <1>14, <2>1, GrowthBefore
<1>16. PICK r : Replays(r) /\ Growing(r)
  BY <1>15 DEF History, GrowthInv
<1>17. PICK s : s = r[Len(log)] /\ GrowingTasks(s, tasks) /\ Settled(s, tasks)
  BY <1>16 DEF Growing
<1>18. Grew(s, s) /\ GrowingCode(code, s)
  BY <1>17, GrewSame DEF GrowingTasks
<1>19. GrowingCode(rest, s) /\ \A y : PlacedBy(code, y) => PlacedBy(rest, y)
  BY <1>2, <1>10, <1>18, <1>4, GrowingTail, PlacedByTail
<1>20. PICK us : us = tasks'
  OBVIOUS
<1>21. us \in Seq(Task) /\ t \in DOMAIN us /\ DOMAIN tasks \subseteq DOMAIN us
       /\ DOMAIN us \subseteq DOMAIN tasks \cup {t} /\ us[t].code = rest
       /\ (\A v \in DOMAIN tasks \ {t} : us[v].code = tasks[v].code)
  BY <1>12, <1>13, <1>14, <1>20
<1>22. GrowingTasks(s, us) /\ Settled(s, us)
  BY <1>13, <1>17, <1>18, <1>19, <1>21, TasksGrow
<1>23. QED BY <1>3, <1>9, <1>16, <1>17, <1>20, <1>22, SameLogGrows

\* An operation that adds is called.
LEMMA CallsGrow ==
    ASSUME Types, Types', History, GrowthInv, NEW k, NEW n, NEW code, Call(k, n, code),
           k \in {"add_node", "create_sub_cluster", "add_node_to_sub_cluster", "set_metadata"} =>
               \A s : GrowingCode(code, s)
    PROVE  GrowthInv'
<1>1. UNCHANGED <<log, env>>
  BY DEF Call, raftVars
<1>2. env'.lost <= MaxLost
  BY <1>1 DEF GrowthInv
<1>3. SUFFICES ASSUME OnlyGrowth', NEW q, Replays(q)' PROVE Growing(q)'
  BY <1>2 DEF GrowthInv
<1>4. PICK x : x = NewTask(k, n, code)
  OBVIOUS
<1>5. x.code = code /\ x.kind = k
  BY <1>4 DEF NewTask
<1>6. tasks \in Seq(Task) /\ tasks' \in Seq(Task) /\ tasks' = Append(tasks, x)
  BY <1>4 DEF Types, TasksOK, Call
<1>7. PICK m \in Nat : m = Len(tasks) /\ DOMAIN tasks = 1 .. m
  BY <1>6
<1>8. DOMAIN tasks' = 1 .. m + 1 /\ tasks'[m + 1] = x /\ \A v \in 1 .. m : tasks'[v] = tasks[v]
  BY <1>6, <1>7
<1>9. OnlyGrowth
  <2>1. \A v \in DOMAIN tasks : v \in DOMAIN tasks' /\ tasks'[v].kind = tasks[v].kind
    BY <1>7, <1>8
  <2>2. QED BY <1>1, <1>3, <2>1, GrowthBefore
<1>10. k \in {"add_node", "create_sub_cluster", "add_node_to_sub_cluster", "set_metadata"}
  <2>1. m + 1 \in DOMAIN tasks'
    BY <1>8
  <2>2. QED BY <1>3, <1>5, <1>8, <2>1 DEF OnlyGrowth
<1>11. PICK r : Replays(r) /\ Growing(r)
  BY <1>9 DEF History, GrowthInv
<1>12. PICK s : s = r[Len(log)] /\ GrowingTasks(s, tasks) /\ Settled(s, tasks)
  BY <1>11 DEF Growing
<1>13. Grew(s, s) /\ GrowingCode(code, s)
  BY <1>10, GrewSame
<1>14. PICK us : us = tasks'
  OBVIOUS
<1>15. us \in Seq(Task) /\ m + 1 \in DOMAIN us /\ DOMAIN tasks \subseteq DOMAIN us
       /\ DOMAIN us \subseteq DOMAIN tasks \cup {m + 1} /\ us[m + 1].code = code
       /\ m + 1 \notin DOMAIN tasks
       /\ (\A v \in DOMAIN tasks \ {m + 1} : us[v].code = tasks[v].code)
  BY <1>5, <1>6, <1>7, <1>8, <1>14
<1>16. GrowingTasks(s, us) /\ Settled(s, us)
  BY <1>6, <1>12, <1>13, <1>15, TasksGrow
<1>17. QED BY <1>1, <1>3, <1>11, <1>12, <1>14, <1>16, SameLogGrows

\* Whatever operation is called.
LEMMA OperationGrows ==
    ASSUME Types, Types', History, GrowthInv, NEW n \in Node, Operation(n)
    PROVE  GrowthInv'
<1>1. ASSUME NEW m \in Node, CallAddNode(n, m) PROVE GrowthInv'
  BY <1>1, AddNodeGrows, CallsGrow DEF CallAddNode
<1>2. ASSUME NEW m \in Node, CallRemoveNode(n, m) PROVE GrowthInv'
  BY <1>2, CallsGrow DEF CallRemoveNode
<1>3. ASSUME NEW ids, CallCreate(n, ids) PROVE GrowthInv'
  <2>1. \A s : GrowingCode(<<CallI(CreateSubCluster(ids), "id")>>, s)
    <3>1. CreateSubCluster(ids).type \in {"Create", "Add", "Metadata"}
      BY DEF CreateSubCluster
    <3>2. PICK b : b = CreateSubCluster(ids)
      OBVIOUS
    <3>3. b.type \in {"Create", "Add", "Metadata"}
      BY <3>1, <3>2
    <3>4. \A s : GrowingCode(<<CallI(b, "id")>>, s)
      BY <3>3, CallGrows, Zenon
    <3>5. QED BY <3>2, <3>4
  <2>2. QED BY <1>3, <2>1, CallsGrow DEF CallCreate
<1>4. ASSUME NEW c, CallDelete(n, c) PROVE GrowthInv'
  BY <1>4, CallsGrow DEF CallDelete
<1>5. ASSUME NEW c, NEW m, CallAddTo(n, c, m) PROVE GrowthInv'
  <2>1. \A s : GrowingCode(<<CallI(AddNode(c, m), "splits")>>, s)
    <3>1. AddNode(c, m).type \in {"Create", "Add", "Metadata"}
      BY DEF AddNode
    <3>2. PICK b : b = AddNode(c, m)
      OBVIOUS
    <3>3. b.type \in {"Create", "Add", "Metadata"}
      BY <3>1, <3>2
    <3>4. \A s : GrowingCode(<<CallI(b, "splits")>>, s)
      BY <3>3, CallGrows, Zenon
    <3>5. QED BY <3>2, <3>4
  <2>2. QED BY <1>5, <2>1, CallsGrow DEF CallAddTo
<1>6. ASSUME NEW c, NEW m, CallRemoveFrom(n, c, m) PROVE GrowthInv'
  BY <1>6, CallsGrow DEF CallRemoveFrom
<1>7. ASSUME NEW c, NEW v, CallMetadata(n, c, v) PROVE GrowthInv'
  <2>1. \A s : GrowingCode(<<CallI(SetMetadata(c, v), "nothing")>>, s)
    <3>1. SetMetadata(c, v).type \in {"Create", "Add", "Metadata"}
      BY DEF SetMetadata
    <3>2. PICK b : b = SetMetadata(c, v)
      OBVIOUS
    <3>3. b.type \in {"Create", "Add", "Metadata"}
      BY <3>1, <3>2
    <3>4. \A s : GrowingCode(<<CallI(b, "nothing")>>, s)
      BY <3>3, CallGrows, Zenon
    <3>5. QED BY <3>2, <3>4
  <2>2. QED BY <1>7, <2>1, CallsGrow DEF CallMetadata
<1>8. QED BY <1>1, <1>2, <1>3, <1>4, <1>5, <1>6, <1>7 DEF Operation

\* A step that leaves log and code alone.
LEMMA SameCodeGrows ==
    ASSUME Types, Types', History, GrowthInv, UNCHANGED log, env'.lost = env.lost,
           DOMAIN tasks' = DOMAIN tasks,
           \A t \in DOMAIN tasks : tasks'[t].code = tasks[t].code /\ tasks'[t].kind = tasks[t].kind
    PROVE  GrowthInv'
<1>1. env'.lost <= MaxLost
  BY DEF GrowthInv
<1>2. SUFFICES ASSUME OnlyGrowth', NEW q, Replays(q)' PROVE Growing(q)'
  BY <1>1 DEF GrowthInv
<1>3. OnlyGrowth
  BY <1>2, GrowthBefore
<1>4. PICK r : Replays(r) /\ Growing(r)
  BY <1>3 DEF History, GrowthInv
<1>5. PICK s : s = r[Len(log)] /\ GrowingTasks(s, tasks) /\ Settled(s, tasks)
  BY <1>4 DEF Growing
<1>6. GrowingTasks(s, tasks') /\ Settled(s, tasks')
  BY <1>5 DEF GrowingTasks, Settled
<1>7. QED BY <1>2, <1>4, <1>5, <1>6, SameLogGrows

\* A node applies a command: who waits is woken up.
LEMMA ApplyGrowth ==
    ASSUME Types, Types', History, GrowthInv, NEW n \in Node, Apply(n)
    PROVE  GrowthInv'
<1>1. UNCHANGED <<log, env>>
  BY DEF Apply, raftVars
<1>2. PICK i, out : tasks' = [t \in DOMAIN tasks |->
          IF tasks[t].node = n /\ tasks[t].wait = i
          THEN [tasks[t] EXCEPT !.res = out] ELSE tasks[t]]
  BY DEF Apply
<1>3. DOMAIN tasks' = DOMAIN tasks
  BY <1>2
<1>4. ASSUME NEW t \in DOMAIN tasks
      PROVE  tasks'[t].code = tasks[t].code /\ tasks'[t].kind = tasks[t].kind
  <2>1. tasks[t] \in Task
    BY DEF Types, TasksOK
  <2>2. tasks'[t] = tasks[t] \/ tasks'[t] = [tasks[t] EXCEPT !.res = out]
    BY <1>2
  <2>3. QED BY <2>1, <2>2 DEF Task
<1>5. QED BY <1>1, <1>3, <1>4, SameCodeGrows

\* An observer handles an event; only a failure starts an operation, one that
\* takes away.
LEMMA ObserveGrows ==
    ASSUME Types, Types', History, GrowthInv, NEW n \in Node, Observe(n)
    PROVE  GrowthInv'
<1>1. UNCHANGED log /\ env'.lost = env.lost
  BY ObserveTypes
<1>2. \/ UNCHANGED tasks
      \/ \E code : tasks' = Append(tasks, NewTask("handle_failed_node", n, code))
  BY DEF Observe, OnCreated, OnNodeAdded, OnNodeRemoved, OnDeleted, OnFailed
<1>3. CASE UNCHANGED tasks
  BY <1>1, <1>3, SameCodeGrows
<1>4. ASSUME NEW code, tasks' = Append(tasks, NewTask("handle_failed_node", n, code))
      PROVE  GrowthInv'
  <2>1. PICK x : x = NewTask("handle_failed_node", n, code)
    OBVIOUS
  <2>2. tasks \in Seq(Task) /\ tasks' = Append(tasks, x)
    BY <1>4, <2>1 DEF Types, TasksOK
  <2>3. PICK m \in Nat : m + 1 \in DOMAIN tasks' /\ tasks'[m + 1] = x
    <3>1. Len(tasks) \in Nat /\ Len(tasks) + 1 \in DOMAIN Append(tasks, x)
          /\ Append(tasks, x)[Len(tasks) + 1] = x
      BY <2>2
    <3>2. QED BY <2>2, <3>1
  <2>4. ~ OnlyGrowth'
    BY <2>1, <2>3 DEF OnlyGrowth, NewTask
  <2>5. QED BY <1>1, <2>4 DEF GrowthInv
<1>5. QED BY <1>2, <1>3, <1>4

\* What Raft does beside.
LEMMA RaftGrows ==
    ASSUME Types, Types', History, GrowthInv,
           \/ \E n, m \in Node : InstallSnapshot(n, m)
           \/ \E m \in Node : DetectFailure(m) \/ ChangeLeader(m) \/ Lag(m)
    PROVE  GrowthInv'
<1>1. UNCHANGED <<log, tasks>>
  BY DEF InstallSnapshot, DetectFailure, ChangeLeader, Lag, raftVars
<1>2. env \in Bounds
  BY DEF Types
<1>3. env'.lost = env.lost
  BY <1>2 DEF Bounds, InstallSnapshot, DetectFailure, ChangeLeader, Lag
<1>4. QED BY <1>1, <1>3, SameCodeGrows

\* Every step.
LEMMA NextGrows ==
    ASSUME Types, Types', History, GrowthInv, [Next]_vars
    PROVE  GrowthInv'
<1>1. ASSUME NEW t \in DOMAIN tasks, TaskStep(t) PROVE GrowthInv'
  BY <1>1, StepProposeGrows, StepCallGrows, StepConfGrows, StepDecideGrows, StepReturnGrows,
     StepCreatedGrows DEF TaskStep
<1>2. CASE UNCHANGED vars
  <2>1. UNCHANGED <<log, env, tasks>>
    BY <1>2 DEF vars
  <2>2. QED BY <2>1, SameCodeGrows
<1>3. ASSUME NEW n \in Node, Operation(n) \/ Apply(n) \/ Observe(n) PROVE GrowthInv'
  BY <1>3, OperationGrows, ApplyGrowth, ObserveGrows
<1>4. QED BY <1>1, <1>2, <1>3, RaftGrows DEF Next

\* The founder adds itself.
LEMMA InitGrows == Init => GrowthInv
<1> SUFFICES ASSUME Init PROVE GrowthInv
  OBVIOUS
<1>1. env.lost = MaxLost /\ MaxLost \in Nat
  BY RuntimeAssumption DEF Init
<1>2. SUFFICES ASSUME NEW r, Replays(r) PROVE Growing(r)
  BY <1>1 DEF GrowthInv
<1>3. Len(log) = 0 /\ 0 .. 0 = {0} /\ r[0] = NewState
  BY <1>2 DEF Init, Replays
<1>4. tasks = <<NewTask("add_node", Founder, AddNodeCode(Founder))>> /\ Founder \in Node
  BY RuntimeAssumption DEF Init
<1>5. DOMAIN tasks = {1} /\ tasks[1].code = AddNodeCode(Founder)
  BY <1>4 DEF NewTask
<1>6. GrowingTasks(NewState, tasks)
  BY <1>4, <1>5, AddNodeGrows DEF GrowingTasks
<1>7. Settled(NewState, tasks)
  BY DEF Settled, NewState
<1>8. QED BY <1>3, <1>6, <1>7 DEF Growing

\* When everything has been executed and applied, every registered node is in
\* a sub-cluster of the leader's state.
LEMMA NobodyStranded ==
    ASSUME Types, History, GrowthInv
    PROVE  NoNodeStranded
<1>1. SUFFICES ASSUME Quiet, OnlyGrowth, NEW n \in voters, n \in sm[leader].addresses
               PROVE  \E c \in Known(leader) : n \in Range(sm[leader].clusters[c].nodes)
  BY DEF NoNodeStranded
<1>2. PICK r : Replays(r) /\ AtPoint(r) /\ Growing(r)
  BY <1>1 DEF History, GrowthInv
<1>3. leader \in voters /\ leader \in Node
  BY DEF Types
<1>4. sm[leader] = r[Len(log)]
  BY <1>1, <1>2, <1>3 DEF Quiet, AtPoint
<1>5. \A t \in DOMAIN tasks : ~ PlacedBy(tasks[t].code, n)
  BY <1>1 DEF Quiet, PlacedBy
<1>6. Younger(sm[leader], 0, n)
  BY <1>1, <1>2, <1>4, <1>5 DEF Growing, Settled
<1>7. QED BY <1>6 DEF Younger, Member, Known

\* A node that joins ends up in a sub-cluster: whatever placements, creations
\* and splits race, each decided on a state that may be old when its commands
\* are applied, none leaves a node without one (add_node, create_sub_cluster,
\* add_node_to_sub_cluster and the decisions of the ClusterManager).
THEOREM NobodyIsStranded == Spec => []NoNodeStranded
<1>1. Init => Types /\ History /\ GrowthInv
  BY InitTypes, InitHistory, InitGrows
<1>2. Types /\ History /\ GrowthInv /\ [Next]_vars => (Types /\ History /\ GrowthInv)'
  BY NextTypes, NextHistory, NextGrows
<1>3. Types /\ History /\ GrowthInv => NoNodeStranded
  BY NobodyStranded
<1>4. QED BY <1>1, <1>2, <1>3, PTL DEF Spec
=============================================================================
