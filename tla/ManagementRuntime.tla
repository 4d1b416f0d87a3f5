-------------------------- MODULE ManagementRuntime --------------------------
(***************************************************************************)
(* The management cluster at work (src/management/runtime.rs): operations  *)
(* on any node propose commands, wait for them, look at the node's own     *)
(* state and propose what the ClusterManager decides; an observer on every *)
(* node turns the events into sub-cluster runtimes.                        *)
(*                                                                         *)
(* Raft is external: `log` holds the committed commands in order, which    *)
(* each voter applies at its own pace.  An operation in progress is a task *)
(* that holds the instructions it still has to execute; between two of     *)
(* them everything else may happen.                                        *)
(***************************************************************************)
EXTENDS ManagementStateMachine

CONSTANTS Founder,      \* the node that bootstraps the cluster
          Requests,     \* the operations that are called in a run
          MaxTasks,     \* bounds on operations and on what the environment does
          MaxLost,
          MaxSnapshots,
          MaxFailures,
          MaxLeaderChanges,
          MaxStartErrors,
          BusSize,      \* events the bus keeps for a slow receiver (100)
          Persistent    \* a storage path is configured

ASSUME RuntimeAssumption ==
    /\ Founder \in Node
    /\ {MaxTasks, MaxLost, MaxSnapshots, MaxFailures, MaxLeaderChanges,
        MaxStartErrors, BusSize} \subseteq Nat
    /\ Persistent \in BOOLEAN

VARIABLES
    log,       \* committed commands
    voters,    \* the configuration of the management cluster
    leader,
    sm,        \* per node: the state machine
    applied,   \* per node: number of commands applied
    events,    \* per node: events published
    obs,       \* per node: events the observer has handled or missed
    runtimes,  \* per node: ids in its map sub_clusters
    loops,     \* per node: ids of the sub-clusters whose Raft node it runs
    failed,    \* per node: ids whose Raft node could not be created last time
    members,   \* <<g, n>>: n is a voter of the Raft group g
    missed,    \* nodes whose observer lost events
    restored,  \* nodes whose state came from a snapshot
    tasks,     \* operations that were called
    env        \* what is left of the environment's bounds

raftVars == <<log, voters, leader>>
nodeVars == <<sm, applied, events, restored>>
subVars  == <<runtimes, loops, failed, members>>
obsVars  == <<obs, missed, subVars>>
vars == <<log, voters, leader, sm, applied, events, obs, runtimes, loops, failed,
          members, missed, restored, tasks, env>>

-----------------------------------------------------------------------------
(***************************************************************************)
(* The code of an operation.  `propose` does not wait; `call` is           *)
(* propose_and_wait and names what follows success; `decide` reads the     *)
(* state of the node and puts the proposals of the ClusterManager first.   *)
(***************************************************************************)
ProposeI(c)     == [op |-> "propose", cmd |-> c]
CallI(c, after) == [op |-> "call", cmd |-> c, after |-> after]
ConfI(change, m) == [op |-> "conf", change |-> change, node |-> m]
DecideI(how, m) == [op |-> "decide", how |-> how, node |-> m]

Proposals(cmds) == [i \in DOMAIN cmds |-> ProposeI(cmds[i])]

AddNodeCode(m) ==
    <<ProposeI(RegisterNodeAddress(m)), ConfI("AddNode", m), DecideI("placement", m)>>

RemoveNodeCode(m) == <<ConfI("RemoveNode", m), DecideI("rebalancing", m)>>

NewTask(kind, n, code) ==
    [kind |-> kind, node |-> n, code |-> code, wait |-> 0, res |-> None,
     sub |-> 0, ret |-> 0]

\* FullNode::new: the founder leads a cluster of its own and adds itself.
Init ==
    /\ log = <<>>
    /\ voters = {Founder}
    /\ leader = Founder
    /\ sm = [n \in Node |-> NewState]
    /\ applied = [n \in Node |-> 0]
    /\ events = [n \in Node |-> <<>>]
    /\ obs = [n \in Node |-> 0]
    /\ runtimes = [n \in Node |-> {}]
    /\ loops = [n \in Node |-> {}]
    /\ failed = [n \in Node |-> {}]
    /\ members = {}
    /\ missed = {}
    /\ restored = {}
    /\ tasks = <<NewTask("add_node", Founder, AddNodeCode(Founder))>>
    /\ env = [lost |-> MaxLost, snapshot |-> MaxSnapshots,
              failure |-> MaxFailures, leader |-> MaxLeaderChanges,
              start |-> MaxStartErrors]

-----------------------------------------------------------------------------
(***************************************************************************)
(* The public operations                                                   *)
(***************************************************************************)
Call(kind, n, code) ==
    /\ kind \in Requests
    /\ n \in voters
    /\ Len(tasks) < MaxTasks
    /\ tasks' = Append(tasks, NewTask(kind, n, code))
    /\ UNCHANGED <<raftVars, nodeVars, obsVars, env>>

Known(n) == DOMAIN sm[n].clusters

CallAddNode(n, m) == Call("add_node", n, AddNodeCode(m))

CallRemoveNode(n, m) == Call("remove_node", n, RemoveNodeCode(m))

CallCreate(n, ids) ==
    Call("create_sub_cluster", n, <<CallI(CreateSubCluster(ids), "id")>>)

CallDelete(n, c) ==
    Call("delete_sub_cluster", n, <<CallI(DeleteSubCluster(c), "nothing")>>)

CallAddTo(n, c, m) ==
    Call("add_node_to_sub_cluster", n, <<CallI(AddNode(c, m), "splits")>>)

CallRemoveFrom(n, c, m) ==
    Call("remove_node_from_sub_cluster", n, <<CallI(RemoveNode(c, m), "consolidation")>>)

CallMetadata(n, c, v) ==
    Call("set_metadata", n, <<CallI(SetMetadata(c, v), "nothing")>>)

Operation(n) ==
    \/ \E m \in Node : CallAddNode(n, m) \/ CallRemoveNode(n, m)
    \/ \E ids \in SetToSeqs(Node) : CallCreate(n, ids)
    \/ \E c \in Known(n) : CallDelete(n, c)
    \/ \E c \in Known(n), m \in Node : CallAddTo(n, c, m) \/ CallRemoveFrom(n, c, m)
    \/ \E c \in Known(n), v \in DrainValue : CallMetadata(n, c, v)

-----------------------------------------------------------------------------
(***************************************************************************)
(* The steps of a task                                                     *)
(***************************************************************************)
At(t, op) == tasks[t].code # <<>> /\ Head(tasks[t].code).op = op

\* The task goes on with `front` before the instructions after this one.
Continue(t, front) ==
    tasks' = [tasks EXCEPT ![t] =
                 [@ EXCEPT !.code = front \o Tail(tasks[t].code), !.wait = 0, !.res = None,
                           !.sub = 0]]

Drop(t, rest) ==
    /\ env.lost > 0
    /\ env' = [env EXCEPT !.lost = @ - 1]
    /\ tasks' = [tasks EXCEPT ![t].code = rest]
    /\ UNCHANGED <<raftVars, nodeVars, obsVars>>

\* `let _ = propose(command)`: an error is ignored.
StepPropose(t) ==
    /\ At(t, "propose")
    /\ \/ /\ log' = Append(log, Head(tasks[t].code).cmd)
          /\ Continue(t, <<>>)
          /\ UNCHANGED <<voters, leader, nodeVars, obsVars, env>>
       \/ Drop(t, Tail(tasks[t].code))

\* propose_and_wait; create_sub_cluster has subscribed just before.  A forward
\* that fails may have been delivered: the error hides a committed command.
StepCall(t) ==
    /\ At(t, "call")
    /\ tasks[t].wait = 0
    /\ \/ /\ log' = Append(log, Head(tasks[t].code).cmd)
          /\ tasks' = [tasks EXCEPT ![t] =
                 [@ EXCEPT !.wait = Len(log) + 1, !.sub = Len(events[tasks[t].node])]]
          /\ UNCHANGED <<voters, leader, nodeVars, obsVars, env>>
       \/ Drop(t, Tail(tasks[t].code))
       \/ /\ env.lost > 0
          /\ env' = [env EXCEPT !.lost = @ - 1]
          /\ log' = Append(log, Head(tasks[t].code).cmd)
          /\ tasks' = [tasks EXCEPT ![t].code = Tail(tasks[t].code)]
          /\ UNCHANGED <<voters, leader, nodeVars, obsVars>>

\* The configuration change of add_node and remove_node.  When it cannot be
\* proposed the ClusterManager is not asked; when it is lost later, or replaced
\* because another one is pending, it is.  Another leader is elected when this
\* one is removed.  Removing the only voter is an error that ends its event
\* loop, and is not taken here.
StepConf(t) ==
    /\ At(t, "conf")
    /\ LET i == Head(tasks[t].code)
       IN  \/ /\ voters' = IF i.change = "AddNode" THEN voters \cup {i.node}
                                                   ELSE voters \ {i.node}
              /\ leader' \in voters'
              /\ leader \in voters' => leader' = leader
              /\ Continue(t, <<>>)
              /\ UNCHANGED <<log, nodeVars, obsVars, env>>
           \/ Drop(t, <<>>)
           \/ Drop(t, Tail(tasks[t].code))

\* handle_failed_node: out of every sub-cluster that has it, then out of the
\* management cluster.
FailedNodeCodes(s, m) ==
    LET affected == {c \in DOMAIN s.clusters : m \in Range(s.clusters[c].nodes)}
    IN  {[i \in DOMAIN p |-> CallI(RemoveNode(p[i], m), "consolidation")] \o RemoveNodeCode(m)
            : p \in SetToSeqs(affected)}

Decisions(s, how, m) ==
    CASE how = "placement"     -> {Proposals(d) : d \in decide_node_placement(s, m)}
      [] how = "rebalancing"   -> {Proposals(d) : d \in decide_rebalancing(s)}
      [] how = "splits"        -> {Proposals(d) : d \in decide_splits(s)}
      [] how = "consolidation" -> {Proposals(d) : d \in decide_consolidation(s)}
      [] how = "failed"        -> FailedNodeCodes(s, m)
      [] how = "nothing"       -> {<<>>}

StepDecide(t) ==
    /\ At(t, "decide")
    /\ LET i == Head(tasks[t].code)
       IN  \E d \in Decisions(sm[tasks[t].node], i.how, i.node) : Continue(t, d)
    /\ UNCHANGED <<raftVars, nodeVars, obsVars, env>>

\* The command was applied on this node and the caller is woken up.
StepReturn(t) ==
    LET x == tasks[t]
        i == Head(x.code)
    IN  /\ At(t, "call")
        /\ x.res # None
        /\ i.after # "id"
        /\ \E d \in IF x.res = "Ok" THEN Decisions(sm[x.node], i.after, Founder) ELSE {<<>>} :
               Continue(t, d)
        /\ UNCHANGED <<raftVars, nodeVars, obsVars, env>>

\* create_sub_cluster returns the id in the first SubClusterCreated event
\* after its subscription, or an error when its receiver has lost events.
StepCreated(t) ==
    LET x  == tasks[t]
        ev == events[x.node]
        created == {j \in x.sub + 1 .. Len(ev) : ev[j].type = "Created"}
    IN  /\ At(t, "call")
        /\ x.res # None
        /\ Head(x.code).after = "id"
        /\ IF Len(ev) - x.sub > BusSize THEN Continue(t, <<>>)
           ELSE \E j \in created :
                    /\ \A k \in created : j <= k
                    /\ tasks' = [tasks EXCEPT ![t] =
                           [@ EXCEPT !.code = Tail(x.code), !.res = None,
                                     !.ret = ev[j].cluster]]
        /\ UNCHANGED <<raftVars, nodeVars, obsVars, env>>

TaskStep(t) ==
    \/ StepPropose(t)
    \/ StepCall(t)
    \/ StepConf(t)
    \/ StepDecide(t)
    \/ StepReturn(t)
    \/ StepCreated(t)

-----------------------------------------------------------------------------
(***************************************************************************)
(* The Raft node of the management cluster                                 *)
(***************************************************************************)
Outcome(s, c) == IF Succeeds(s, c) THEN "Ok" ELSE "Err"

Apply(n) ==
    /\ n \in voters
    /\ applied[n] < Len(log)
    /\ LET i == applied[n] + 1
           c == log[i]
       IN  /\ sm' = [sm EXCEPT ![n] = ApplyManagement(@, c)]
           /\ events' = [events EXCEPT ![n] = @ \o Events(sm[n], c)]
           /\ applied' = [applied EXCEPT ![n] = i]
           /\ tasks' = [t \in DOMAIN tasks |->
                  IF tasks[t].node = n /\ tasks[t].wait = i
                  THEN [tasks[t] EXCEPT !.res = Outcome(sm[n], c)] ELSE tasks[t]]
    /\ UNCHANGED <<raftVars, obsVars, restored, env>>

\* A snapshot replaces commands: no event is published for them and nobody
\* who waits for one is woken up.
InstallSnapshot(n, m) ==
    /\ {n, m} \subseteq voters
    /\ applied[n] < applied[m]
    /\ env.snapshot > 0
    /\ env' = [env EXCEPT !.snapshot = @ - 1]
    /\ sm' = [sm EXCEPT ![n] = Snapshot(sm[m])]
    /\ applied' = [applied EXCEPT ![n] = applied[m]]
    /\ restored' = restored \cup {n}
    /\ UNCHANGED <<raftVars, events, obsVars, tasks>>

\* check_follower_progress: a follower that lags, dead or slow, is reported
\* on the event bus of the leader.
DetectFailure(m) ==
    /\ m \in voters \ {leader}
    /\ applied[m] < Len(log)
    /\ env.failure > 0
    /\ env' = [env EXCEPT !.failure = @ - 1]
    /\ events' = [events EXCEPT ![leader] = Append(@, [type |-> "Failed", node |-> m])]
    /\ UNCHANGED <<raftVars, sm, applied, restored, obsVars, tasks>>

ChangeLeader(m) ==
    /\ m \in voters \ {leader}
    /\ env.leader > 0
    /\ env' = [env EXCEPT !.leader = @ - 1]
    /\ leader' = m
    /\ UNCHANGED <<log, voters, nodeVars, obsVars, tasks>>

-----------------------------------------------------------------------------
(***************************************************************************)
(* run_event_observer.  In the sidecar the constructors panic (Sidecar,    *)
(* Create), which ends the observer: it takes no further step here.        *)
(***************************************************************************)
SetRuntimes(n, r) == runtimes' = [runtimes EXCEPT ![n] = r]

\* The group that node n founds on the event it is handling.
Group(c, n) == [cluster |-> c, founder |-> n, since |-> obs[n] + 1]

\* Of a Raft node that starts with these voters, only one that is alone among
\* them elects itself and founds a group: with more voters it becomes a
\* PreCandidate whose requests are never sent (on_ready).  A database of an
\* earlier start, where there is one, is opened with the group it belongs to.
Founded(n, c, ids) ==
    IF Range(ids) # {n} THEN {members}
    ELSE {members \cup {<<Group(c, n), n>>}} \cup (IF Persistent THEN {members} ELSE {})

\* Starting a Raft node for c registers a new mailbox, which ends the loop of
\* an earlier one; but that still holds the lock of its database when the new
\* node opens it.  On any error nothing is stored.
StartRaftNode(n, c, ids) ==
    \/ /\ Persistent => c \notin loops[n]
       /\ SetRuntimes(n, runtimes[n] \cup {c})
       /\ loops' = [loops EXCEPT ![n] = @ \cup {c}]
       /\ failed' = [failed EXCEPT ![n] = @ \ {c}]
       /\ members' \in Founded(n, c, ids)
       /\ UNCHANGED env
    \/ /\ \/ Persistent /\ c \in loops[n] /\ UNCHANGED env
          \/ env.start > 0 /\ env' = [env EXCEPT !.start = @ - 1]
       /\ loops' = [loops EXCEPT ![n] = @ \ {c}]
       /\ failed' = [failed EXCEPT ![n] = @ \cup {c}]
       /\ UNCHANGED <<runtimes, members>>

\* Mutant of OnCreated: every node of the list founds a group.
MutEveryoneFounds(n, e) ==
    /\ IF n \in Range(e.nodes) THEN StartRaftNode(n, e.cluster, <<n>>)
       ELSE UNCHANGED <<subVars, env>>
    /\ UNCHANGED tasks

\* The first node starts alone, the others with the whole list as voters.
OnCreated(n, e) ==
    /\ IF n \in Range(e.nodes)
       THEN StartRaftNode(n, e.cluster, IF Head(e.nodes) = n THEN <<n>> ELSE e.nodes)
       ELSE UNCHANGED <<subVars, env>>
    /\ UNCHANGED tasks

\* A node that runs the sub-cluster proposes to add the new one to a group that
\* it is a voter of (add_node is spawned, and fails on a node that does not lead
\* it); the new node itself starts with the voters its state lists by now.
OnNodeAdded(n, e) ==
    /\ IF e.cluster \in runtimes[n]
       THEN /\ \/ UNCHANGED members
               \/ /\ e.node \in sm[n].addresses
                  /\ \E v \in members :
                         /\ v[1].cluster = e.cluster /\ v[2] = n
                         /\ members' = members \cup {<<v[1], e.node>>}
            /\ UNCHANGED <<runtimes, loops, failed, env>>
       ELSE IF e.node = n /\ e.cluster \in DOMAIN sm[n].clusters
       THEN StartRaftNode(n, e.cluster, sm[n].clusters[e.cluster].nodes)
       ELSE UNCHANGED <<subVars, env>>
    /\ UNCHANGED tasks

\* Mutant of OnNodeRemoved: the runtime of the removed node is kept.
MutKeepRuntime(n, e) == UNCHANGED <<subVars, tasks, env>>

\* Only the removed node acts: its runtime leaves the map, its loop runs on.
OnNodeRemoved(n, e) ==
    /\ SetRuntimes(n, IF e.node = n THEN runtimes[n] \ {e.cluster} ELSE runtimes[n])
    /\ UNCHANGED <<loops, failed, members, tasks, env>>

OnDeleted(n, e) ==
    /\ SetRuntimes(n, runtimes[n] \ {e.cluster})
    /\ UNCHANGED <<loops, failed, members, tasks, env>>

\* The leader, if it still is, starts handle_failed_node.
OnFailed(n, e) ==
    /\ tasks' = IF n = leader
                THEN Append(tasks, NewTask("handle_failed_node", n, <<DecideI("failed", e.node)>>))
                ELSE tasks
    /\ UNCHANGED <<subVars, env>>

Observe(n) ==
    /\ obs[n] < Len(events[n])
    /\ Len(events[n]) - obs[n] <= BusSize
    /\ obs' = [obs EXCEPT ![n] = @ + 1]
    /\ LET e == events[n][obs[n] + 1]
       IN  \/ e.type = "Created" /\ OnCreated(n, e)
           \/ e.type = "Add" /\ OnNodeAdded(n, e)
           \/ e.type = "Remove" /\ OnNodeRemoved(n, e)
           \/ e.type = "Delete" /\ OnDeleted(n, e)
           \/ e.type = "Failed" /\ OnFailed(n, e)
           \/ e.type = "Metadata" /\ UNCHANGED <<subVars, tasks, env>>
    /\ UNCHANGED <<raftVars, nodeVars, missed>>

\* RecvError::Lagged: the observer goes on with the oldest event the bus has.
Lag(n) ==
    /\ Len(events[n]) - obs[n] > BusSize
    /\ obs' = [obs EXCEPT ![n] = Len(events[n]) - BusSize]
    /\ missed' = missed \cup {n}
    /\ UNCHANGED <<raftVars, nodeVars, subVars, tasks, env>>

-----------------------------------------------------------------------------
Next ==
    \/ \E n \in Node : Operation(n) \/ Apply(n) \/ Observe(n) \/ Lag(n)
    \/ \E t \in DOMAIN tasks : TaskStep(t)
    \/ \E n, m \in Node : InstallSnapshot(n, m)
    \/ \E m \in Node : DetectFailure(m) \/ ChangeLeader(m)

Spec == Init /\ [][Next]_vars

-----------------------------------------------------------------------------
(***************************************************************************)
(* Properties                                                              *)
(***************************************************************************)
IsState(s) ==
    /\ \A c \in DOMAIN s.clusters : c \in 1 .. s.next - 1 /\ s.clusters[c] \in SubCluster
    /\ s.next \in Nat \ {0}
    /\ s.addresses \subseteq Node

\* Every variable has its type, and nobody runs or applies what is not there.
TypeOK ==
    /\ \A i \in DOMAIN log : log[i] \in Command
    /\ voters \subseteq Node /\ leader \in voters
    /\ \A n \in Node : IsState(sm[n])
    /\ \A n \in Node : applied[n] \in 0 .. Len(log) /\ obs[n] \in 0 .. Len(events[n])
    /\ {runtimes, loops, failed} \subseteq [Node -> SUBSET Nat]
    /\ members \subseteq [cluster : Nat, founder : Node, since : Nat] \X Node
    /\ missed \cup restored \subseteq Node
    /\ \A t \in DOMAIN tasks :
           /\ tasks[t].node \in Node
           /\ tasks[t].wait \in 0 .. Len(log)
           /\ tasks[t].res # None => tasks[t].wait > 0

\* Where node n is a member of a sub-cluster, by its own state machine.
MemberOf(n) == {c \in Known(n) : n \in Range(sm[n].clusters[c].nodes)}

\* When the observer of a node has caught up with what the node applied, the
\* node runs only sub-clusters its state machine puts it in, and all of them but
\* those whose Raft node could not be created when it was last told to (the
\* error is logged and nobody tries again), whatever was created, deleted,
\* split, drained, added and removed in between.  A node that was restored from
\* a snapshot, or lost events, was not told of everything.
RuntimesFollowMetadata ==
    \A n \in Node \ (restored \cup missed) :
        obs[n] = Len(events[n]) =>
            runtimes[n] \subseteq MemberOf(n) /\ MemberOf(n) \ failed[n] \subseteq runtimes[n]

\* Replicas that have applied the same commands hold the same state, also
\* when one was restored from the snapshot of another.
MetadataAgreement ==
    \A n, m \in Node : applied[n] = applied[m] => sm[n] = sm[m]

\* An id stands for one sub-cluster for good: no two creations, seen on any
\* two nodes, are given the same id, also after a restore.
IdsNeverReused ==
    \A n, m \in Node : \A i \in DOMAIN events[n], j \in DOMAIN events[m] :
        /\ events[n][i].type = "Created" /\ events[m][j].type = "Created"
        /\ events[n][i].cluster = events[m][j].cluster
        => events[n][i] = events[m][j] /\ (n = m => i = j)

Quiet ==
    /\ \A n \in voters : applied[n] = Len(log) /\ obs[n] = Len(events[n])
    /\ \A t \in DOMAIN tasks : tasks[t].code = <<>>

\* Nothing went wrong and nobody took anything away.
OnlyGrowth ==
    /\ env.lost = MaxLost
    /\ \A t \in DOMAIN tasks :
           tasks[t].kind \in {"add_node", "create_sub_cluster", "add_node_to_sub_cluster",
                              "set_metadata"}

\* A node that joins ends up in a sub-cluster: no race between placements,
\* creations and splits, each decided on a state that may be old when its
\* commands are applied, leaves a node without one.
NoNodeStranded ==
    Quiet /\ OnlyGrowth =>
        \A n \in voters : n \in sm[leader].addresses =>
            \E c \in Known(leader) : n \in Range(sm[leader].clusters[c].nodes)

\* Two Raft groups of the same sub-cluster, each with a log of its own.
Rivals(g, h) == g # h /\ g.cluster = h.cluster

\* A sub-cluster has a second Raft group only if the founder of one of the two
\* was removed from it: creations, additions and deletions of any nodes, heard
\* of however late, after failed starts or lost events, never split one.
OneGroupPerSubCluster ==
    \A v, w \in members : Rivals(v[1], w[1]) =>
        \E i \in DOMAIN log :
            log[i] \in {RemoveNode(v[1].cluster, v[1].founder),
                        RemoveNode(v[1].cluster, w[1].founder)}
=============================================================================
