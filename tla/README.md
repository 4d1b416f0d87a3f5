# Raftoral in TLA+

Raftoral runs replicated workflows: a workflow function is executed on every
node of a Raft group, and its *checkpoints* go through the Raft log so that all
executions see the same values. A management cluster, itself a Raft group,
decides which nodes form which execution clusters.

This directory holds TLA+ modules translated from the Rust source, TLC
configurations that check them on small instances, and proofs checked by TLAPS.
`PROJECT.json` lists components, runs, mutants, findings, hazards and theorems,
and maps every definition to the source lines it models.

## 1. Inventory

Paths are relative to `src/src/` unless they start with `raftoral-client/`.

| Component | State it keeps | Operations | Modelled in |
|---|---|---|---|
| `workflow/state_machine.rs` | workflows, types, inputs, results, owners, checkpoint history; transient checkpoint queues | apply of WorkflowStart, WorkflowEnd, SetCheckpoint, OwnerChange; snapshot, restore; pop | `WorkflowStateMachine` |
| `workflow/runtime.rs`, `context.rs`, `replicated_var.rs`, `registry.rs` | the tasks: one observer and one execution per workflow on each node, callers that await results | start_workflow, wait_for_completion, run_workflow_observer, execute_workflow, set_checkpoint, execute_owner_or_wait | `WorkflowRuntime` |
| `raft/generic/event_bus.rs` | a bounded broadcast channel | publish, subscribe, receive, lag | `WorkflowRuntime` |
| `raft/generic/node.rs` | the raft-rs node, pending proposals, follower progress, snapshot index | event loop, on_ready, propose, add_node, remove_node, snapshot creation, failure detection | on_ready and restarts in `RaftNode`; event loop, roles and configuration changes in `RaftGroup`; events and proposals in `WorkflowRuntime` and `ManagementRuntime` |
| `raft/generic/proposal_router.rs` | a cached leader | propose, forward, propose_and_wait, leader tracker | `RaftGroup`; its outcomes in `WorkflowRuntime` |
| `raft/generic/rocksdb_storage.rs` | log, hard state, conf state, snapshot on disk | initialization, append, hard state, apply_snapshot, reads | `RocksDBStorage` |
| `raft/generic/transport.rs`, `cluster_router.rs`, `server/` | peers, mailboxes | add and remove peers, send, route | `RaftGroup`, without `server/` |
| `management/state_machine.rs` | sub-clusters, next id, node addresses | seven commands, snapshot, restore | `ManagementStateMachine` |
| `management/cluster_manager.rs` | configuration only | placement, splits, rebalancing, consolidation | `ManagementStateMachine` |
| `management/runtime.rs` | map of sub-cluster runtimes | create, delete, add, remove, metadata, add_node, remove_node, handle_failed_node, run_event_observer | `ManagementRuntime` |
| `full_node/`, `grpc/bootstrap.rs`, `http/bootstrap.rs` | - | founding, discovery, choice of an id, joining | `RaftGroup` (gRPC); the founder's sub-cluster in `ManagementRuntime` |
| `full_node/workflow_service.rs`, `grpc/`, `http/` | - | remote calls that delegate to the above | discover, add_node, send_message in `RaftGroup`; run in `WorkflowRuntime` |
| `sidecar/server.rs`, `workflow_proxy_runtime.rs`, `raftoral-client/` | channels, streams, handlers | workflows executed by an application process | `Sidecar` |
| `kv/`, `wasm/`, `workflow/ownership.rs` | - | an example, bindings, and a map nobody uses | not modelled |

**How they interact.** A caller proposes a command through the
`ProposalRouter`, locally or forwarded to the leader. `RaftNode` applies
committed entries to the state machine, publishes the returned events on the
node's `EventBus` and completes the waiting proposal if it was made on this
node. Observers subscribed to the bus act on events: the workflow observer
spawns executions, executions wait for checkpoints, the management observer
starts and stops sub-cluster runtimes. Executions also read and pop the state
machine directly. Nothing but the log orders what happens on two nodes. A
process joins by asking seeds who leads, choosing an id and calling AddNode at
the leader. In sidecar mode a proxy takes the place of the workflow runtime and
passes workflows to applications over streams.

**What is hard here.** Tasks read shared state, release the lock and act on it
later (ownership, queues, copies of the management state). Subscribing and
looking at the queue are two steps. Events are lost to slow receivers, and
skipped for entries that a snapshot replaced. A node that restarts replays the
log and executes old workflows again. Multi-step operations ignore the errors
of their steps. Time-outs race with answers. A Ready is written to disk in
several steps, and a crash may fall between any two of them. Any error ends the
event loop of a Raft node, which nobody starts again and whose mailbox nobody reads.
Bounded channels make tasks wait for each other. `PROJECT.json` lists 40 of these places with their lines and
the properties aimed at each.

**What makes it correct.** Replicas agree; executions of one workflow agree; a
result is final; what a workflow leaves behind is cleaned up; a running owner
completes; nodes run exactly the sub-clusters the metadata puts them in, save what
could not be started; a sub-cluster keeps one Raft group while its founder stays; ids
are not reused; nobody who joins is left without a sub-cluster; whatever a crash
leaves on disk, a node keeps its votes and the entries it has acknowledged and
comes back to the state it had; an event loop ends for a known reason only; a
proposal is committed once and its caller hears of it; a request to an
application is answered once and not lost.

## 2. Modules

**`WorkflowStateMachine`** - `apply`, `snapshot`, `restore` and the queue
operations as operators on two values: `core`, the fields a snapshot carries,
and `queues`, the transient queues. Ids and keys are sequences of segments, so
that `make_queue_key` (joining with `:`) and `starts_with` have the collisions
the strings have. `ApplyQueues` is used for the history and for the queues, as
the code treats both alike in `apply`.

**`WorkflowRuntime`** - an execution cluster. Raft is external: `pending` holds
proposals, `log` the committed entries. `Commit` or `Lose` ends a proposal.
Per node there are the state machine, `applied`, the published `events`, the
observer's position, and an execution per workflow. The program counter of an
execution names the awaits of the code:

| pc | where the task is |
|---|---|
| `spawned` | before `execute_workflow` has looked up the function |
| `compute` | at the closure of a checkpoint (`with_computation`) |
| `dequeue` | before `try_dequeue_checkpoint` |
| `subscribe`, `check` | in `execute_owner_or_wait`, before and after the subscription |
| `await` | in `propose_and_wait` |
| `pop` | the owner, before it pops its own value |
| `wait` | a follower, waiting for an event |
| `done`, `exited` | returned; returned without completing |

`Apply` is the body of `on_ready` for a committed entry: state machine, events
and completion of the proposal in one step: the events are published while the
state machine is locked, and the whole loop runs under the lock of the node.
`InstallSnapshot` restores and says nothing to subscribers or callers. `Crash`
and `Restart` model a process with in-memory storage: it starts over with an
empty state machine and replays. `ref` is a ghost: the state each prefix of the
log leads to.

**`DurableExecution`** - the abstract promise: one decided value per
checkpoint, every execution sees the decided values in order, one outcome made
from all of them. `WorkflowRuntime` implements it under the refinement
`decided` = the SetCheckpoint values in the log, `seen` = what executions got,
`outcome` = the committed result.

**`ManagementStateMachine`** - the management commands, events and snapshot,
and the four decisions of the `ClusterManager`. A decision is a sequence of
commands; where the code takes the first of equals in `HashMap` order the
operator returns the set of all decisions. The ratio of consolidation is
compared by cross-multiplication instead of `f64`.

**`ManagementRuntime`** - operations are tasks that hold the instructions still
to be executed: `propose` (errors ignored), `call` (propose_and_wait), `conf`
(a configuration change) and `decide` (copy the local state, ask the
ClusterManager, go on with its proposals). Between two instructions anything may
happen. The error of a `call` may hide a command that is committed all the same,
as a forward may fail after delivery (`StepCall`). `Observe` is one iteration of
`run_event_observer`, `Lag` its arm for a receiver that the bus has left behind. What
a node runs is kept apart from what it believes:

| variable | in the code |
|---|---|
| `runtimes` | the map `sub_clusters` of a node |
| `loops` | the Raft nodes that run in their tasks; removal from the map ends none |
| `failed` | sub-clusters whose Raft node could not be created (`Err(e) => continue`) |
| `members` | pairs of a Raft group and a voter of it |
| `missed`, `restored` | nodes whose observer lost events or whose state came from a snapshot |

A Raft group is named by its sub-cluster, the node that founded it and the event on
which it did. `StartRaftNode` is the creation of a Raft node with a list of voters:
one that is alone in the list elects itself and founds a group, any other becomes a
PreCandidate that asks nobody (`RaftGroup`) and waits to be added to one. With
storage (`Persistent`), it fails while the loop of an earlier Raft node for the
same sub-cluster holds the lock of the database; any creation may fail (`MaxStartErrors`).
The first node of a creation starts alone; a node that is added starts with the list
its own metadata has by then, which may be itself alone: that is how a sub-cluster
that was emptied gets a second group. In sidecar mode the constructor panics (`Create`
in `Sidecar`) and ends the observer, which here is a node that observes no more.

**`RocksDBStorage`** - the database as an image (a record of its keys), and each
operation as the sequence of its writes. A write is lazy (RocksDB's default: it
survives the process, not always the machine) or synchronous.

**`RaftNode`** - one node over that storage. raft-rs is external and hands out a
Ready: a term or a vote, entries and a commit index, or a snapshot. `OnReady`
turns it into the instructions of `on_ready` in the code's order (restore, apply,
append, hard state, send, commit, apply, snapshot), executed one at a time.
`past` is the set of images a crash may fall back to: a lazy write adds one, a
synchronous write leaves only its own. `Crash` picks any; `Start` and `Opened` are
`open_or_create` and the constructor. A send may fail and a message may be refused
(`MessageRefused`); either ends the event loop for good.
The ghosts `promised` and `acked` are what other nodes have been told; `chosen` is
the log the cluster has committed. `raft.conf` is the configuration of raft-rs,
`node.conf` the cached one.

**`RaftGroup`** - the management cluster as a group of processes: founding,
discovery and joining (`FullNode`), the event loop (`run_from_arc`,
`handle_raft_message`, the roles and sends of `on_ready`), the peers of the
transport, and the `ProposalRouter`. The model rests on one fact of the code:
`on_ready` returns early for a PreCandidate and so never sends a vote request,
while `pre_vote` is on. A leader can only be elected in a configuration of one
voter, hence there is one leader, the founder, one term and one log, which is a
variable of its own; a follower is how much of it it has. `node[p]` holds the rest:

| field | in the code |
|---|---|
| `state` | not started, event loop running, event loop ended (`halted`), waiting in a send for good with the node locked (`stuck`), process stopped |
| `peers` | the addresses in the transport |
| `conf`, `role`, `lead` | raft-rs: configuration, role, known leader |
| `cache` | the router's cached leader |
| `have`, `applied` | length of the log, applied index |

`Join` is `new_joining` up to the event loop, `add_node` the RPC, `Listen` the
moment the spawned server binds. `Handle` is one message of the mailbox, `Send` one
message of the leader; either may fail and end the loop, after what was committed has
been applied. A halted process goes on to listen, to answer `discover` and to accept
proposals; its receiver stays, so a send into its mailbox waits as soon as that is
full. The 1000 messages this takes are abstracted: a send to an ended loop is lost in
the mailbox, or hangs (`Hang`). `task` is a caller of
`propose_and_wait`. `blind` and `early` are ghosts that name two reasons for a
loop to end.

**`Sidecar`** - a node in sidecar mode and its applications: a proxy runtime
per sub-cluster, the request and result channels, the broadcasting forwarder,
the two halves of each stream, and of `raftoral-client` the reader, which runs
handlers inline, and the heartbeat. Channels are bounded and senders wait. The
handshake of senders at start-up is modelled: a proxy puts its own result sender
into the shared configuration, the server copies it once (`StartServer`).
`Disconnect` may cut what is under way at any point.

**`MCWorkflowRuntime`, `MCManagementRuntime`, `MCSidecar`** - values for the
constants; the other modules get theirs from the configurations.

**`WorkflowRuntimeProofs`, `SidecarProofs`, `ManagementStateMachineProofs`,
`ManagementRuntimeProofs`, `RaftNodeProofs`, `RaftNodeLogProofs`,
`RaftNodeReplayProofs`, `RaftGroupProofs`** - the theorems (section 4).

## 3. Runs

Passing runs:

| run | instance | what it shows |
|---|---|---|
| `agreement` | 2 nodes, 1 workflow, 2 distinct keys, 1 snapshot, 1 lost proposal, a bus of 2 events | `ExecutionAgreement`, `CleanedUpOnCompletion`, `ResultIsFinal`, the refinement of `DurableExecution`, `TypeOK` |
| `crash_restart` | 2 nodes, one key used twice, 1 crash | `StateAgreement`, `QueueIsSuffixOfHistory`, and under fairness `OwnerCompletes` |
| `owner_change` | 2 nodes, one key used twice, 1 change of owner, 1 snapshot, 1 failing proposal | `StateAgreement`, `QueueIsSuffixOfHistory` |
| `management_operations` | 2 nodes with storage, the founding and two more operations of any kind, a bus of 2 events | `NoNodeStranded`, `RuntimesFollowMetadata`, `OneGroupPerSubCluster`, `TypeOK` |
| `management_faults` | 2 nodes without storage, the founding and one more operation, 1 each of lost proposal, snapshot, suspected follower, leader change, Raft node that cannot be created | `MetadataAgreement`, `IdsNeverReused` |
| `persistence` | 1 node, a log of 2 entries, terms up to 2, a snapshot after each command, 2 faults (crash or received snapshot) | `PromisesKept`, `AcknowledgedSurvive`, `Restartable`, `ReplaysLog`, `ConfigurationSurvives`, `TypeOK` |
| `raft_group` | a founder, 2 processes that join with any seeds, 1 command, 1 fault (a crash, a delay that fires a time-out, or a removal) | `LoopsEndForAReason`, `ProposalOutcome`, and under fairness `ProposalsEnd`, `TypeOK` |
| `sidecar` | 2 applications, 1 sub-cluster, 1 workflow that checkpoints, channels of 1, 3 heartbeats | `AtMostOneAnswer`, `NoAnswerLost`, and under fairness `RequestsAnswered`, `TypeOK` |

Violations, each one a disagreement of the code with a line of the repository
(quoted under `findings`):

| run | what TLC finds |
|---|---|
| `same_key` | A key checkpointed twice: a follower takes the first value from the event, leaves it in the queue, and pops it at the second checkpoint. |
| `follower_waits` | A follower looks into the queue, the checkpoint is applied, the follower subscribes and waits forever. |
| `restart_loses_state` | A node takes a snapshot and restarts: its log begins after the snapshot, and its state machine is empty. |
| `one_crash` | One of three voters stops. The leader's send to it fails and ends the leader's loop, the other voter becomes a PreCandidate that asks nobody, and a proposal waits forever. |

**Bounds.** Every property compares at most two replicas, two executions or two
operations, so two nodes and, for workflows, two checkpoints make all the pairs
happen. `MaxAttempts` stands for the 10 attempts of the retry loop: 2 gives one
attempt with a time-out and the last one without; `owner_change` uses 1 because
the time-outs only multiply its states. `BusCapacity` and `BusSize` are 100 in the
code; 2 in `agreement` and `management_operations` makes receivers lag, 100 elsewhere
means never. Each fault happens
at most once, at any moment. The sizes of the ClusterManager, 3/2/6/3 in the
code (target, minimum, maximum, split), are 1/1/2/1, so that two nodes
reach every branch. `MaxTasks` bounds calls, the founder's included: two more are
enough to remove a node and add one again, to find a database locked, and for a node
to found a second group.
In `persistence` one candidate is enough, since a vote lost on disk shows as no
vote; two entries and two terms allow an entry to be replaced, and two crashes a
snapshot to be taken after a restart.
In `raft_group` three processes are the fewest in which one stops and a majority
is left, two join at once, or two take the same id; ids go up to 3 (`MaxId`), and a
process that would take a higher one does not join. One command is enough: it can be
proposed anywhere, at any time, and only its own copies matter. `sidecar` has
two applications because the forwarder serves them in turn under one lock, and
channels of one message (100 in the code) so that every send can wait; three
heartbeats are what it takes for reader and stream task to wait for each other.
Symmetry is used only in `owner_change`, which checks invariants alone.

**Deadlock** is not checked: a node whose event loop has ended stays so, a cluster
in which every workflow is over and every call returned has nothing to do, and a
call whose proposal was lost waits for good, which is what the code does. Where waiting for good would be wrong a
liveness property says so: `OwnerCompletes`, `ProposalsEnd`, `RequestsAnswered`.

**Fairness.** `FairSpec` assumes that each task that can go on is scheduled
(tokio), that a node that is up applies what is committed, and, while no node has
ever stopped (`Intact`), that some pending proposal is committed when there is one.
After a stop no commit is owed: the leader's failed send may end its loop, as
`one_crash` shows, and one of two nodes is no majority. Crashes,
restarts, losses and changes of owner are never owed. In `RaftGroup` every event loop handles its messages
and sends what is due (it runs every tick), a task that can go on does, and a
time-out fires when nobody leads; joining, proposing, removing, crashing and
delays are not owed. In `Sidecar` every task is scheduled and handlers return;
connections, registrations, starts, heartbeats and disconnections are not owed.
Weak fairness is enough in all of them.

**What the passing runs depend on.** `ExecutionAgreement` and the refinement
hold when no key is used twice, nothing crashes and the owner stays;
`same_key` shows the first condition is needed. After a crash a replaying owner
proposes its checkpoints again, also of completed workflows, and these stay in the
history; hence `CleanedUpOnCompletion` is not part of `crash_restart`.
`OwnerCompletes` promises completion as long as no node stops, for the reason given
under fairness, and needs a fixed owner: if ownership moves while the new owner is
in its last attempt, the retry loop ends with a time-out there and the old owner
waits. A caller of `wait_for_completion` can subscribe after the completion was
published and wait forever, as followers do in `follower_waits`; this is
modelled and has no run of its own. `NoNodeStranded` is claimed for operations
that only add, without lost proposals: a split whose creation is lost still
removes the nodes. `RuntimesFollowMetadata` exempts nodes restored from a
snapshot, which publishes no events, and nodes whose observer lost events; nothing
reconciles them. A sub-cluster whose Raft node could not be created when the node was
last told to is missing from its runtimes (`failed`): the error is logged and nobody
tries again. Adding a node with storage again is such a case whenever its old loop
still runs, and nothing but the attempt itself ends that loop. In `persistence`, `ReplaysLog` is claimed
until the node restarts from a snapshot (`restart_loses_state` shows why);
`ConfigurationSurvives` until it does so twice, because after the first such
restart the cached configuration is the initial one and the next snapshot stores
it; `AcknowledgedSurvive` and `Restartable` for nodes that received no snapshot,
because `apply_snapshot` leaves `last_index` behind `first_index`. `Restartable`
also leaves out a storage whose initialization was cut short after the hard
state was stored; it counts as initialized and has no first index.
`OneGroupPerSubCluster` allows a second group where the founder of one of the two was
removed, because there the code founds one: empty a sub-cluster, add a node, and it is
the only voter it starts with (`runtime.rs:1251`), beside the group of the removed
founder, whose loop nobody has stopped. The property says nothing of the nodes that are
in no group: a sub-cluster created with several nodes has the first as its only voter.
`LoopsEndForAReason` lists the reasons the code has; TLC reaches each of them, the last
one with four processes: two that joined without having discovered the leader cannot
answer it, the leader hears from no quorum, steps down, and the next proposal ends its
loop. The three processes of the run do not show this; the proof of the property did.
`ProposalsEnd` exempts callers whose leader has stepped down, or whose own or leader's
loop has ended or is stuck in a send, and `one_crash` shows why. `RequestsAnswered` exempts three ways to hang
that the code has: a handler that waits for a checkpoint event the server never
sends, a reader and a stream task that wait for each other over a heartbeat, and
a server whose result sender leads nowhere.

**Seen and without a run.** The closure of `checkpoint_compute!` is awaited on every
node, owner or not (`Compute`). The end of workflow `a` removes the checkpoints of
`a:b` (`StartsWith`). `README.md:219` of the repository promises a new owner when
the owner fails; no code proposes OwnerChange. A node removed from a sub-cluster
goes on running its Raft node and stays a voter of its group (`OnNodeRemoved` leaves
`loops` and `members` alone), though `management/runtime.rs:1298` says "shut down the
runtime"; and `runtime.rs:1250` says "joining existing cluster" of the node that
founds a second group. A leader can hang in a send to a loop that has ended (`Hang`),
where `cluster_router.rs:70` promises an error for a full mailbox. Two
consolidations decided on the same state drain one cluster too many. With two
sub-clusters on a sidecar node, results are proposed in the one whose proxy was
made last before the server started. Two processes that join together may take
the same id, and the second of two configuration changes at once is dropped while its
caller waits. A request that finds no application connected is dropped
(`TakeRequest`), a start that the proxy's observer misses is never forwarded
(`Subscribe`), and `blocking_lock` panics when the proxy is made in an asynchronous
task, as the management observer makes it (`Create`). `create_sub_cluster` may return
the id of another caller's sub-cluster (`StepCreated`). `wait_for_workflow_completion`
answers `success = true` for the result of a failed workflow, too.

## 4. Proofs

`WorkflowRuntimeProofs` proves for every set of nodes, workflows and keys, every
program and every bound, from `RuntimeAssumption` (types of the constants; the
bus and the number of attempts are positive) and what
`WorkflowStateMachine` assumes of its constants:

* **`TypeCorrect`**: `Spec => []TypeOK`. `TypeOK` is not inductive: that a
  popped or computed value belongs to a key needs the execution to stand at a
  checkpoint its program has. `TypeInv` adds `StepInProgram`, which says so.
  One lemma per group of actions (Raft, node, caller, execution).
* **`ReplicasAgree`**: `Spec => []StateAgreement`. The inductive invariant is
  `ReplicasFollowLog`: entry i of the ghost `ref` is the state after i entries,
  and each node holds entry `applied`. Two nodes with the same `applied`
  then hold the same entry. The steps that matter are `Commit` (extends `ref`),
  `Apply`, `InstallSnapshot` (needs `RestoreCore(Snapshot(s)) = s`, a lemma) and
  `Crash` (entry 0).
* **`QueueIsLeftOfHistory`**: `Spec => []QueueIsSuffixOfHistory`. Inductive
  with `TypeInv`; lemmas show that push, pop, clean-up and restore keep a queue a
  suffix of its history.

Four more hold of a cluster in which no node crashes and no owner is changed (`Calm`),
while proposals are lost, nodes lag, miss events and take snapshots as they may. The
instance of the run `agreement` satisfies all hypotheses.

* **`ExecutionsAgree`**: `ExecutionAgreement`, if no two checkpoints share the string
  "id:key" (`Unambiguous`) and no workflow sets a key twice (`KeysUsedOnce`; the run
  `same_key` shows the disagreement otherwise). Part `Owned` of the invariant: only the
  node that started a workflow proposes for it, so every command that is pending,
  committed or broadcast, and every value of a history, is the value the owner
  computed for that call. Part `Seen`: so is every value an execution was given, by a
  pop, by an event or by its own proposal.
* **`ResultsAreFinal`**: `ResultIsFinal`. An entry is named by the call it comes from
  and no call is proposed twice (`Names`, `Distinct`): its execution has passed it, and
  is not born again, because events come from the log (`Published`) and the observer
  reads each start once (`Observed`). So there is one `WorkflowEnd`, and only it
  completes a workflow (`Ended`).
* **`CompletionCleansUp`**: `CleanedUpOnCompletion`, if moreover no proposal fails
  (`NoErrors`: after an error the workflow may go on to its end while its command is
  still on its way) and under `Unambiguous`. An owner with a pending entry awaits it
  (`Waiting`), so no checkpoint is committed behind the end.
* **`ClusterIsDurable`**: `ImplementsDurableExecution`, under all four hypotheses. The
  commit of a `SetCheckpoint` is `Decide`, that of a `WorkflowEnd` is `Finish`, the
  return of `set_replicated_var` on any node is `See`; every other step stutters.
  `DurableExecution` decides one value after the other and shows an execution only
  decided values, so agreement on values is not enough: the order of the log has to be
  the order of the owner's calls. Part `Ordered` of the invariant: the decided values of
  a workflow are the values of its owner's first calls (`InOrder`), as many as the
  owner has got beyond, plus the one it awaits once that is committed (`Counted`), and
  each value that an event, a queue or a history can give to an execution is among
  them and is the next one it has not seen (`Recorded`, `NextUp`). What
  `CheckpointValues` selects from the log is proved from its recursion equations with
  the least-number principle, as for `Commands` below.

`SidecarProofs`, from `SidecarAssumption` (types, channels of at least one message):

* **`SidecarTypeCorrect`**, **`AnsweredAtMostOnce`**, **`AnswersAreNotLost`**:
  `TypeOK`, `AtMostOneAnswer`, `NoAnswerLost`. A request for an application is
  followed from the forwarder over the stream, the handler and the stream back to the
  result channel and the proposal. Lemmas count the places of a channel that hold
  it, and what sending and receiving do to that number. The invariant: it is on its
  way in at most one place; every step moves it on, only `Deliver` puts one there,
  and only a disconnection or a missing sender takes one away.

`ManagementStateMachineProofs` and `ManagementRuntimeProofs`, from the assumptions of
the two modules (types of the constants; `Node` is finite, because the decisions
count members):

* **`ManagementTypeCorrect`**: `TypeOK`. The decisions of the ClusterManager name
  nodes and ids that exist, whichever of equals `HashMap` order takes.
* **`ReplicasOfMetadataAgree`**: `MetadataAgreement`. There is a replay of the log
  (`Replays`) of which each node's state is entry `applied`, and the creations it
  has heard of are among the entries up to there (`History`).
* **`IdsAreNeverReused`**: the counter of the state after i commands exceeds every
  id any of them gave out, and grows with i; two creations at different places thus
  differ, and at the same place are the same.
* **`GroupsAreNotSplit`**: `OneGroupPerSubCluster`. The invariant `Lineage` traces every
  group to the log: its founder was named first by the command that created the
  sub-cluster, or was alone in the sub-cluster after some command (`Rooted`). A member
  stays one until a command removes it (`Kept`), so of two different founders the
  one that came first was removed, or the other was never alone. And one node
  founds a group of a sub-cluster once, unless removed in between: its events come in
  the order of the log (`InOrder`), so behind having joined it does not hear of the
  creation again, and its runtime stands until the sub-cluster is gone for good
  (`Stands`). Lost events and restores only take events away. TLC checked `Lineage`
  before it was proved.
* **`RuntimesAreTheMetadatas`**: `RuntimesFollowMetadata`. Of every sub-cluster
  the last event still to be handled that bears on it, or else the node's map of
  runtimes, says what the node's state machine says, save where the start that event
  asks for fails or has failed (`Follows`).
* **`NobodyIsStranded`**: `NoNodeStranded`. The property speaks of quiet states only; the
  invariant `Growing` says what holds on the way, of the state after the whole log. No
  sub-cluster known to any node is gone, so an `AddNode` decided on an old state does
  not fail. A registered node is in a sub-cluster or some operation still has the
  instruction that places it (`Settled`). What makes removals safe is their direction:
  a split removes a node from c only behind the command that founds a new sub-cluster
  with it, whose id is higher than that of any known one; so whenever `RemoveNode(c, n)`
  is committed, n is in a sub-cluster younger than c (`Removal`), and also when splits
  of several sub-clusters race, nobody is removed from the youngest one it is in. That
  every split of a decision founds first goes through `FlattenSeq` with the
  least-number principle (`SplitsMove`). TLC checked `Growing` on the instance of
  `management_operations` before it was proved.

`RaftNodeProofs`, `RaftNodeLogProofs` and `RaftNodeReplayProofs`, from
`NodeAssumption` (types, this node is one of the peers) and `NoneIsNoValue` (an absent
key differs from every value), for any snapshot interval, length of the log, terms
and number of faults. The invariant has five parts:

* `Types` and `Configured`: `TypeOK`, what an instruction of `on_ready` may ask for,
  and that an image with a first index has a configuration. **`NodeTypeCorrect`**.
* `Votes`: all images a crash may leave have the same hard state, since it is only
  written synchronously; a pending one is that of raft-rs; and it is written ahead of
  every send. **`VotesAreRemembered`** (`PromisesKept`).
* `Logs`, while no snapshot of the leader was installed: every image with a first
  index is complete up to its commit index, and all hold the entries that were
  acknowledged. What is not stored yet is in the code that is being executed: the
  append ahead of whatever tells of the log or commits it, the commit index ahead of
  a snapshot (`Working`); and a snapshot under way does not reach beyond either
  (`Snapshotting`). **`AcknowledgedEntriesSurvive`** (`AcknowledgedSurvive`) and
  **`StorageIsRestartable`** (`Restartable`).
* `Replay`, on top of it: the state machine has the commands up to the applied
  index, and a configuration - stored, cached or that of raft-rs - has at least the
  changes that are applied, or cut from the log, and at most those committed.
  **`LogIsReplayed`** (`ReplaysLog`) and **`ConfigurationIsRestored`**
  (`ConfigurationSurvives`).

What `Commands` (a recursive function over the log) computes is proved from its
recursion equations with the least-number principle: a smallest counterexample
contradicts the equation at its index.

`RaftGroupProofs`, from `GroupAssumption` (the founder is a process, `None` is not, there
is an id), for any processes, ids, commands and number of faults. The invariant:

* `Types` and `Bounded`: nobody, and no message, is ahead of the leader's log and commit
  index; whoever leads has the whole log. **`GroupTypeCorrect`** (`TypeOK`).
* `Group`: id 1 is the founder's, only the founder leads and is taken for the leader, an
  address and an added entry belong to a node with that id, though ids may be shared;
  only members are sent entries and answer them, and only the founder gets proposals;
  members have addresses; whoever joined without the leader (`blind`) has asked another
  member. A loop is stuck only where another one has ended. So, without an excuse, at most one voter does not answer, and then there are
  at least three (`QuorumIsAlive`): the leader does not step down.
  **`LoopsEndOnlyForAReason`** (`LoopsEndForAReason`).
* `Proposals`: a command is in one place, with its caller, in the founder's mailbox or
  in the log, and who was told of success is alive and has applied it.
  **`ProposalsHaveOneOutcome`** (`ProposalOutcome`).

One lemma per action, on top of one that says what is left to show of a step that
changes one node (`GroupStep`). `ApplyUpTo` is recursive: that its equations have a
solution, and what it leaves of a node (`Reached`), goes by the least-number principle
as for `Commands`.

Only model-checked: liveness (`OwnerCompletes`, `ExecutionsFinish`,
`ProposalsEnd`, `SurvivesMinorityFailure`, `RequestsAnswered`) because fairness and
ENABLED are outside the prover. Every other property of a passing run is stated by a
theorem; those of executions under the hypotheses above, while with crashes or a change
of owner they stay with the runs of section 3.

## 5. Not modelled

* raft-rs (elections, replication, quorums) is a library outside the
  repository: external, by what the code sees of it.
* Names, payloads, serialization, logging, metrics, TLS, HTTP and gRPC encoding.
* Wall-clock time: a time-out may happen whenever its condition holds.
* The moment at which observers subscribe: they are spawned before the node's
  event loop and taken to be subscribed before the first entry is applied.
* I/O errors of RocksDB other than a stop; `compact`, which has no caller.
* The in-memory storage: a node that uses it starts over (`Crash` in
  `WorkflowRuntime`).
* Workflow ids that are started twice; the services use fresh UUIDs.
* In `RaftGroup`: restarts and snapshots (they are in `RaftNode`), more clusters
  than the management cluster, the number of messages that fills a mailbox, learners as distinct from voters, and
  the progress tracking of failure detection, of which `ManagementRuntime` has the
  report. Joining over HTTP is not modelled: there a joining process founds a
  cluster of its own.
* In `Sidecar`: inputs, which are always empty, whether an execution succeeded, and
  reconnecting, which the client does not do.
* The polling of `wait_for_workflow_completion` and its HTTP twin: it reads the
  stored result and changes nothing.
* `kv/` is an example with the pattern of `WorkflowRuntime` and no executions;
  `wasm/` wraps for JavaScript; nobody uses `workflow/ownership.rs`.
* In the management cluster: the removal of the only voter; elections of a
  sub-cluster's group beyond its founder, which `RaftGroup` shows not to happen.
* In `RaftNode`: the early return of `on_ready` for a PreCandidate (`node.rs:822`). It
  drops a Ready, which is a Ready that never was; `RaftGroup`, where it matters, has it.
  In `RocksDBStorage`: the comparison of the stored node id (`rocksdb_storage.rs:209`),
  since an instance is one node with one id.
* In `Sidecar` the constructors may be called outside an asynchronous task
  (`caller = "blocking"`). The only caller in the repository is the management
  observer, where they panic; all that follows `Create` is about the code as it would
  run once they do not.

## 6. Plan

1. Done: execution clusters with their abstract specification, the management
   cluster, the Raft node over RocksDB, the Raft group with joining, transport
   and proposal router, the sidecar with its client, first theorems.
2. Done: theorems on the sidecar, the management cluster, the Raft node, the Raft
   group, and on executions while no node crashes and no owner changes, the
   refinement of `DurableExecution` included.
3. Next: the properties of executions with crashes and changes of owner, as far as they
   hold there (section 3).
