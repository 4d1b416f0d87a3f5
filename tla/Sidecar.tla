------------------------------ MODULE Sidecar ------------------------------
(***************************************************************************)
(* A node in sidecar mode.  Workflows are executed by application          *)
(* processes, which are connected to the node by streams:                  *)
(*                                                                         *)
(*   event bus -> proxy runtime -> request channel -> forwarder -> streams *)
(*   Raft <- proxy runtime <- result channel <- stream tasks <- streams    *)
(*                                                                         *)
(* The node has one WorkflowProxyRuntime per sub-cluster, one              *)
(* SidecarServer, and for each application two tasks on the server side    *)
(* (the forwarder is shared) and a reader and a heartbeat task on the side *)
(* of raftoral-client.  All channels are bounded and senders wait.  An     *)
(* application stands for one connection; the client does not reconnect.   *)
(*                                                                         *)
(* A request is named by its workflow.  Its input is always empty          *)
(* (get_input is a stub) and plays no role.  The server never sends a      *)
(* CheckpointEvent or a WorkflowCancellation, so the reader's arms for     *)
(* them are left out.                                                      *)
(***************************************************************************)
EXTENDS Naturals, Sequences, FiniteSets

CONSTANTS App,            \* connections of applications
          Cluster,        \* sub-clusters this node is put in
          Workflow,       \* workflows, each started once
          Home,           \* Home[w]: the sub-cluster w is started in
          Owned,          \* the workflows this node owns
          Checkpointing,  \* the workflows whose function may checkpoint
          Capacity,       \* of every mpsc channel (100 in the code)
          BusCapacity,    \* of an event bus (100 in the code)
          MaxHeartbeats,  \* bound: heartbeats of all applications
          None

ASSUME SidecarAssumption ==
    /\ Home \in [Workflow -> Cluster]
    /\ Owned \subseteq Workflow /\ Checkpointing \subseteq Workflow
    /\ Capacity \in Nat \ {0} /\ BusCapacity \in Nat \ {0}
    /\ MaxHeartbeats \in Nat
    /\ None \notin App \cup Cluster \cup Workflow

VARIABLES caller,     \* whence the proxies' constructors are called
          shared,     \* the proxy that reads what goes into the sender in
                      \* shared_config; None is the sender made by
                      \* ProxyConfig::new, whose receiver is dropped
          proxies,    \* per sub-cluster, how far its proxy runtime has come
          bus,        \* per sub-cluster, the events its observer has to read
          started,    \* workflows whose start this node has applied
          forwards,   \* tasks in forward_workflow_to_app
          requests,   \* the request channel
          server,     \* the SidecarServer and the result sender it took
          forwarder,  \* the request being broadcast and the streams left;
                      \* the lock on streams is held while there is one
          results,    \* the result channel of proxy server.tx
          ends,       \* the clusters in which WorkflowEnd was proposed, for
                      \* the answer of each application
          conn,       \* connections
          out, in,    \* messages to and from each application
          inTask,     \* what the server's task of a stream is about to send
          reader,     \* the reader of the client, which runs the handlers
          registered, \* applications that have registered their handlers
          beats,      \* heartbeats so far
          asked       \* ghost: the streams a request was broadcast to

proxyVars  == <<shared, proxies, bus, started, forwards>>
serverVars == <<requests, server, forwarder, asked>>
streamVars == <<conn, out, in, inTask>>
clientVars == <<reader, registered, beats>>
vars == <<caller, proxyVars, serverVars, results, ends, streamVars, clientVars>>

-----------------------------------------------------------------------------
\* Messages.  An answer carries the application it comes from as a ghost.
\* Whether the execution succeeded changes the bytes of the result only.
Answer == [type : {"WorkflowResult"}, app : App, wf : Workflow]

Request(w) == [type |-> "ExecuteWorkflow", wf |-> w]

Heartbeat == [type |-> "Heartbeat", wf |-> None]

Proposal(w) == [type |-> "CheckpointProposal", wf |-> w]

OutMessage == {Request(w) : w \in Workflow} \cup {Heartbeat}

InMessage == Answer \cup {Proposal(w) : w \in Workflow} \cup {Heartbeat}

Idle == [pc |-> "idle", wf |-> None]

\* Mutant of Full: senders do not wait.
MutUnbounded(channel) == FALSE

Full(channel) == Len(channel) >= Capacity

\* The map of active streams.
Streams == {a \in App : conn[a] \in {"open", "closed"}}

Free == forwarder.wf = None

-----------------------------------------------------------------------------
TypeOK ==
    /\ caller \in {"async", "blocking"}
    /\ shared \in Cluster \cup {None}
    /\ proxies \in [Cluster -> {"none", "panicked", "spawned", "observing"}]
    /\ bus \in [Cluster -> Seq(Workflow)]
    /\ started \subseteq Workflow /\ forwards \subseteq Workflow
    /\ requests \in Seq(Workflow) /\ Len(requests) <= Capacity
    /\ server \in [state : {"none", "up", "failed"}, tx : Cluster \cup {None}]
    /\ forwarder \in [wf : Workflow \cup {None}, left : SUBSET App]
    /\ results \in Seq(Answer) /\ Len(results) <= Capacity
    /\ ends \in [App -> [Workflow -> Seq(Cluster)]]
    /\ conn \in [App -> {"off", "open", "closed", "removed"}]
    /\ out \in [App -> Seq(OutMessage)] /\ in \in [App -> Seq(InMessage)]
    /\ \A a \in App : Len(out[a]) <= Capacity /\ Len(in[a]) <= Capacity
    /\ inTask \in [App -> Answer \cup {Heartbeat, Idle}]
    /\ reader \in [App -> [pc : {"handling", "proposing", "waiting",
                                 "answering"}, wf : Workflow] \cup {Idle}]
    /\ registered \subseteq App /\ beats \in 0..MaxHeartbeats
    /\ asked \in [Workflow -> SUBSET App]

\* new_sidecar and new_joining_sidecar up to the management runtime.
Init ==
    /\ caller \in {"async", "blocking"}
    /\ shared = None
    /\ proxies = [c \in Cluster |-> "none"]
    /\ bus = [c \in Cluster |-> <<>>]
    /\ started = {} /\ forwards = {} /\ requests = <<>>
    /\ server = [state |-> "none", tx |-> None]
    /\ forwarder = [wf |-> None, left |-> {}]
    /\ results = <<>> /\ ends = [a \in App |-> [w \in Workflow |-> <<>>]]
    /\ conn = [a \in App |-> "off"]
    /\ out = [a \in App |-> <<>>] /\ in = [a \in App |-> <<>>]
    /\ inTask = [a \in App |-> Idle] /\ reader = [a \in App |-> Idle]
    /\ registered = {} /\ beats = 0 /\ asked = [w \in Workflow |-> {}]

-----------------------------------------------------------------------------
\* WorkflowProxyRuntime.

\* The management observer builds the proxy of c.  blocking_lock panics in
\* an asynchronous context, which ends the observer; elsewhere the proxy
\* makes a channel of its own and puts its sender into shared_config.
Create(c) ==
    /\ proxies[c] = "none"
    /\ \A d \in Cluster : proxies[d] # "panicked"
    /\ \/ /\ caller = "async"
          /\ proxies' = [proxies EXCEPT ![c] = "panicked"]
          /\ UNCHANGED shared
       \/ /\ caller = "blocking"
          /\ proxies' = [proxies EXCEPT ![c] = "spawned"]
          /\ shared' = c
    /\ UNCHANGED <<caller, bus, started, forwards, serverVars, results, ends,
                   streamVars, clientVars>>

\* new: this node founds the sub-cluster.  A bootstrap node (new_sidecar) may
\* do so before its sidecar server is started.
new(c) == Create(c)

\* new_joining_node: this node is added to c.  The management cluster knows
\* a node started by new_joining_sidecar only after its server was started.
new_joining_node(c) == server.state # "none" /\ Create(c)

\* First poll of run_workflow_observer.
Subscribe(c) ==
    /\ proxies[c] = "spawned"
    /\ proxies' = [proxies EXCEPT ![c] = "observing"]
    /\ UNCHANGED <<caller, shared, bus, started, forwards, serverVars, results,
                   ends, streamVars, clientVars>>

\* The sub-cluster's Raft node applies a WorkflowStart, proposed by a node
\* that runs a WorkflowRuntime, and publishes it.  An observer that is not
\* subscribed does not hear of it; a full bus forgets its oldest event.
ApplyStart(w) ==
    LET c == Home[w] IN
    /\ proxies[c] \in {"spawned", "observing"} /\ w \notin started
    /\ started' = started \cup {w}
    /\ bus' = IF proxies[c] = "spawned" THEN bus
              ELSE [bus EXCEPT ![c] = IF Len(@) = BusCapacity
                                      THEN Append(Tail(@), w)
                                      ELSE Append(@, w)]
    /\ UNCHANGED <<caller, shared, proxies, forwards, serverVars, results, ends,
                   streamVars, clientVars>>

\* The observer takes a WorkflowStarted and spawns forward_workflow_to_app.
ObserveStarted(c) ==
    /\ proxies[c] = "observing" /\ bus[c] # <<>>
    /\ bus' = [bus EXCEPT ![c] = Tail(@)]
    /\ forwards' = forwards \cup {Head(bus[c])}
    /\ UNCHANGED <<caller, shared, proxies, started, serverVars, results, ends,
                   streamVars, clientVars>>

\* The task sends the request, or logs that the receiver is gone.
forward_workflow_to_app(w) ==
    /\ w \in forwards
    /\ \/ server.state = "failed" /\ UNCHANGED requests
       \/ /\ server.state # "failed" /\ ~Full(requests)
          /\ requests' = Append(requests, w)
    /\ forwards' = forwards \ {w}
    /\ UNCHANGED <<caller, shared, proxies, bus, started, server, forwarder,
                   asked, results, ends, streamVars, clientVars>>

\* The observer takes a result and spawns handle_workflow_result: WorkflowEnd
\* is proposed in the proxy's cluster, whoever owns the workflow and whether
\* the execution succeeded or not.  A refused proposal is only logged.
handle_workflow_result(c) ==
    /\ proxies[c] = "observing" /\ server.tx = c /\ results # <<>>
    /\ results' = Tail(results)
    /\ LET answer == Head(results) IN
       ends' = [ends EXCEPT ![answer.app][answer.wf] = Append(@, c)]
    /\ UNCHANGED <<caller, proxyVars, serverVars, streamVars, clientVars>>

-----------------------------------------------------------------------------
\* SidecarServer.

\* The constructors take the result sender out of shared_config once, when
\* they start the server.  start() returns early on a bad address and drops
\* the receiver of the requests.
StartServer ==
    /\ server.state = "none"
    /\ server' \in [state : {"up", "failed"}, tx : {shared}]
    /\ UNCHANGED <<caller, proxyVars, requests, forwarder, asked, results, ends,
                   streamVars, clientVars>>

\* forward_execution_request: take the lock and a copy of the request for
\* every stream, or drop the request when nobody is connected.
TakeRequest ==
    /\ server.state = "up" /\ Free /\ requests # <<>>
    /\ requests' = Tail(requests)
    /\ asked' = [asked EXCEPT ![Head(requests)] = Streams]
    /\ forwarder' = IF Streams = {} THEN forwarder
                    ELSE [wf |-> Head(requests), left |-> Streams]
    /\ UNCHANGED <<caller, proxyVars, server, results, ends, streamVars,
                   clientVars>>

\* Mutant of LeftAfter: the loop ends at the first application that is gone.
MutBreakOnError(a) ==
    IF conn[a] = "closed" THEN {} ELSE forwarder.left \ {a}

\* The streams the forwarder still has to serve after a.
LeftAfter(a) == forwarder.left \ {a}

\* One tx.send(..).await of the broadcast, in any order of the map.  It
\* waits while the channel is full and fails when the application is gone.
Deliver(a) ==
    /\ a \in forwarder.left
    /\ \/ conn[a] = "closed" /\ UNCHANGED out
       \/ /\ conn[a] = "open" /\ ~Full(out[a])
          /\ out' = [out EXCEPT ![a] = Append(@, Request(forwarder.wf))]
    /\ forwarder' = IF LeftAfter(a) = {} THEN [wf |-> None, left |-> {}]
                    ELSE [forwarder EXCEPT !.left = LeftAfter(a)]
    /\ UNCHANGED <<caller, proxyVars, requests, server, asked, results, ends,
                   conn, in, inTask, clientVars>>

\* workflow_stream: insert the stream under the lock, start its task.
workflow_stream(a) ==
    /\ server.state = "up" /\ conn[a] = "off" /\ Free
    /\ conn' = [conn EXCEPT ![a] = "open"]
    /\ UNCHANGED <<caller, proxyVars, serverVars, results, ends, out, in, inTask,
                   clientVars>>

\* The task of a stream receives.  A checkpoint proposal is logged only.
Receive(a) ==
    /\ conn[a] \in {"open", "closed"} /\ inTask[a] = Idle /\ in[a] # <<>>
    /\ in' = [in EXCEPT ![a] = Tail(@)]
    /\ inTask' = [inTask EXCEPT ![a] =
                     IF Head(in[a]).type = "CheckpointProposal" THEN Idle
                     ELSE Head(in[a])]
    /\ UNCHANGED <<caller, proxyVars, serverVars, results, ends, conn, out,
                   clientVars>>

\* It passes a result on.  Without a receiver the send fails at once.
ForwardResult(a) ==
    /\ inTask[a] \in Answer
    /\ \/ server.tx = None /\ UNCHANGED results
       \/ /\ server.tx # None /\ ~Full(results)
          /\ results' = Append(results, inTask[a])
    /\ inTask' = [inTask EXCEPT ![a] = Idle]
    /\ UNCHANGED <<caller, proxyVars, serverVars, ends, conn, out, in,
                   clientVars>>

\* It answers a heartbeat through the channel the requests use.
AnswerHeartbeat(a) ==
    /\ inTask[a] = Heartbeat
    /\ \/ conn[a] = "closed" /\ UNCHANGED out
       \/ /\ conn[a] = "open" /\ ~Full(out[a])
          /\ out' = [out EXCEPT ![a] = Append(@, Heartbeat)]
    /\ inTask' = [inTask EXCEPT ![a] = Idle]
    /\ UNCHANGED <<caller, proxyVars, serverVars, results, ends, conn, in,
                   clientVars>>

\* The stream has ended: its entry is removed under the lock.
CleanUp(a) ==
    /\ conn[a] = "closed" /\ inTask[a] = Idle /\ in[a] = <<>> /\ Free
    /\ conn' = [conn EXCEPT ![a] = "removed"]
    /\ UNCHANGED <<caller, proxyVars, serverVars, results, ends, out, in, inTask,
                   clientVars>>

-----------------------------------------------------------------------------
\* raftoral-client.

register_handler(a) ==
    /\ conn[a] = "open" /\ a \notin registered
    /\ registered' = registered \cup {a}
    /\ UNCHANGED <<caller, proxyVars, serverVars, results, ends, streamVars,
                   reader, beats>>

SetReader(a, pc, w) == reader' = [reader EXCEPT ![a] = [pc |-> pc, wf |-> w]]

\* The reader of connect takes the next message and runs the handler in
\* line; without a handler it answers with an error.
ReaderReceive(a) ==
    /\ conn[a] = "open" /\ reader[a] = Idle /\ out[a] # <<>>
    /\ out' = [out EXCEPT ![a] = Tail(@)]
    /\ LET m == Head(out[a]) IN
       IF m = Heartbeat THEN UNCHANGED reader
       ELSE SetReader(a, IF a \in registered THEN "handling" ELSE "answering", m.wf)
    /\ UNCHANGED <<caller, proxyVars, serverVars, results, ends, conn, in,
                   inTask, registered, beats>>

\* WorkflowContext::checkpoint: the owner proposes, then both kinds wait for
\* an event that only the reader, which is running this handler, could take.
checkpoint(a) ==
    /\ conn[a] = "open" /\ reader[a].pc = "handling"
    /\ reader[a].wf \in Checkpointing
    /\ SetReader(a, IF reader[a].wf \in Owned THEN "proposing" ELSE "waiting",
                 reader[a].wf)
    /\ UNCHANGED <<caller, proxyVars, serverVars, results, ends, streamVars,
                   registered, beats>>

propose_checkpoint(a) ==
    /\ conn[a] = "open" /\ reader[a].pc = "proposing" /\ ~Full(in[a])
    /\ in' = [in EXCEPT ![a] = Append(@, Proposal(reader[a].wf))]
    /\ SetReader(a, "waiting", reader[a].wf)
    /\ UNCHANGED <<caller, proxyVars, serverVars, results, ends, conn, out,
                   inTask, registered, beats>>

\* The handler returns Ok or Err, perhaps before its checkpoint.
HandlerReturns(a) ==
    /\ conn[a] = "open" /\ reader[a].pc = "handling"
    /\ SetReader(a, "answering", reader[a].wf)
    /\ UNCHANGED <<caller, proxyVars, serverVars, results, ends, streamVars,
                   registered, beats>>

\* Mutant of AfterAnswer: the answer is sent again.
MutAnswerAgain(a) == reader[a]

\* The reader after it has answered: it receives the next message.
AfterAnswer(a) == Idle

\* Mutant of Answering: the error answer waits until there is a handler.
MutAwaitHandler(a) == reader[a].pc = "answering" /\ a \in registered

\* The reader has an answer to send, be it of a handler or the error.
Answering(a) == reader[a].pc = "answering"

\* It sends the answer and waits while the channel is full.
SendAnswer(a) ==
    /\ conn[a] = "open" /\ Answering(a) /\ ~Full(in[a])
    /\ in' = [in EXCEPT ![a] = Append(@, [type |-> "WorkflowResult", app |-> a,
                                          wf |-> reader[a].wf])]
    /\ reader' = [reader EXCEPT ![a] = AfterAnswer(a)]
    /\ UNCHANGED <<caller, proxyVars, serverVars, results, ends, conn, out,
                   inTask, registered, beats>>

\* The heartbeat task, every ten seconds.
SendHeartbeat(a) ==
    /\ conn[a] = "open" /\ beats < MaxHeartbeats /\ ~Full(in[a])
    /\ beats' = beats + 1
    /\ in' = [in EXCEPT ![a] = Append(@, Heartbeat)]
    /\ UNCHANGED <<caller, proxyVars, serverVars, results, ends, conn, out,
                   inTask, reader, registered>>

\* The application ends or loses its connection: nothing is read from the
\* stream any more, and what was still under way may be lost.
Disconnect(a) ==
    /\ conn[a] = "open"
    /\ conn' = [conn EXCEPT ![a] = "closed"]
    /\ \E n \in 0..Len(in[a]) : in' = [in EXCEPT ![a] = SubSeq(@, 1, n)]
    /\ out' = [out EXCEPT ![a] = <<>>]
    /\ reader' = [reader EXCEPT ![a] = Idle]
    /\ UNCHANGED <<caller, proxyVars, serverVars, results, ends, inTask,
                   registered, beats>>

-----------------------------------------------------------------------------
ObserverTask(c) == Subscribe(c) \/ ObserveStarted(c) \/ handle_workflow_result(c)

ForwarderTask == TakeRequest \/ \E a \in App : Deliver(a)

StreamTask(a) == \/ Receive(a) \/ ForwardResult(a)
                 \/ AnswerHeartbeat(a) \/ CleanUp(a)

ReaderTask(a) == \/ ReaderReceive(a) \/ checkpoint(a) \/ propose_checkpoint(a)
                 \/ HandlerReturns(a) \/ SendAnswer(a)

Next ==
    \/ \E c \in Cluster : new(c) \/ new_joining_node(c) \/ ObserverTask(c)
    \/ \E w \in Workflow : ApplyStart(w) \/ forward_workflow_to_app(w)
    \/ StartServer \/ ForwarderTask
    \/ \E a \in App : \/ workflow_stream(a) \/ StreamTask(a)
                       \/ register_handler(a) \/ ReaderTask(a)
                       \/ SendHeartbeat(a) \/ Disconnect(a)

Spec == Init /\ [][Next]_vars

\* Tokio runs every task that can go on, and handlers return.  There are
\* finitely many requests, so nobody is kept from a channel for ever and
\* weak fairness is enough.  Nobody owes a connection, a registration, a
\* heartbeat, a start or a disconnection.
Fairness == /\ \A c \in Cluster : WF_vars(ObserverTask(c))
            /\ WF_vars(\E w \in Workflow : forward_workflow_to_app(w))
            /\ WF_vars(ForwarderTask)
            /\ \A a \in App : WF_vars(StreamTask(a)) /\ WF_vars(ReaderTask(a))

FairSpec == Spec /\ Fairness

-----------------------------------------------------------------------------
\* Where application a's copy of request w, or its answer, is.
Is(m, w) == m.type \in {"ExecuteWorkflow", "WorkflowResult"} /\ m.wf = w

CopiesIn(channel, w) ==
    Cardinality({i \in DOMAIN channel : Is(channel[i], w)})

AnswersIn(channel, a, w) ==
    Cardinality({i \in DOMAIN channel :
                    channel[i].wf = w /\ channel[i].app = a})

Copies(a, w) ==
    CopiesIn(out[a], w) + CopiesIn(in[a], w) + AnswersIn(results, a, w)
    + Len(ends[a][w])
    + (IF reader[a].wf = w THEN 1 ELSE 0)
    + (IF inTask[a] \in Answer /\ inTask[a].wf = w THEN 1 ELSE 0)

(***************************************************************************)
(* An application answers a request at most once: from the broadcast over  *)
(* its stream, the handler, the stream back and the result channel to the  *)
(* proposal of WorkflowEnd there is never a second copy, and none of a     *)
(* workflow it was not asked to run.                                       *)
(***************************************************************************)
AtMostOneAnswer ==
    \A a \in App, w \in Workflow :
        Copies(a, w) <= IF a \in asked[w] THEN 1 ELSE 0

(***************************************************************************)
(* A request that the forwarder has broadcast is not lost on the way to or *)
(* from an application that stays connected, whatever happens to the       *)
(* others, if the server has a sender that leads to a proxy.               *)
(***************************************************************************)
NoAnswerLost ==
    \A w \in Workflow : \A a \in asked[w] :
        (conn[a] = "open" /\ server.tx # None
           /\ ~(forwarder.wf = w /\ a \in forwarder.left))
        => Copies(a, w) >= 1

\* The reader runs a handler that waits for a checkpoint event.
AwaitsCheckpoint(a) == reader[a].pc = "waiting"

\* The reader waits for the server's task to read, and the task waits for
\* the reader to read.
MutualWait(a) == /\ reader[a].pc \in {"answering", "proposing"}
                 /\ Full(in[a]) /\ inTask[a] = Heartbeat /\ Full(out[a])

(***************************************************************************)
(* A request that has reached an application is answered to Raft: the      *)
(* proxy handles the result, unless the application goes away, its reader  *)
(* waits for a checkpoint, reader and stream task wait for each other over *)
(* a heartbeat, or the server's result sender leads nowhere.  These are    *)
(* the only ways to hang.                                                  *)
(***************************************************************************)
RequestsAnswered ==
    \A a \in App, w \in Workflow :
        (conn[a] = "open" /\ CopiesIn(out[a], w) > 0)
        ~> \/ ends[a][w] # <<>> \/ conn[a] # "open"
           \/ AwaitsCheckpoint(a) \/ MutualWait(a) \/ server.tx = None
=============================================================================
