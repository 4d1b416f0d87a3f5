--------------------------- MODULE SidecarProofs ---------------------------
(* Proofs about Sidecar: requests are answered at most once, and not lost. *)
EXTENDS Sidecar, FiniteSetTheorems, SequenceTheorems, TLAPS

-----------------------------------------------------------------------------
(* Counting the messages of a channel. *)

\* The positions of a channel that hold a member of T.
At(channel, T) == {i \in DOMAIN channel : channel[i] \in T}

\* How many members of T are in a channel.
Count(channel, T) == Cardinality(At(channel, T))

\* A channel holds a finite number of messages.
LEMMA CountType ==
    ASSUME NEW S, NEW channel \in Seq(S), NEW T
    PROVE  IsFiniteSet(At(channel, T)) /\ Count(channel, T) \in Nat
<1>1. At(channel, T) \subseteq 1..Len(channel) /\ Len(channel) \in Nat
  BY DEF At
<1>2. IsFiniteSet(1..Len(channel))
  BY <1>1, FS_Interval
<1>3. IsFiniteSet(At(channel, T))
  BY <1>1, <1>2, FS_Subset
<1>4. QED BY <1>3, FS_CardinalityType DEF Count

\* Nothing is in an empty channel.
LEMMA CountEmpty ==
    ASSUME NEW T
    PROVE  Count(<<>>, T) = 0
<1>1. At(<<>>, T) = {}
  BY DEF At
<1>2. QED BY <1>1, FS_EmptySet DEF Count

\* What a sender appends is counted.
LEMMA CountAppend ==
    ASSUME NEW S, NEW channel \in Seq(S), NEW m \in S, NEW T
    PROVE  Count(Append(channel, m), T) =
               Count(channel, T) + (IF m \in T THEN 1 ELSE 0)
<1> DEFINE n == Len(channel) + 1
<1>1. n \notin At(channel, T)
  BY DEF At
<1>2. CASE m \in T
  <2>1. At(Append(channel, m), T) = At(channel, T) \cup {n}
    BY <1>2 DEF At
  <2>2. IsFiniteSet(At(channel, T))
    BY CountType
  <2>3. QED BY <1>1, <1>2, <2>1, <2>2, FS_AddElement DEF Count
<1>3. CASE m \notin T
  <2>1. At(Append(channel, m), T) = At(channel, T)
    BY <1>3 DEF At
  <2>2. QED BY <1>3, <2>1, CountType DEF Count
<1>4. QED BY <1>2, <1>3

\* What a receiver takes is counted no more.
LEMMA CountTail ==
    ASSUME NEW S, NEW channel \in Seq(S), channel # <<>>, NEW T
    PROVE  Count(channel, T) =
               Count(Tail(channel), T) + (IF Head(channel) \in T THEN 1 ELSE 0)
<1> DEFINE after == At(channel, T) \ {1}
           shift == [i \in At(Tail(channel), T) |-> i + 1]
<1>1. Tail(channel) \in Seq(S) /\ Len(channel) \in Nat \ {0}
      /\ Len(Tail(channel)) = Len(channel) - 1
      /\ Head(channel) = channel[1]
      /\ \A i \in 1..Len(Tail(channel)) : Tail(channel)[i] = channel[i + 1]
  OBVIOUS
<1>2. IsFiniteSet(At(Tail(channel), T)) /\ IsFiniteSet(At(channel, T))
  BY <1>1, CountType
<1>3. shift \in Bijection(At(Tail(channel), T), after)
  <2>1. \A i \in At(Tail(channel), T) : i \in Nat /\ i + 1 \in after
    BY <1>1 DEF At
  <2>2. \A j \in after : j - 1 \in At(Tail(channel), T) /\ (j - 1) + 1 = j
    BY <1>1 DEF At
  <2>3. shift \in [At(Tail(channel), T) -> after]
    BY <2>1
  <2>4. \A i, j \in At(Tail(channel), T) : shift[i] = shift[j] => i = j
    BY <2>1
  <2>5. shift \in Injection(At(Tail(channel), T), after)
    BY <2>3, <2>4 DEF Injection, IsInjective
  <2>6. \A j \in after : \E i \in At(Tail(channel), T) : shift[i] = j
    BY <2>2
  <2>7. shift \in Surjection(At(Tail(channel), T), after)
    BY <2>3, <2>6 DEF Surjection
  <2>8. QED BY <2>5, <2>7 DEF Bijection
<1>4. Cardinality(after) = Count(Tail(channel), T)
  BY <1>2, <1>3, FS_Bijection DEF ExistsBijection, Count
<1>5. Cardinality(after) = IF 1 \in At(channel, T) THEN Count(channel, T) - 1
                           ELSE Count(channel, T)
  BY <1>2, FS_RemoveElement DEF Count
<1>6. 1 \in At(channel, T) <=> Head(channel) \in T
  BY <1>1 DEF At
<1>7. Count(channel, T) \in Nat /\ Count(Tail(channel), T) \in Nat
  BY <1>1, CountType
<1>8. QED BY <1>4, <1>5, <1>6, <1>7

\* A prefix of a channel holds no more than the channel.
LEMMA CountPrefix ==
    ASSUME NEW S, NEW channel \in Seq(S), NEW n \in 0..Len(channel), NEW T
    PROVE  Count(SubSeq(channel, 1, n), T) <= Count(channel, T)
<1>1. At(SubSeq(channel, 1, n), T) \subseteq At(channel, T)
  BY DEF At
<1>2. QED BY <1>1, CountType, FS_Subset DEF Count

-----------------------------------------------------------------------------
(* The inductive invariant. *)

\* The channel of a sub-cluster's events, or of requests, names a workflow.
In(channel, w) == \E i \in 1..Len(channel) : channel[i] = w

\* A channel names no workflow twice.
Distinct(channel) ==
    \A i, j \in 1..Len(channel) : channel[i] = channel[j] => i = j

\* There are streams to serve only while a request is being broadcast.
Broadcasting == forwarder.wf = None => forwarder.left = {}

\* A workflow is on its way to the forwarder in one place only, and is not on
\* its way any more when it has been broadcast.
OnItsWayOnce ==
    /\ \A c \in Cluster : Distinct(bus[c])
    /\ Distinct(requests)
    /\ \A c \in Cluster, w \in Workflow :
         In(bus[c], w) => c = Home[w] /\ w \in started /\ w \notin forwards
                          /\ ~In(requests, w) /\ asked[w] = {}
    /\ \A w \in forwards :
         w \in started /\ ~In(requests, w) /\ asked[w] = {}
    /\ \A w \in Workflow : In(requests, w) => w \in started /\ asked[w] = {}
    /\ \A w \in Workflow : asked[w] # {} => w \in started

\* The forwarder still has to serve the stream of a with request w.
Due(a, w) == forwarder.wf = w /\ a \in forwarder.left

\* There is no copy before the forwarder has served the stream, and one at
\* most from then on.
OneCopy ==
    \A a \in App, w \in Workflow :
        Copies(a, w) <= IF a \in asked[w] /\ ~Due(a, w) THEN 1 ELSE 0

\* Who is asked has connected, and the server had been started before.
AskedOnlyConnected ==
    /\ server.state = "none" => server.tx = None
    /\ \A w \in Workflow : \A a \in asked[w] :
         conn[a] # "off" /\ server.state # "none"
    /\ \A a \in App, w \in Workflow : Due(a, w) => a \in asked[w]

\* The answers on the stream of an application are its own.
OwnAnswers ==
    \A a \in App :
        /\ \A i \in 1..Len(in[a]) : in[a][i] \in Answer => in[a][i].app = a
        /\ inTask[a] \in Answer => inTask[a].app = a

Inv == /\ TypeOK /\ Broadcasting /\ OnItsWayOnce /\ AskedOnlyConnected
       /\ OwnAnswers /\ OneCopy /\ NoAnswerLost

-----------------------------------------------------------------------------
(* Every action keeps the types. *)

USE SidecarAssumption

\* The messages of a stream.
LEMMA MessageTypes ==
    /\ \A w \in Workflow : Request(w) \in OutMessage /\ Proposal(w) \in InMessage
    /\ Heartbeat \in OutMessage /\ Heartbeat \in InMessage
    /\ Answer \subseteq InMessage
    /\ \A a \in App, w \in Workflow :
         [type |-> "WorkflowResult", app |-> a, wf |-> w] \in Answer
    /\ \A m \in OutMessage : m # Heartbeat => m.wf \in Workflow
    /\ \A m \in InMessage : m.type # "CheckpointProposal"
                            => m \in Answer \cup {Heartbeat}
    /\ Idle \notin Answer /\ Heartbeat \notin Answer
<1>1. /\ \A w \in Workflow : Request(w) \in OutMessage
                             /\ Proposal(w) \in InMessage
      /\ Heartbeat \in OutMessage /\ Heartbeat \in InMessage
      /\ Answer \subseteq InMessage
  BY DEF OutMessage, InMessage
<1>2. \A a \in App, w \in Workflow :
         [type |-> "WorkflowResult", app |-> a, wf |-> w] \in Answer
  BY DEF Answer
<1>3. \A m \in OutMessage : m # Heartbeat => m.wf \in Workflow
  BY DEF OutMessage, Request
<1>4. \A m \in InMessage : m.type # "CheckpointProposal"
                           => m \in Answer \cup {Heartbeat}
  BY DEF InMessage, Proposal
<1>5. \A m \in Answer : m.wf \in Workflow
  BY DEF Answer
<1>6. Idle \notin Answer /\ Heartbeat \notin Answer
  BY <1>5 DEF Idle, Heartbeat
<1>7. QED BY <1>1, <1>2, <1>3, <1>4, <1>6

\* A sender that waits for room keeps a channel within its capacity.
LEMMA SendType ==
    ASSUME NEW S, NEW channel \in Seq(S), ~Full(channel), NEW m \in S
    PROVE  Append(channel, m) \in Seq(S) /\ Len(Append(channel, m)) <= Capacity
  BY DEF Full

\* A reader that is doing something does it for a workflow.
LEMMA ReaderType ==
    ASSUME TypeOK, NEW a \in App, reader[a].pc # "idle"
    PROVE  /\ reader[a].pc \in {"handling", "proposing", "waiting", "answering"}
           /\ reader[a].wf \in Workflow
  BY DEF TypeOK, Idle

\* A step keeps the types.
LEMMA TypeStep ==
    ASSUME TypeOK, Broadcasting, [Next]_vars
    PROVE  TypeOK'
<1> USE DEF TypeOK, proxyVars, serverVars, streamVars, clientVars
<1>1. ASSUME NEW c \in Cluster, Create(c) PROVE TypeOK'
  BY <1>1 DEF Create
<1>2. ASSUME NEW c \in Cluster, Subscribe(c) PROVE TypeOK'
  BY <1>2 DEF Subscribe
<1>3. ASSUME NEW w \in Workflow, ApplyStart(w) PROVE TypeOK'
  BY <1>3 DEF ApplyStart
<1>4. ASSUME NEW c \in Cluster, ObserveStarted(c) PROVE TypeOK'
  BY <1>4 DEF ObserveStarted
<1>5. ASSUME NEW w \in Workflow, forward_workflow_to_app(w) PROVE TypeOK'
  <2>1. ~Full(requests) => /\ Append(requests, w) \in Seq(Workflow)
                           /\ Len(Append(requests, w)) <= Capacity
    BY SendType
  <2>2. CASE UNCHANGED requests
    BY <1>5, <2>2 DEF forward_workflow_to_app
  <2>3. CASE ~Full(requests) /\ requests' = Append(requests, w)
    BY <1>5, <2>1, <2>3 DEF forward_workflow_to_app
  <2>4. QED BY <1>5, <2>2, <2>3 DEF forward_workflow_to_app
<1>6. ASSUME NEW c \in Cluster, handle_workflow_result(c) PROVE TypeOK'
  <2>1. Head(results) \in Answer
    BY <1>6 DEF handle_workflow_result
  <2>2. Head(results).app \in App /\ Head(results).wf \in Workflow
    BY <2>1 DEF Answer
  <2>3. results' \in Seq(Answer) /\ Len(results') <= Capacity
    BY <1>6 DEF handle_workflow_result
  <2>4. ends' \in [App -> [Workflow -> Seq(Cluster)]]
    BY <1>6, <2>2 DEF handle_workflow_result
  <2>5. UNCHANGED <<caller, proxyVars, serverVars, streamVars, clientVars>>
    BY <1>6 DEF handle_workflow_result
  <2>6. QED BY <2>3, <2>4, <2>5
<1>7. ASSUME StartServer PROVE TypeOK'
  BY <1>7 DEF StartServer
<1>8. ASSUME TakeRequest PROVE TypeOK'
  BY <1>8 DEF TakeRequest, Streams
<1>9. ASSUME NEW a \in App, Deliver(a) PROVE TypeOK'
  <2>1. forwarder.wf \in Workflow
    BY <1>9 DEF Deliver, Broadcasting
  <2>2. Request(forwarder.wf) \in OutMessage
    BY <2>1, MessageTypes
  <2>3. ~Full(out[a]) => /\ Append(out[a], Request(forwarder.wf)) \in Seq(OutMessage)
                         /\ Len(Append(out[a], Request(forwarder.wf))) <= Capacity
    BY <2>2, SendType
  <2>4. out' \in [App -> Seq(OutMessage)] /\ \A b \in App : Len(out'[b]) <= Capacity
    <3>1. CASE UNCHANGED out
      BY <3>1
    <3>2. CASE /\ ~Full(out[a])
               /\ out' = [out EXCEPT ![a] = Append(@, Request(forwarder.wf))]
      BY <2>3, <3>2
    <3>3. QED BY <1>9, <3>1, <3>2 DEF Deliver
  <2>5. forwarder' \in [wf : Workflow \cup {None}, left : SUBSET App]
    BY <1>9 DEF Deliver, LeftAfter
  <2>6. QED BY <1>9, <2>4, <2>5 DEF Deliver
<1>10. ASSUME NEW a \in App, workflow_stream(a) PROVE TypeOK'
  BY <1>10 DEF workflow_stream
<1>11. ASSUME NEW a \in App, Receive(a) PROVE TypeOK'
  <2>1. Head(in[a]) \in InMessage
    BY <1>11 DEF Receive
  <2>2. QED BY <1>11, <2>1, MessageTypes DEF Receive
<1>12. ASSUME NEW a \in App, ForwardResult(a) PROVE TypeOK'
  <2>1. ~Full(results) => /\ Append(results, inTask[a]) \in Seq(Answer)
                          /\ Len(Append(results, inTask[a])) <= Capacity
    BY <1>12, SendType DEF ForwardResult
  <2>2. CASE UNCHANGED results
    BY <1>12, <2>2 DEF ForwardResult
  <2>3. CASE ~Full(results) /\ results' = Append(results, inTask[a])
    BY <1>12, <2>1, <2>3 DEF ForwardResult
  <2>4. QED BY <1>12, <2>2, <2>3 DEF ForwardResult
<1>13. ASSUME NEW a \in App, AnswerHeartbeat(a) PROVE TypeOK'
  <2>1. ~Full(out[a]) => /\ Append(out[a], Heartbeat) \in Seq(OutMessage)
                         /\ Len(Append(out[a], Heartbeat)) <= Capacity
    BY MessageTypes, SendType
  <2>2. out' \in [App -> Seq(OutMessage)] /\ \A b \in App : Len(out'[b]) <= Capacity
    <3>1. CASE UNCHANGED out
      BY <3>1
    <3>2. CASE ~Full(out[a]) /\ out' = [out EXCEPT ![a] = Append(@, Heartbeat)]
      BY <2>1, <3>2
    <3>3. QED BY <1>13, <3>1, <3>2 DEF AnswerHeartbeat
  <2>3. QED BY <1>13, <2>2 DEF AnswerHeartbeat
<1>14. ASSUME NEW a \in App, CleanUp(a) PROVE TypeOK'
  BY <1>14 DEF CleanUp
<1>15. ASSUME NEW a \in App, register_handler(a) PROVE TypeOK'
  BY <1>15 DEF register_handler
<1>16. ASSUME NEW a \in App, ReaderReceive(a) PROVE TypeOK'
  <2>1. Head(out[a]) \in OutMessage
    BY <1>16 DEF ReaderReceive
  <2>2. Head(out[a]) # Heartbeat => Head(out[a]).wf \in Workflow
    BY <2>1, MessageTypes
  <2>3. CASE UNCHANGED reader
    BY <1>16, <2>3 DEF ReaderReceive
  <2>4. CASE /\ Head(out[a]) # Heartbeat
             /\ \E pc \in {"handling", "answering"} :
                  SetReader(a, pc, Head(out[a]).wf)
    <3>1. reader' \in [App -> [pc : {"handling", "proposing", "waiting",
                                     "answering"}, wf : Workflow] \cup {Idle}]
      BY <2>2, <2>4 DEF SetReader
    <3>2. out' \in [App -> Seq(OutMessage)]
          /\ \A b \in App : Len(out'[b]) <= Capacity
      BY <1>16 DEF ReaderReceive
    <3>3. UNCHANGED <<caller, proxyVars, serverVars, results, ends, conn, in,
                      inTask, registered, beats>>
      BY <1>16 DEF ReaderReceive
    <3>4. QED BY <3>1, <3>2, <3>3
  <2>5. QED BY <1>16, <2>3, <2>4 DEF ReaderReceive
<1>17. ASSUME NEW a \in App, checkpoint(a) PROVE TypeOK'
  BY <1>17, ReaderType DEF checkpoint, SetReader
<1>18. ASSUME NEW a \in App, propose_checkpoint(a) PROVE TypeOK'
  <2>1. reader[a].wf \in Workflow /\ Proposal(reader[a].wf) \in InMessage
    BY <1>18, ReaderType, MessageTypes DEF propose_checkpoint
  <2>2. QED BY <1>18, <2>1 DEF propose_checkpoint, SetReader, Full
<1>19. ASSUME NEW a \in App, HandlerReturns(a) PROVE TypeOK'
  BY <1>19, ReaderType DEF HandlerReturns, SetReader
<1>20. ASSUME NEW a \in App, SendAnswer(a) PROVE TypeOK'
  <2>1. reader[a].wf \in Workflow
    BY <1>20, ReaderType DEF SendAnswer, Answering
  <2>2. [type |-> "WorkflowResult", app |-> a, wf |-> reader[a].wf] \in InMessage
    BY <2>1, MessageTypes
  <2>3. QED BY <1>20, <2>2 DEF SendAnswer, AfterAnswer, Full
<1>21. ASSUME NEW a \in App, SendHeartbeat(a) PROVE TypeOK'
  BY <1>21, MessageTypes DEF SendHeartbeat, Full
<1>22. ASSUME NEW a \in App, Disconnect(a) PROVE TypeOK'
  BY <1>22 DEF Disconnect
<1>23. CASE UNCHANGED vars
  BY <1>23 DEF vars
<1>24. QED
  BY <1>1, <1>2, <1>3, <1>4, <1>5, <1>6, <1>7, <1>8, <1>9, <1>10, <1>11,
     <1>12, <1>13, <1>14, <1>15, <1>16, <1>17, <1>18, <1>19, <1>20, <1>21,
     <1>22, <1>23
  DEF Next, ObserverTask, ForwarderTask, StreamTask, ReaderTask, new,
      new_joining_node

-----------------------------------------------------------------------------
(* A workflow is broadcast once. *)

\* What a sender appends is in the channel, and once if it was not.
LEMMA InAppend ==
    ASSUME NEW S, NEW channel \in Seq(S), NEW m \in S
    PROVE  /\ \A w : In(Append(channel, m), w) <=> In(channel, w) \/ w = m
           /\ Distinct(channel) /\ ~In(channel, m) => Distinct(Append(channel, m))
<1>1. /\ Len(Append(channel, m)) = Len(channel) + 1
      /\ \A i \in 1..Len(channel) : Append(channel, m)[i] = channel[i]
      /\ Append(channel, m)[Len(channel) + 1] = m
      /\ Len(channel) \in Nat
  OBVIOUS
<1>2. \A w : In(Append(channel, m), w) <=> In(channel, w) \/ w = m
  BY <1>1 DEF In
<1>3. Distinct(channel) /\ ~In(channel, m) => Distinct(Append(channel, m))
  BY <1>1 DEF In, Distinct
<1>4. QED BY <1>2, <1>3

\* What a receiver takes was in the channel, and is not if it was there once.
LEMMA InTail ==
    ASSUME NEW S, NEW channel \in Seq(S), channel # <<>>
    PROVE  /\ In(channel, Head(channel))
           /\ \A w : In(Tail(channel), w) => In(channel, w)
           /\ Distinct(channel) => /\ Distinct(Tail(channel))
                                   /\ ~In(Tail(channel), Head(channel))
<1>1. /\ Len(channel) \in Nat \ {0} /\ Len(Tail(channel)) = Len(channel) - 1
      /\ Head(channel) = channel[1]
      /\ \A i \in 1..Len(Tail(channel)) : Tail(channel)[i] = channel[i + 1]
  OBVIOUS
<1>2. In(channel, Head(channel))
  BY <1>1 DEF In
<1>3. \A w : In(Tail(channel), w) => In(channel, w)
  BY <1>1 DEF In
<1>4. Distinct(channel) => Distinct(Tail(channel))
  BY <1>1 DEF Distinct
<1>5. Distinct(channel) => ~In(Tail(channel), Head(channel))
  BY <1>1 DEF Distinct, In
<1>6. QED BY <1>2, <1>3, <1>4, <1>5

\* A step keeps every workflow in one place at most.
LEMMA OnItsWayStep ==
    ASSUME TypeOK, OnItsWayOnce, [Next]_vars
    PROVE  OnItsWayOnce'
<1> USE DEF proxyVars, serverVars, streamVars, clientVars
<1>1. ASSUME NEW w \in Workflow, ApplyStart(w) PROVE OnItsWayOnce'
  <2>1. Home[w] \in Cluster /\ w \notin started
    BY <1>1 DEF ApplyStart
  <2> DEFINE c == Home[w]
             room == IF Len(bus[c]) = BusCapacity THEN Tail(bus[c]) ELSE bus[c]
  <2>2. bus[c] \in Seq(Workflow)
    BY <2>1 DEF TypeOK
  <2>3. Len(bus[c]) = BusCapacity => bus[c] # <<>>
    BY <2>2
  <2>4. room \in Seq(Workflow)
    BY <2>2, <2>3
  <2>5. Distinct(room) /\ \A v : In(room, v) => In(bus[c], v)
    BY <2>1, <2>2, <2>3, InTail DEF OnItsWayOnce
  <2>6. ~In(room, w)
    BY <2>1, <2>5 DEF OnItsWayOnce
  <2>7. bus' = bus \/ bus' = [bus EXCEPT ![c] = Append(room, w)]
    BY <1>1 DEF ApplyStart
  <2> HIDE DEF room
  <2>8. Distinct(Append(room, w))
        /\ \A v : In(Append(room, w), v) <=> In(room, v) \/ v = w
    BY <2>4, <2>5, <2>6, InAppend
  <2>9. \A d \in Cluster : bus'[d] \in {bus[d], Append(room, w)}
                           /\ (d # Home[w] => bus'[d] = bus[d])
    BY <2>7 DEF TypeOK
  <2>10. /\ \A d \in Cluster : Distinct(bus'[d])
         /\ \A d \in Cluster, v \in Workflow :
              In(bus'[d], v) => In(bus[d], v) \/ (d = Home[w] /\ v = w)
    <3>1. ASSUME NEW d \in Cluster PROVE Distinct(bus'[d])
      BY <2>8, <2>9 DEF OnItsWayOnce
    <3>2. ASSUME NEW d \in Cluster, NEW v \in Workflow, In(bus'[d], v)
          PROVE  In(bus[d], v) \/ (d = Home[w] /\ v = w)
      <4>1. CASE bus'[d] = bus[d]
        BY <3>2, <4>1
      <4>2. CASE bus'[d] = Append(room, w) /\ d = c
        <5>1. In(room, v) \/ v = w
          BY <2>8, <3>2, <4>2
        <5>2. QED BY <2>5, <4>2, <5>1
      <4>3. QED BY <2>9, <4>1, <4>2
    <3>3. QED BY <3>1, <3>2
  <2>11. w \notin forwards /\ ~In(requests, w) /\ asked[w] = {}
    BY <2>1 DEF OnItsWayOnce
  <2>12. UNCHANGED <<forwards, requests, asked>> /\ started' = started \cup {w}
    BY <1>1 DEF ApplyStart
  <2>13. QED BY <2>10, <2>11, <2>12 DEF OnItsWayOnce
<1>2. ASSUME NEW c \in Cluster, ObserveStarted(c) PROVE OnItsWayOnce'
  <2> DEFINE w == Head(bus[c])
  <2>1. bus[c] \in Seq(Workflow) /\ bus[c] # <<>> /\ w \in Workflow
    BY <1>2 DEF ObserveStarted, TypeOK
  <2>2. /\ In(bus[c], w)
        /\ \A v : In(Tail(bus[c]), v) => In(bus[c], v)
        /\ Distinct(Tail(bus[c])) /\ ~In(Tail(bus[c]), w)
    BY <2>1, InTail DEF OnItsWayOnce
  <2>3. /\ bus' = [bus EXCEPT ![c] = Tail(@)]
        /\ forwards' = forwards \cup {w}
        /\ UNCHANGED <<started, requests, asked>>
    BY <1>2 DEF ObserveStarted
  <2>4. c = Home[w] /\ w \in started /\ ~In(requests, w) /\ asked[w] = {}
    BY <2>1, <2>2 DEF OnItsWayOnce
  <2>5. \A d \in Cluster, v \in Workflow :
          In(bus'[d], v) => In(bus[d], v) /\ v # w
    <3>1. \A d \in Cluster : bus'[d] = IF d = c THEN Tail(bus[c]) ELSE bus[d]
      BY <2>3 DEF TypeOK
    <3>2. QED BY <2>2, <2>4, <3>1 DEF OnItsWayOnce
  <2>6. \A d \in Cluster : Distinct(bus'[d])
    BY <2>2, <2>3 DEF OnItsWayOnce, TypeOK
  <2>7. QED BY <2>3, <2>4, <2>5, <2>6 DEF OnItsWayOnce
<1>3. ASSUME NEW w \in Workflow, forward_workflow_to_app(w) PROVE OnItsWayOnce'
  <2>1. /\ w \in forwards /\ forwards' = forwards \ {w}
        /\ requests' \in {requests, Append(requests, w)}
        /\ UNCHANGED <<bus, started, asked>>
    BY <1>3 DEF forward_workflow_to_app
  <2>2. w \in started /\ ~In(requests, w) /\ asked[w] = {}
    BY <2>1 DEF OnItsWayOnce
  <2>3. Distinct(requests') /\ \A v : In(requests', v) => In(requests, v) \/ v = w
    <3>1. requests \in Seq(Workflow) /\ Distinct(requests)
      BY DEF TypeOK, OnItsWayOnce
    <3>2. Distinct(Append(requests, w))
          /\ \A v : In(Append(requests, w), v) => In(requests, v) \/ v = w
      BY <2>2, <3>1, InAppend
    <3>3. QED BY <2>1, <3>1, <3>2
  <2>4. QED BY <2>1, <2>2, <2>3 DEF OnItsWayOnce
<1>4. ASSUME TakeRequest PROVE OnItsWayOnce'
  <2> DEFINE w == Head(requests)
  <2>1. requests \in Seq(Workflow) /\ requests # <<>> /\ w \in Workflow
    BY <1>4 DEF TakeRequest, TypeOK
  <2>2. /\ In(requests, w) /\ Distinct(Tail(requests)) /\ ~In(Tail(requests), w)
        /\ \A v : In(Tail(requests), v) => In(requests, v)
    BY <2>1, InTail DEF OnItsWayOnce
  <2>3. /\ requests' = Tail(requests)
        /\ asked' = [asked EXCEPT ![w] = Streams]
        /\ UNCHANGED <<bus, started, forwards>>
    BY <1>4 DEF TakeRequest
  <2>4. \A v \in Workflow : v # w => asked'[v] = asked[v]
    BY <2>3 DEF TypeOK
  <2>5. w \in started /\ w \notin forwards /\ \A c \in Cluster : ~In(bus[c], w)
    BY <2>1, <2>2 DEF OnItsWayOnce
  <2>6. QED BY <2>2, <2>3, <2>4, <2>5 DEF OnItsWayOnce, TypeOK
<1>5. CASE UNCHANGED <<bus, requests, forwards, started, asked>>
  BY <1>5 DEF OnItsWayOnce
<1>6. QED
  BY <1>1, <1>2, <1>3, <1>4, <1>5
  DEF Next, ObserverTask, ForwarderTask, StreamTask, ReaderTask, new,
      new_joining_node, vars, Create, Subscribe, handle_workflow_result,
      StartServer, Deliver, workflow_stream, Receive, ForwardResult,
      AnswerHeartbeat, CleanUp, register_handler, ReaderReceive, checkpoint,
      propose_checkpoint, HandlerReturns, SendAnswer, SendHeartbeat, Disconnect

\* A step keeps the forwarder's streams those of a request.
LEMMA BroadcastingStep ==
    ASSUME TypeOK, Broadcasting, [Next]_vars
    PROVE  Broadcasting'
<1> USE DEF proxyVars, serverVars, streamVars, clientVars
<1>1. ASSUME TakeRequest PROVE Broadcasting'
  <2>1. Head(requests) \in Workflow
    BY <1>1 DEF TakeRequest, TypeOK
  <2>2. QED BY <1>1, <2>1 DEF TakeRequest, Broadcasting
<1>2. ASSUME NEW a \in App, Deliver(a) PROVE Broadcasting'
  BY <1>2 DEF Deliver, Broadcasting, LeftAfter
<1>3. CASE UNCHANGED forwarder
  BY <1>3 DEF Broadcasting
<1>4. QED
  BY <1>1, <1>2, <1>3
  DEF Next, ObserverTask, ForwarderTask, StreamTask, ReaderTask, new,
      new_joining_node, vars, Create, Subscribe, ApplyStart, ObserveStarted,
      forward_workflow_to_app, handle_workflow_result, StartServer,
      workflow_stream, Receive, ForwardResult, AnswerHeartbeat, CleanUp,
      register_handler, ReaderReceive, checkpoint, propose_checkpoint,
      HandlerReturns, SendAnswer, SendHeartbeat, Disconnect

-----------------------------------------------------------------------------
(* The copies of a request. *)

\* A step asks only who is connected, of a server that was started.
LEMMA AskedStep ==
    ASSUME TypeOK, Broadcasting, AskedOnlyConnected, [Next]_vars
    PROVE  AskedOnlyConnected'
<1> USE DEF proxyVars, serverVars, streamVars, clientVars
<1>1. ASSUME StartServer PROVE AskedOnlyConnected'
  <2>1. server'.state # "none" /\ UNCHANGED <<conn, asked, forwarder>>
    BY <1>1 DEF StartServer
  <2>2. QED BY <2>1 DEF AskedOnlyConnected, Due
<1>2. ASSUME TakeRequest PROVE AskedOnlyConnected'
  <2> DEFINE w == Head(requests)
  <2>1. w \in Workflow /\ server.state = "up" /\ Free
    BY <1>2 DEF TakeRequest, TypeOK
  <2>2. /\ \A v \in Workflow : asked'[v] = IF v = w THEN Streams ELSE asked[v]
        /\ UNCHANGED <<server, conn>>
    BY <1>2 DEF TakeRequest, TypeOK
  <2>3. forwarder' = forwarder \/ forwarder' = [wf |-> w, left |-> Streams]
    BY <1>2 DEF TakeRequest
  <2>4. \A a \in App, v \in Workflow : ~Due(a, v)
    BY <2>1 DEF Free, Due
  <2>5. \A a \in App, v \in Workflow : Due(a, v)' => v = w /\ a \in Streams
    BY <2>3, <2>4 DEF Due
  <2>6. \A a \in Streams : conn[a] # "off"
    BY DEF Streams
  <2>7. QED BY <2>1, <2>2, <2>5, <2>6 DEF AskedOnlyConnected
<1>3. ASSUME NEW a \in App, Deliver(a) PROVE AskedOnlyConnected'
  <2>1. \A b \in App, v \in Workflow : Due(b, v)' => Due(b, v)
    BY <1>3 DEF Deliver, LeftAfter, Due, TypeOK
  <2>2. UNCHANGED <<server, asked, conn>>
    BY <1>3 DEF Deliver
  <2>3. QED BY <2>1, <2>2 DEF AskedOnlyConnected
<1>4. ASSUME NEW a \in App, workflow_stream(a) \/ CleanUp(a) \/ Disconnect(a)
      PROVE  AskedOnlyConnected'
  <2>1. \A w \in Workflow : \A b \in asked[w] : b \in App
    BY DEF TypeOK
  <2>2. \A b \in App : conn[b] # "off" => conn'[b] # "off"
    BY <1>4 DEF workflow_stream, CleanUp, Disconnect, TypeOK
  <2>3. UNCHANGED <<server, asked, forwarder>>
    BY <1>4 DEF workflow_stream, CleanUp, Disconnect
  <2>4. QED BY <2>1, <2>2, <2>3 DEF AskedOnlyConnected, Due
<1>5. CASE UNCHANGED <<server, asked, forwarder, conn>>
  BY <1>5 DEF AskedOnlyConnected, Due
<1>6. QED
  BY <1>1, <1>2, <1>3, <1>4, <1>5
  DEF Next, ObserverTask, ForwarderTask, StreamTask, ReaderTask, new,
      new_joining_node, vars, Create, Subscribe, ApplyStart, ObserveStarted,
      forward_workflow_to_app, handle_workflow_result, Receive, ForwardResult,
      AnswerHeartbeat, register_handler, ReaderReceive, checkpoint,
      propose_checkpoint, HandlerReturns, SendAnswer, SendHeartbeat

\* Counting copies is counting the members of a set of messages.
LEMMA CopiesInIsCount ==
    ASSUME NEW S, NEW channel \in Seq(S), NEW w
    PROVE  CopiesIn(channel, w) = Count(channel, {m \in S : Is(m, w)})
<1>1. At(channel, {m \in S : Is(m, w)}) = {i \in DOMAIN channel : Is(channel[i], w)}
  BY DEF At
<1>2. QED BY <1>1 DEF CopiesIn, Count

\* Copies in a channel: what is sent adds one, what is received takes one,
\* and what is lost takes what it may.
LEMMA CopiesInChannel ==
    ASSUME NEW S, NEW channel \in Seq(S), NEW w
    PROVE  /\ CopiesIn(channel, w) \in Nat
           /\ \A m \in S : CopiesIn(Append(channel, m), w) =
                             CopiesIn(channel, w) + (IF Is(m, w) THEN 1 ELSE 0)
           /\ channel # <<>> =>
                CopiesIn(channel, w) = CopiesIn(Tail(channel), w)
                                + (IF Is(Head(channel), w) THEN 1 ELSE 0)
           /\ \A n \in 0..Len(channel) :
                CopiesIn(SubSeq(channel, 1, n), w) <= CopiesIn(channel, w)
<1> DEFINE T == {m \in S : Is(m, w)}
<1>1. \A c \in Seq(S) : CopiesIn(c, w) = Count(c, T)
  BY CopiesInIsCount
<1> HIDE DEF T
<1>2. CopiesIn(channel, w) \in Nat
  BY <1>1, CountType
<1>3. ASSUME NEW m \in S
      PROVE  CopiesIn(Append(channel, m), w) =
               CopiesIn(channel, w) + (IF Is(m, w) THEN 1 ELSE 0)
  <2>1. Append(channel, m) \in Seq(S)
    OBVIOUS
  <2>2. m \in T <=> Is(m, w)
    BY DEF T
  <2>3. Count(Append(channel, m), T) =
          Count(channel, T) + (IF m \in T THEN 1 ELSE 0)
    BY CountAppend
  <2>4. QED BY <1>1, <2>1, <2>2, <2>3
<1>4. ASSUME channel # <<>>
      PROVE  CopiesIn(channel, w) = CopiesIn(Tail(channel), w)
                                    + (IF Is(Head(channel), w) THEN 1 ELSE 0)
  <2>1. Tail(channel) \in Seq(S) /\ Head(channel) \in S
    BY <1>4
  <2>2. Head(channel) \in T <=> Is(Head(channel), w)
    BY <2>1 DEF T
  <2>3. QED BY <1>1, <1>4, <2>1, <2>2, CountTail
<1>5. ASSUME NEW n \in 0..Len(channel)
      PROVE  CopiesIn(SubSeq(channel, 1, n), w) <= CopiesIn(channel, w)
  <2>1. SubSeq(channel, 1, n) \in Seq(S)
    OBVIOUS
  <2>2. Count(SubSeq(channel, 1, n), T) <= Count(channel, T)
    BY CountPrefix
  <2>3. QED BY <1>1, <2>1, <2>2
<1>6. QED BY <1>2, <1>3, <1>4, <1>5

\* The same of the answers in the result channel.
LEMMA AnswersInChannel ==
    ASSUME NEW channel \in Seq(Answer), NEW a, NEW w
    PROVE  /\ AnswersIn(channel, a, w) \in Nat
           /\ \A m \in Answer :
                AnswersIn(Append(channel, m), a, w) = AnswersIn(channel, a, w)
                           + (IF m.wf = w /\ m.app = a THEN 1 ELSE 0)
           /\ channel # <<>> =>
                AnswersIn(channel, a, w) = AnswersIn(Tail(channel), a, w)
                           + (IF Head(channel).wf = w /\ Head(channel).app = a
                              THEN 1 ELSE 0)
<1> DEFINE T == {m \in Answer : m.wf = w /\ m.app = a}
<1>1. \A c \in Seq(Answer) : AnswersIn(c, a, w) = Count(c, T)
  <2>1. ASSUME NEW c \in Seq(Answer)
        PROVE  At(c, T) = {i \in DOMAIN c : c[i].wf = w /\ c[i].app = a}
    BY DEF At
  <2>2. QED BY <2>1 DEF AnswersIn, Count
<1> HIDE DEF T
<1>2. AnswersIn(channel, a, w) \in Nat
  BY <1>1, CountType
<1>3. ASSUME NEW m \in Answer
      PROVE  AnswersIn(Append(channel, m), a, w) = AnswersIn(channel, a, w)
                           + (IF m.wf = w /\ m.app = a THEN 1 ELSE 0)
  <2>1. Append(channel, m) \in Seq(Answer)
    OBVIOUS
  <2>2. m \in T <=> m.wf = w /\ m.app = a
    BY DEF T
  <2>3. Count(Append(channel, m), T) =
          Count(channel, T) + (IF m \in T THEN 1 ELSE 0)
    BY CountAppend
  <2>4. QED BY <1>1, <2>1, <2>2, <2>3
<1>4. ASSUME channel # <<>>
      PROVE  AnswersIn(channel, a, w) = AnswersIn(Tail(channel), a, w)
                           + (IF Head(channel).wf = w /\ Head(channel).app = a
                              THEN 1 ELSE 0)
  <2>1. Tail(channel) \in Seq(Answer) /\ Head(channel) \in Answer
    BY <1>4
  <2>2. Head(channel) \in T <=> Head(channel).wf = w /\ Head(channel).app = a
    BY <2>1 DEF T
  <2>3. QED BY <1>1, <1>4, <2>1, <2>2, CountTail
<1>5. QED BY <1>2, <1>3, <1>4

-----------------------------------------------------------------------------
(* A step moves copies, or loses them with a connection. *)

\* The copy the reader of a works on, and the one the task of a's stream has.
Reading(a, w) == IF reader[a].wf = w THEN 1 ELSE 0

Passing(a, w) == IF inTask[a] \in Answer /\ inTask[a].wf = w THEN 1 ELSE 0

\* The parts of Copies are numbers.
LEMMA CopiesParts ==
    ASSUME TypeOK, NEW a \in App, NEW w \in Workflow
    PROVE  /\ CopiesIn(out[a], w) \in Nat /\ CopiesIn(in[a], w) \in Nat
           /\ AnswersIn(results, a, w) \in Nat /\ Len(ends[a][w]) \in Nat
           /\ Reading(a, w) \in Nat /\ Passing(a, w) \in Nat
<1>1. out[a] \in Seq(OutMessage) /\ in[a] \in Seq(InMessage)
      /\ results \in Seq(Answer) /\ ends[a][w] \in Seq(Cluster)
  BY DEF TypeOK
<1>2. QED BY <1>1, CopiesInChannel, AnswersInChannel DEF Reading, Passing

\* Copies is the sum of its parts, before and after a step.
CopiesAreParts(a, w) ==
    /\ Copies(a, w) = CopiesIn(out[a], w) + CopiesIn(in[a], w)
                      + AnswersIn(results, a, w) + Len(ends[a][w])
                      + Reading(a, w) + Passing(a, w)
    /\ Copies(a, w)' = CopiesIn(out'[a], w) + CopiesIn(in'[a], w)
                       + AnswersIn(results', a, w) + Len(ends'[a][w])
                       + Reading(a, w)' + Passing(a, w)'
    /\ CopiesIn(out[a], w) \in Nat /\ CopiesIn(in[a], w) \in Nat
    /\ AnswersIn(results, a, w) \in Nat /\ Len(ends[a][w]) \in Nat
    /\ Reading(a, w) \in Nat /\ Passing(a, w) \in Nat

\* In a well-typed state, they are.
LEMMA CopiesSum ==
    ASSUME TypeOK, NEW a \in App, NEW w \in Workflow
    PROVE  CopiesAreParts(a, w)
<1>1. Copies(a, w) = CopiesIn(out[a], w) + CopiesIn(in[a], w)
                     + AnswersIn(results, a, w) + Len(ends[a][w])
                     + Reading(a, w) + Passing(a, w)
  BY DEF Copies, Reading, Passing
<1>2. Copies(a, w)' = CopiesIn(out'[a], w) + CopiesIn(in'[a], w)
                      + AnswersIn(results', a, w) + Len(ends'[a][w])
                      + Reading(a, w)' + Passing(a, w)'
  BY DEF Copies, Reading, Passing
<1>3. QED BY <1>1, <1>2, CopiesParts DEF CopiesAreParts

\* What is appended to the channel of one application.
LEMMA ChannelsSend ==
    ASSUME NEW S, NEW channels \in [App -> Seq(S)], NEW m \in S,
           NEW a \in App, NEW b \in App, NEW w
    PROVE  CopiesIn([channels EXCEPT ![a] = Append(@, m)][b], w) =
             CopiesIn(channels[b], w) + (IF b = a /\ Is(m, w) THEN 1 ELSE 0)
<1>1. channels[b] \in Seq(S)
  OBVIOUS
<1>2. CASE b = a
  <2>1. [channels EXCEPT ![a] = Append(@, m)][b] = Append(channels[b], m)
    BY <1>2
  <2>2. QED BY <1>1, <1>2, <2>1, CopiesInChannel
<1>3. CASE b # a
  <2>1. [channels EXCEPT ![a] = Append(@, m)][b] = channels[b]
    BY <1>3
  <2>2. QED BY <1>1, <1>3, <2>1, CopiesInChannel
<1>4. QED BY <1>2, <1>3

\* What the receiver takes from the channel of one application.
LEMMA ChannelsTake ==
    ASSUME NEW S, NEW channels \in [App -> Seq(S)], NEW a \in App, NEW b \in App,
           channels[a] # <<>>, NEW w
    PROVE  /\ CopiesIn([channels EXCEPT ![a] = Tail(@)][b], w) \in Nat
           /\ CopiesIn(channels[b], w) =
                CopiesIn([channels EXCEPT ![a] = Tail(@)][b], w)
                + (IF b = a /\ Is(Head(channels[a]), w) THEN 1 ELSE 0)
<1>1. channels[b] \in Seq(S)
  OBVIOUS
<1>2. CASE b = a
  <2>1. [channels EXCEPT ![a] = Tail(@)][b] = Tail(channels[b])
    BY <1>2
  <2>2. Tail(channels[b]) \in Seq(S)
    BY <1>1, <1>2
  <2>3. CopiesIn(Tail(channels[b]), w) \in Nat
    BY <2>2, CopiesInChannel
  <2>4. CopiesIn(channels[b], w) = CopiesIn(Tail(channels[b]), w)
          + (IF Is(Head(channels[b]), w) THEN 1 ELSE 0)
    BY <1>1, <1>2, CopiesInChannel
  <2>5. QED BY <1>2, <2>1, <2>3, <2>4
<1>3. CASE b # a
  <2>1. [channels EXCEPT ![a] = Tail(@)][b] = channels[b]
    BY <1>3
  <2>2. QED BY <1>1, <1>3, <2>1, CopiesInChannel
<1>4. QED BY <1>2, <1>3

\* No copy appears, and none of a connected application disappears while
\* the server has a sender that leads to a proxy.
CopiesKept ==
    \A a \in App, w \in Workflow :
        /\ Copies(a, w)' <= Copies(a, w)
        /\ conn'[a] = "open" /\ server.tx # None => Copies(a, w)' = Copies(a, w)

\* Every step but a delivery keeps the copies.
LEMMA CopiesStep ==
    ASSUME TypeOK, OwnAnswers, [Next]_vars, \A a \in App : ~Deliver(a)
    PROVE  CopiesKept
<1> USE DEF proxyVars, serverVars, streamVars, clientVars
<1>1. ASSUME NEW c \in Cluster, handle_workflow_result(c) PROVE CopiesKept
  <2> DEFINE m == Head(results)
  <2>1. /\ results # <<>> /\ results' = Tail(results) /\ m \in Answer
        /\ ends' = [ends EXCEPT ![m.app][m.wf] = Append(@, c)]
        /\ UNCHANGED <<out, in, reader, inTask>>
    BY <1>1 DEF handle_workflow_result, TypeOK
  <2>2. m.app \in App /\ m.wf \in Workflow
    BY <2>1 DEF Answer
  <2> SUFFICES ASSUME NEW b \in App, NEW w \in Workflow
               PROVE  Copies(b, w)' = Copies(b, w) /\ Copies(b, w) \in Nat
    BY DEF CopiesKept
  <2> DEFINE d == IF m.wf = w /\ m.app = b THEN 1 ELSE 0
  <2>0. CopiesAreParts(b, w)
    BY CopiesSum
  <2>3. AnswersIn(results, b, w) = AnswersIn(results', b, w) + d
        /\ AnswersIn(results', b, w) \in Nat
    <3>1. results \in Seq(Answer) /\ results' \in Seq(Answer)
      BY <2>1 DEF TypeOK
    <3>2. AnswersIn(results', b, w) \in Nat
      BY <3>1, AnswersInChannel
    <3>3. QED BY <2>1, <3>1, <3>2, AnswersInChannel
  <2>4. Len(ends'[b][w]) = Len(ends[b][w]) + d
    <3>1. ends \in [App -> [Workflow -> Seq(Cluster)]]
      BY DEF TypeOK
    <3>2. CASE m.wf = w /\ m.app = b
      <4>1. ends'[b][w] = Append(ends[b][w], c) /\ ends[b][w] \in Seq(Cluster)
        BY <2>1, <2>2, <3>1, <3>2
      <4>2. QED BY <3>2, <4>1
    <3>3. CASE ~(m.wf = w /\ m.app = b)
      <4>1. ends'[b][w] = ends[b][w] /\ ends[b][w] \in Seq(Cluster)
        BY <2>1, <2>2, <3>1, <3>3
      <4>2. Len(ends'[b][w]) = Len(ends[b][w]) /\ Len(ends[b][w]) \in Nat
        BY <4>1
      <4>3. d = 0
        BY <3>3
      <4> HIDE DEF d
      <4>4. QED BY <4>2, <4>3
    <3>4. QED BY <3>2, <3>3
  <2>5. Reading(b, w)' = Reading(b, w) /\ Passing(b, w)' = Passing(b, w)
    BY <2>1 DEF Reading, Passing
  <2>6. d \in Nat /\ UNCHANGED <<out, in>>
    BY <2>1
  <2> HIDE DEF m, d
  <2>7. PICK o, i, r, e, x, p, z \in Nat :
             /\ CopiesIn(out[b], w) = o /\ CopiesIn(in[b], w) = i
             /\ AnswersIn(results', b, w) = r /\ Len(ends[b][w]) = e
             /\ Reading(b, w) = x /\ Passing(b, w) = p /\ d = z
    BY <2>0, <2>3, <2>4, <2>5, <2>6 DEF CopiesAreParts
  <2>8. Copies(b, w) = o + i + (r + z) + e + x + p
    BY <2>0, <2>3, <2>4, <2>5, <2>6, <2>7 DEF CopiesAreParts
  <2>9. Copies(b, w)' = o + i + r + (e + z) + x + p
    BY <2>0, <2>3, <2>4, <2>5, <2>6, <2>7 DEF CopiesAreParts
  <2>10. QED BY <2>8, <2>9
<1>2. ASSUME NEW a \in App, Receive(a) PROVE CopiesKept
  <2> DEFINE m == Head(in[a])
  <2>1. /\ in[a] \in Seq(InMessage) /\ in[a] # <<>> /\ m \in InMessage
        /\ in' = [in EXCEPT ![a] = Tail(@)] /\ inTask[a] = Idle
        /\ inTask' = [inTask EXCEPT ![a] = IF m.type = "CheckpointProposal"
                                           THEN Idle ELSE m]
        /\ UNCHANGED <<out, results, ends, reader>>
    BY <1>2 DEF Receive, TypeOK
  <2> SUFFICES ASSUME NEW b \in App, NEW w \in Workflow
               PROVE  Copies(b, w)' = Copies(b, w) /\ Copies(b, w) \in Nat
    BY DEF CopiesKept
  <2> DEFINE d == IF b = a /\ Is(m, w) THEN 1 ELSE 0
  <2>0. CopiesAreParts(b, w)
    BY CopiesSum
  <2>2. CopiesIn(in'[b], w) \in Nat
        /\ CopiesIn(in[b], w) =
             CopiesIn(in'[b], w) + d
    <3>1. in \in [App -> Seq(InMessage)]
      BY DEF TypeOK
    <3>2. QED BY <2>1, <3>1, ChannelsTake
  <2>3. Passing(b, w)' = Passing(b, w) + d
    <3>1. CASE b = a
      <4>1. Passing(a, w) = 0
        BY <2>1, MessageTypes DEF Passing
      <4>2. inTask'[a] = IF m.type = "CheckpointProposal" THEN Idle ELSE m
        BY <2>1 DEF TypeOK
      <4>3. m.type # "CheckpointProposal" => m \in Answer \/ m = Heartbeat
        BY <2>1, MessageTypes
      <4>4. m \in Answer => (Is(m, w) <=> m.wf = w)
        BY DEF Is, Answer
      <4>5. Heartbeat \notin Answer /\ Idle \notin Answer /\ ~Is(Heartbeat, w)
        BY MessageTypes DEF Is, Heartbeat
      <4>6. CASE m.type = "CheckpointProposal"
        <5>1. ~Is(m, w) /\ inTask'[a] = Idle
          BY <4>2, <4>6 DEF Is
        <5>2. QED BY <3>1, <4>1, <4>5, <5>1 DEF Passing
      <4>7. CASE m.type # "CheckpointProposal"
        BY <3>1, <4>1, <4>2, <4>3, <4>4, <4>5, <4>7 DEF Passing
      <4>8. QED BY <4>6, <4>7
    <3>2. CASE b # a
      <4>1. inTask'[b] = inTask[b]
        BY <2>1, <3>2 DEF TypeOK
      <4>2. QED BY <3>2, <4>1 DEF Passing
    <3>3. QED BY <3>1, <3>2
  <2>4. Reading(b, w)' = Reading(b, w)
    BY <2>1 DEF Reading
  <2>5. d \in Nat /\ UNCHANGED <<out, results, ends>>
    BY <2>1
  <2> HIDE DEF m, d
  <2>6. PICK o, i, r, e, x, p, z \in Nat :
             /\ CopiesIn(out[b], w) = o /\ CopiesIn(in'[b], w) = i
             /\ AnswersIn(results, b, w) = r /\ Len(ends[b][w]) = e
             /\ Reading(b, w) = x /\ Passing(b, w) = p /\ d = z
    BY <2>0, <2>2, <2>3, <2>4, <2>5 DEF CopiesAreParts
  <2>7. Copies(b, w) = o + (i + z) + r + e + x + p
    BY <2>0, <2>2, <2>3, <2>4, <2>5, <2>6 DEF CopiesAreParts
  <2>8. Copies(b, w)' = o + i + r + e + x + (p + z)
    BY <2>0, <2>2, <2>3, <2>4, <2>5, <2>6 DEF CopiesAreParts
  <2>9. QED BY <2>7, <2>8
<1>3. ASSUME NEW a \in App, ForwardResult(a) PROVE CopiesKept
  <2>1. /\ inTask[a] \in Answer /\ inTask' = [inTask EXCEPT ![a] = Idle]
        /\ UNCHANGED <<out, in, ends, reader, conn>>
        /\ \/ server.tx = None /\ results' = results
           \/ server.tx # None /\ results' = Append(results, inTask[a])
    BY <1>3 DEF ForwardResult
  <2> SUFFICES ASSUME NEW b \in App, NEW w \in Workflow
               PROVE  /\ Copies(b, w)' <= Copies(b, w)
                      /\ server.tx # None => Copies(b, w)' = Copies(b, w)
    BY DEF CopiesKept
  <2> DEFINE d == IF b = a /\ inTask[a].wf = w THEN 1 ELSE 0
  <2>0. CopiesAreParts(b, w)
    BY CopiesSum
  <2>2. Passing(b, w) = Passing(b, w)' + d
        /\ Passing(b, w)' \in Nat
    BY <2>1, MessageTypes DEF Passing, TypeOK
  <2>3. Reading(b, w)' = Reading(b, w)
    BY <2>1 DEF Reading
  <2>4. d \in Nat /\ UNCHANGED <<out, in, ends>>
    BY <2>1
  <2>5. CASE results' = Append(results, inTask[a])
    <3>1. AnswersIn(results', b, w) = AnswersIn(results, b, w)
            + (IF inTask[a].wf = w /\ inTask[a].app = b THEN 1 ELSE 0)
      BY <2>1, <2>5, AnswersInChannel DEF TypeOK
    <3>2. inTask[a].app = a
      BY <2>1 DEF OwnAnswers
    <3>3. AnswersIn(results', b, w) = AnswersIn(results, b, w) + d
      BY <3>1, <3>2
    <3> HIDE DEF d
    <3>4. PICK o, i, r, e, x, p, z \in Nat :
               /\ CopiesIn(out[b], w) = o /\ CopiesIn(in[b], w) = i
               /\ AnswersIn(results, b, w) = r /\ Len(ends[b][w]) = e
               /\ Reading(b, w) = x /\ Passing(b, w)' = p /\ d = z
      BY <2>0, <2>2, <2>3, <2>4, <3>3 DEF CopiesAreParts
    <3>5. Copies(b, w) = o + i + r + e + x + (p + z)
      BY <2>0, <2>2, <2>3, <2>4, <3>3, <3>4 DEF CopiesAreParts
    <3>6. Copies(b, w)' = o + i + (r + z) + e + x + p
      BY <2>0, <2>2, <2>3, <2>4, <3>3, <3>4 DEF CopiesAreParts
    <3>7. QED BY <3>5, <3>6
  <2>6. CASE server.tx = None /\ results' = results
    <3> HIDE DEF d
    <3>1. QED BY <2>0, <2>2, <2>3, <2>6, <2>4, SMTT(30) DEF CopiesAreParts
  <2>7. QED BY <2>1, <2>5, <2>6
<1>4. ASSUME NEW a \in App, AnswerHeartbeat(a) PROVE CopiesKept
  <2>1. /\ inTask[a] = Heartbeat /\ inTask' = [inTask EXCEPT ![a] = Idle]
        /\ UNCHANGED <<in, results, ends, reader>>
        /\ out' = out \/ out' = [out EXCEPT ![a] = Append(@, Heartbeat)]
    BY <1>4 DEF AnswerHeartbeat
  <2> SUFFICES ASSUME NEW b \in App, NEW w \in Workflow
               PROVE  Copies(b, w)' = Copies(b, w) /\ Copies(b, w) \in Nat
    BY DEF CopiesKept
  <2>0. CopiesAreParts(b, w)
    BY CopiesSum
  <2>2. Passing(b, w) = Passing(b, w)'
    BY <2>1, MessageTypes DEF Passing, TypeOK
  <2>3. Reading(b, w)' = Reading(b, w)
    BY <2>1 DEF Reading
  <2>4. CopiesIn(out'[b], w) = CopiesIn(out[b], w)
    <3>1. ~Is(Heartbeat, w) /\ out \in [App -> Seq(OutMessage)]
      BY DEF Is, Heartbeat, TypeOK
    <3>2. CopiesIn([out EXCEPT ![a] = Append(@, Heartbeat)][b], w)
            = CopiesIn(out[b], w) + 0
      BY <3>1, ChannelsSend, MessageTypes
    <3>3. CopiesIn(out[b], w) \in Nat
      BY CopiesParts
    <3>4. CASE out' = out
      BY <3>4
    <3>5. CASE out' = [out EXCEPT ![a] = Append(@, Heartbeat)]
      BY <3>2, <3>3, <3>5
    <3>6. QED BY <2>1, <3>4, <3>5
  <2>5. QED BY <2>0, <2>1, <2>2, <2>3, <2>4, SMTT(30) DEF CopiesAreParts
<1>5. ASSUME NEW a \in App, ReaderReceive(a) PROVE CopiesKept
  <2> DEFINE m == Head(out[a])
  <2>1. /\ out[a] # <<>> /\ out' = [out EXCEPT ![a] = Tail(@)]
        /\ reader[a] = Idle
        /\ UNCHANGED <<in, results, ends, inTask>>
    BY <1>5 DEF ReaderReceive
  <2>2. \/ m = Heartbeat /\ UNCHANGED reader
        \/ /\ m # Heartbeat
           /\ \E pc \in {"handling", "answering"} :
                reader' = [reader EXCEPT ![a] = [pc |-> pc, wf |-> m.wf]]
    BY <1>5 DEF ReaderReceive, SetReader
  <2> SUFFICES ASSUME NEW b \in App, NEW w \in Workflow
               PROVE  Copies(b, w)' = Copies(b, w) /\ Copies(b, w) \in Nat
    BY DEF CopiesKept
  <2> DEFINE d == IF b = a /\ Is(m, w) THEN 1 ELSE 0
  <2>0. CopiesAreParts(b, w)
    BY CopiesSum
  <2>3. CopiesIn(out'[b], w) \in Nat
        /\ CopiesIn(out[b], w) =
             CopiesIn(out'[b], w) + d
    <3>1. out \in [App -> Seq(OutMessage)]
      BY DEF TypeOK
    <3>2. QED BY <2>1, <3>1, ChannelsTake
  <2>4. Reading(b, w)' = Reading(b, w) + d
    <3>1. m \in OutMessage
      BY <2>1 DEF TypeOK
    <3>2. Is(m, w) <=> m # Heartbeat /\ m.wf = w
      BY <3>1 DEF OutMessage, Request, Heartbeat, Is
    <3>3. CASE b = a
      <4>1. Reading(a, w) = 0
        BY <2>1 DEF Reading, Idle
      <4>2. Reading(a, w)' = IF m # Heartbeat /\ m.wf = w THEN 1 ELSE 0
        <5>1. CASE m = Heartbeat /\ UNCHANGED reader
          BY <4>1, <5>1 DEF Reading
        <5>2. CASE m # Heartbeat
          <6>1. reader'[a].wf = m.wf
            BY <2>2, <5>2 DEF TypeOK
          <6>2. QED BY <5>2, <6>1 DEF Reading
        <5>3. QED BY <2>2, <5>1, <5>2
      <4>3. QED BY <3>2, <3>3, <4>1, <4>2
    <3>4. CASE b # a
      <4>1. reader'[b] = reader[b]
        BY <2>2, <3>4 DEF TypeOK
      <4>2. QED BY <3>4, <4>1 DEF Reading
    <3>5. QED BY <3>3, <3>4
  <2>5. Passing(b, w)' = Passing(b, w)
    BY <2>1 DEF Passing
  <2>6. d \in Nat /\ UNCHANGED <<in, results, ends>>
    BY <2>1
  <2> HIDE DEF m, d
  <2>7. PICK o, i, r, e, x, p, z \in Nat :
             /\ CopiesIn(out'[b], w) = o /\ CopiesIn(in[b], w) = i
             /\ AnswersIn(results, b, w) = r /\ Len(ends[b][w]) = e
             /\ Reading(b, w) = x /\ Passing(b, w) = p /\ d = z
    BY <2>0, <2>3, <2>4, <2>5, <2>6 DEF CopiesAreParts
  <2>8. Copies(b, w) = (o + z) + i + r + e + x + p
    BY <2>0, <2>3, <2>4, <2>5, <2>6, <2>7 DEF CopiesAreParts
  <2>9. Copies(b, w)' = o + i + r + e + (x + z) + p
    BY <2>0, <2>3, <2>4, <2>5, <2>6, <2>7 DEF CopiesAreParts
  <2>10. QED BY <2>8, <2>9
<1>6. ASSUME NEW a \in App, checkpoint(a) \/ HandlerReturns(a) PROVE CopiesKept
  <2>1. \E pc : reader' = [reader EXCEPT ![a] = [pc |-> pc, wf |-> reader[a].wf]]
    BY <1>6 DEF checkpoint, HandlerReturns, SetReader
  <2>2. UNCHANGED <<out, in, results, ends, inTask>>
    BY <1>6 DEF checkpoint, HandlerReturns
  <2> SUFFICES ASSUME NEW b \in App, NEW w \in Workflow
               PROVE  Copies(b, w)' = Copies(b, w) /\ Copies(b, w) \in Nat
    BY DEF CopiesKept
  <2>0. CopiesAreParts(b, w)
    BY CopiesSum
  <2>3. reader'[b].wf = reader[b].wf
    BY <2>1 DEF TypeOK
  <2>4. Reading(b, w)' = Reading(b, w) /\ Passing(b, w)' = Passing(b, w)
    BY <2>2, <2>3 DEF Reading, Passing
  <2>5. QED BY <2>0, <2>2, <2>4, SMTT(30) DEF CopiesAreParts
<1>7. ASSUME NEW a \in App, propose_checkpoint(a) PROVE CopiesKept
  <2> DEFINE m == Proposal(reader[a].wf)
  <2>1. /\ in' = [in EXCEPT ![a] = Append(@, m)]
        /\ reader' = [reader EXCEPT ![a] = [pc |-> "waiting", wf |-> reader[a].wf]]
        /\ UNCHANGED <<out, results, ends, inTask>>
    BY <1>7 DEF propose_checkpoint, SetReader
  <2> SUFFICES ASSUME NEW b \in App, NEW w \in Workflow
               PROVE  Copies(b, w)' = Copies(b, w) /\ Copies(b, w) \in Nat
    BY DEF CopiesKept
  <2>0. CopiesAreParts(b, w)
    BY CopiesSum
  <2>2. m \in InMessage /\ ~Is(m, w)
    BY <1>7, ReaderType, MessageTypes DEF propose_checkpoint, Is, Proposal
  <2>3. reader'[b].wf = reader[b].wf
    BY <2>1 DEF TypeOK
  <2>4. Reading(b, w)' = Reading(b, w) /\ Passing(b, w)' = Passing(b, w)
    BY <2>1, <2>3 DEF Reading, Passing
  <2> HIDE DEF m
  <2>5. in \in [App -> Seq(InMessage)]
    BY DEF TypeOK
  <2>6. CopiesIn(in'[b], w) = CopiesIn(in[b], w) + 0
    BY <2>1, <2>2, <2>5, ChannelsSend
  <2>7. UNCHANGED <<out, results, ends>>
    BY <2>1
  <2>8. QED BY <2>0, <2>4, <2>6, <2>7, SMTT(30) DEF CopiesAreParts
<1>8. ASSUME NEW a \in App, SendAnswer(a) PROVE CopiesKept
  <2> DEFINE m == [type |-> "WorkflowResult", app |-> a, wf |-> reader[a].wf]
  <2>1. /\ in' = [in EXCEPT ![a] = Append(@, m)]
        /\ reader' = [reader EXCEPT ![a] = Idle]
        /\ UNCHANGED <<out, results, ends, inTask>>
    BY <1>8 DEF SendAnswer, AfterAnswer
  <2>2. reader[a].wf \in Workflow
    BY <1>8, ReaderType DEF SendAnswer, Answering
  <2>3. m \in InMessage
    BY <2>2, MessageTypes
  <2> SUFFICES ASSUME NEW b \in App, NEW w \in Workflow
               PROVE  Copies(b, w)' = Copies(b, w) /\ Copies(b, w) \in Nat
    BY DEF CopiesKept
  <2> DEFINE d == IF b = a /\ reader[a].wf = w THEN 1 ELSE 0
  <2>0. CopiesAreParts(b, w)
    BY CopiesSum
  <2>4. Is(m, w) <=> reader[a].wf = w
    BY DEF Is
  <2>5. /\ Reading(b, w) = Reading(b, w)' + d
        /\ Reading(b, w)' \in Nat
    BY <2>1 DEF Reading, Idle, TypeOK
  <2>6. Passing(b, w)' = Passing(b, w)
    BY <2>1 DEF Passing
  <2> HIDE DEF m
  <2>7. in \in [App -> Seq(InMessage)]
    BY DEF TypeOK
  <2>8. CopiesIn(in[b], w) \in Nat
    BY <2>0 DEF CopiesAreParts
  <2>9. CopiesIn(in'[b], w) = CopiesIn(in[b], w) + d
    <3>1. CASE b = a /\ Is(m, w)
      <4>1. CopiesIn(in'[b], w) = CopiesIn(in[b], w) + 1
        BY <2>1, <2>3, <2>7, <3>1, ChannelsSend
      <4>2. QED BY <2>4, <3>1, <4>1
    <3>2. CASE b = a /\ ~Is(m, w)
      <4>1. CopiesIn(in'[b], w) = CopiesIn(in[b], w) + 0
        BY <2>1, <2>3, <2>7, <3>2, ChannelsSend
      <4>2. QED BY <2>4, <2>8, <3>2, <4>1
    <3>3. CASE b # a
      <4>1. in'[b] = in[b] /\ d = 0
        BY <2>1, <2>7, <3>3
      <4>2. QED BY <2>8, <4>1
    <3>4. QED BY <3>1, <3>2, <3>3
  <2>10. d \in Nat /\ UNCHANGED <<out, results, ends>>
    BY <2>1
  <2> HIDE DEF d
  <2>11. PICK o, i, r, e, x, p, z \in Nat :
             /\ CopiesIn(out[b], w) = o /\ CopiesIn(in[b], w) = i
             /\ AnswersIn(results, b, w) = r /\ Len(ends[b][w]) = e
             /\ Reading(b, w)' = x /\ Passing(b, w) = p /\ d = z
    BY <2>0, <2>5, <2>6, <2>9, <2>10 DEF CopiesAreParts
  <2>12. Copies(b, w) = o + i + r + e + (x + z) + p
    BY <2>0, <2>5, <2>6, <2>9, <2>10, <2>11 DEF CopiesAreParts
  <2>13. Copies(b, w)' = o + (i + z) + r + e + x + p
    BY <2>0, <2>5, <2>6, <2>9, <2>10, <2>11 DEF CopiesAreParts
  <2>14. QED BY <2>12, <2>13
<1>9. ASSUME NEW a \in App, SendHeartbeat(a) PROVE CopiesKept
  <2>1. /\ in' = [in EXCEPT ![a] = Append(@, Heartbeat)]
        /\ UNCHANGED <<out, results, ends, inTask, reader>>
    BY <1>9 DEF SendHeartbeat
  <2> SUFFICES ASSUME NEW b \in App, NEW w \in Workflow
               PROVE  Copies(b, w)' = Copies(b, w) /\ Copies(b, w) \in Nat
    BY DEF CopiesKept
  <2>0. CopiesAreParts(b, w)
    BY CopiesSum
  <2>2. Heartbeat \in InMessage /\ ~Is(Heartbeat, w)
    BY MessageTypes DEF Is, Heartbeat
  <2>3. Reading(b, w)' = Reading(b, w) /\ Passing(b, w)' = Passing(b, w)
    BY <2>1 DEF Reading, Passing
  <2>4. in \in [App -> Seq(InMessage)]
    BY DEF TypeOK
  <2>5. CopiesIn(in'[b], w) = CopiesIn(in[b], w) + 0
    BY <2>1, <2>2, <2>4, ChannelsSend
  <2>6. QED BY <2>0, <2>1, <2>3, <2>5, SMTT(30) DEF CopiesAreParts
<1>10. ASSUME NEW a \in App, Disconnect(a) PROVE CopiesKept
  <2>1. PICK n \in 0..Len(in[a]) : in' = [in EXCEPT ![a] = SubSeq(@, 1, n)]
    BY <1>10 DEF Disconnect
  <2>2. /\ conn' = [conn EXCEPT ![a] = "closed"]
        /\ out' = [out EXCEPT ![a] = <<>>]
        /\ reader' = [reader EXCEPT ![a] = Idle]
        /\ UNCHANGED <<results, ends, inTask>>
    BY <1>10 DEF Disconnect
  <2> SUFFICES ASSUME NEW b \in App, NEW w \in Workflow
               PROVE  /\ Copies(b, w)' <= Copies(b, w)
                      /\ conn'[b] = "open" => Copies(b, w)' = Copies(b, w)
    BY DEF CopiesKept
  <2>0. CopiesAreParts(b, w)
    BY CopiesSum
  <2>3. Passing(b, w)' = Passing(b, w)
    BY <2>2 DEF Passing
  <2>4. CASE b = a
    <3>1. conn'[a] # "open" /\ out'[a] = <<>> /\ reader'[a] = Idle
          /\ in'[a] = SubSeq(in[a], 1, n)
      BY <2>1, <2>2 DEF TypeOK
    <3>2. CopiesIn(in'[a], w) <= CopiesIn(in[a], w)
          /\ CopiesIn(in'[a], w) \in Nat
      <4>1. in[a] \in Seq(InMessage) /\ SubSeq(in[a], 1, n) \in Seq(InMessage)
        BY DEF TypeOK
      <4>2. QED BY <3>1, <4>1, CopiesInChannel
    <3>3. CopiesIn(out'[a], w) = 0
      <4>1. <<>> \in Seq(OutMessage)
        OBVIOUS
      <4>2. QED BY <3>1, <4>1, CopiesInIsCount, CountEmpty
    <3>4. Reading(a, w)' = 0
      BY <3>1 DEF Reading, Idle
    <3>5. QED
      <4>1. UNCHANGED <<results, ends>>
        BY <2>2
      <4>2. Copies(a, w)' <= Copies(a, w)
        BY <2>0, <2>3, <2>4, <3>2, <3>3, <3>4, <4>1, SMTT(30) DEF CopiesAreParts
      <4>3. QED BY <2>4, <3>1, <4>2
  <2>5. CASE b # a
    <3>1. out'[b] = out[b] /\ in'[b] = in[b] /\ reader'[b] = reader[b]
      BY <2>1, <2>2, <2>5 DEF TypeOK
    <3>2. Reading(b, w)' = Reading(b, w)
      BY <3>1 DEF Reading
    <3>3. QED BY <2>0, <2>2, <2>3, <3>1, <3>2 DEF CopiesAreParts
  <2>6. QED BY <2>4, <2>5
<1>11. CASE UNCHANGED <<out, in, results, ends, reader, inTask>>
  <2> SUFFICES ASSUME NEW b \in App, NEW w \in Workflow
               PROVE  Copies(b, w)' = Copies(b, w) /\ Copies(b, w) \in Nat
    BY DEF CopiesKept
  <2>0. CopiesAreParts(b, w)
    BY CopiesSum
  <2>1. Reading(b, w)' = Reading(b, w) /\ Passing(b, w)' = Passing(b, w)
    BY <1>11 DEF Reading, Passing
  <2>2. QED BY <2>0, <1>11, <2>1, SMTT(30) DEF CopiesAreParts
<1>12. QED
  BY <1>1, <1>2, <1>3, <1>4, <1>5, <1>6, <1>7, <1>8, <1>9, <1>10, <1>11
  DEF Next, ObserverTask, ForwarderTask, StreamTask, ReaderTask, new,
      new_joining_node, vars, Create, Subscribe, ApplyStart, ObserveStarted,
      forward_workflow_to_app, StartServer, TakeRequest, workflow_stream,
      CleanUp, register_handler

-----------------------------------------------------------------------------
(* The invariant is inductive. *)

\* The number of copies is a number, before and after a step.
LEMMA CopiesType ==
    ASSUME NEW a \in App, NEW w \in Workflow
    PROVE  /\ TypeOK => Copies(a, w) \in Nat
           /\ TypeOK' => Copies(a, w)' \in Nat
<1>1. ASSUME TypeOK PROVE Copies(a, w) \in Nat
  <2>1. CopiesAreParts(a, w)
    BY <1>1, CopiesSum
  <2>2. PICK o, i, r, e, x, p \in Nat : Copies(a, w) = o + i + r + e + x + p
    BY <2>1 DEF CopiesAreParts
  <2>3. QED BY <2>2
<1>2. ASSUME TypeOK' PROVE Copies(a, w)' \in Nat
  <2>1. out'[a] \in Seq(OutMessage) /\ in'[a] \in Seq(InMessage)
        /\ results' \in Seq(Answer) /\ ends'[a][w] \in Seq(Cluster)
    BY <1>2 DEF TypeOK
  <2>2. CopiesIn(out'[a], w) \in Nat /\ CopiesIn(in'[a], w) \in Nat
        /\ AnswersIn(results', a, w) \in Nat /\ Len(ends'[a][w]) \in Nat
    BY <2>1, CopiesInChannel, AnswersInChannel
  <2>3. Reading(a, w)' \in Nat /\ Passing(a, w)' \in Nat
    BY DEF Reading, Passing
  <2>4. Copies(a, w)' = CopiesIn(out'[a], w) + CopiesIn(in'[a], w)
                        + AnswersIn(results', a, w) + Len(ends'[a][w])
                        + Reading(a, w)' + Passing(a, w)'
    BY DEF Copies, Reading, Passing
  <2>5. PICK o, i, r, e, x, p \in Nat : Copies(a, w)' = o + i + r + e + x + p
    BY <2>2, <2>3, <2>4
  <2>6. QED BY <2>5
<1>3. QED BY <1>1, <1>2

\* A step keeps the answers on a stream those of its application.
LEMMA OwnAnswersStep ==
    ASSUME TypeOK, OwnAnswers, [Next]_vars
    PROVE  OwnAnswers'
<1> USE DEF proxyVars, serverVars, streamVars, clientVars
<1> DEFINE Own(a, channel) == \A i \in 1..Len(channel) :
                                 channel[i] \in Answer => channel[i].app = a
<1>1. ASSUME NEW a \in App, NEW m \in InMessage, m \in Answer => m.app = a,
             in' = [in EXCEPT ![a] = Append(@, m)], inTask' = inTask
      PROVE  OwnAnswers'
  <2>1. in[a] \in Seq(InMessage) /\ Own(a, in[a])
    BY DEF TypeOK, OwnAnswers
  <2>2. Own(a, Append(in[a], m))
    BY <1>1, <2>1
  <2>3. \A b \in App : in'[b] = IF b = a THEN Append(in[a], m) ELSE in[b]
    BY <1>1 DEF TypeOK
  <2>4. QED BY <1>1, <2>2, <2>3 DEF OwnAnswers
<1>2. ASSUME NEW a \in App, Receive(a) PROVE OwnAnswers'
  <2>1. /\ in[a] \in Seq(InMessage) /\ in[a] # <<>> /\ Own(a, in[a])
        /\ in' = [in EXCEPT ![a] = Tail(@)]
        /\ \A b \in App : b # a => inTask'[b] = inTask[b]
        /\ inTask'[a] \in {Idle, Head(in[a])}
    BY <1>2 DEF Receive, TypeOK, OwnAnswers
  <2>2. Own(a, Tail(in[a])) /\ (Head(in[a]) \in Answer => Head(in[a]).app = a)
    BY <2>1
  <2>3. \A b \in App : in'[b] = IF b = a THEN Tail(in[a]) ELSE in[b]
    BY <2>1 DEF TypeOK
  <2>4. inTask'[a] \in Answer => inTask'[a].app = a
    BY <2>1, <2>2, MessageTypes
  <2>5. QED BY <2>1, <2>2, <2>3, <2>4 DEF OwnAnswers
<1>3. ASSUME NEW a \in App, ForwardResult(a) \/ AnswerHeartbeat(a) PROVE OwnAnswers'
  <2>1. in' = in /\ inTask' = [inTask EXCEPT ![a] = Idle]
    BY <1>3 DEF ForwardResult, AnswerHeartbeat
  <2>2. \A b \in App : inTask'[b] \in {Idle, inTask[b]}
    BY <2>1 DEF TypeOK
  <2>3. QED BY <2>1, <2>2, MessageTypes DEF OwnAnswers
<1>4. ASSUME NEW a \in App, propose_checkpoint(a) PROVE OwnAnswers'
  <2> DEFINE m == Proposal(reader[a].wf)
  <2>1. reader[a].wf \in Workflow
    BY <1>4, ReaderType DEF propose_checkpoint
  <2>2. m \in InMessage /\ m \notin Answer
    BY <2>1, MessageTypes DEF Proposal, Answer
  <2>3. in' = [in EXCEPT ![a] = Append(@, m)] /\ inTask' = inTask
    BY <1>4 DEF propose_checkpoint
  <2> HIDE DEF m
  <2>4. QED BY <1>1, <2>2, <2>3
<1>5. ASSUME NEW a \in App, SendAnswer(a) PROVE OwnAnswers'
  <2> DEFINE m == [type |-> "WorkflowResult", app |-> a, wf |-> reader[a].wf]
  <2>1. reader[a].wf \in Workflow
    BY <1>5, ReaderType DEF SendAnswer, Answering
  <2>2. m \in InMessage /\ m.app = a
    BY <2>1, MessageTypes
  <2>3. in' = [in EXCEPT ![a] = Append(@, m)] /\ inTask' = inTask
    BY <1>5 DEF SendAnswer
  <2> HIDE DEF m
  <2>4. QED BY <1>1, <2>2, <2>3
<1>6. ASSUME NEW a \in App, SendHeartbeat(a) PROVE OwnAnswers'
  <2>1. in' = [in EXCEPT ![a] = Append(@, Heartbeat)] /\ inTask' = inTask
    BY <1>6 DEF SendHeartbeat
  <2>2. QED BY <1>1, <2>1, MessageTypes
<1>7. ASSUME NEW a \in App, Disconnect(a) PROVE OwnAnswers'
  <2>1. PICK n \in 0..Len(in[a]) : in' = [in EXCEPT ![a] = SubSeq(@, 1, n)]
    BY <1>7 DEF Disconnect
  <2>2. in[a] \in Seq(InMessage) /\ Own(a, in[a]) /\ inTask' = inTask
    BY <1>7 DEF Disconnect, TypeOK, OwnAnswers
  <2>3. Own(a, SubSeq(in[a], 1, n))
    BY <2>2
  <2>4. \A b \in App : in'[b] = IF b = a THEN SubSeq(in[a], 1, n) ELSE in[b]
    BY <2>1 DEF TypeOK
  <2>5. QED BY <2>2, <2>3, <2>4, ZenonT(30) DEF OwnAnswers
<1>8. CASE UNCHANGED <<in, inTask>>
  BY <1>8 DEF OwnAnswers
<1>9. QED
  BY <1>2, <1>3, <1>4, <1>5, <1>6, <1>7, <1>8
  DEF Next, ObserverTask, ForwarderTask, StreamTask, ReaderTask, new,
      new_joining_node, vars, Create, Subscribe, ApplyStart, ObserveStarted,
      forward_workflow_to_app, handle_workflow_result, StartServer, TakeRequest,
      Deliver, workflow_stream, CleanUp, register_handler, ReaderReceive,
      checkpoint, HandlerReturns

\* A delivery makes the one copy the stream was to get.
LEMMA DeliverStep ==
    ASSUME Inv, TypeOK', NEW a \in App, Deliver(a)
    PROVE  OneCopy' /\ NoAnswerLost'
<1> USE DEF Inv
<1>0. PICK v \in Workflow : v = forwarder.wf
  BY DEF Deliver, Broadcasting, TypeOK
<1>1. Due(a, v) /\ a \in asked[v] /\ v # None
  <2>1. a \in forwarder.left
    BY DEF Deliver
  <2>2. QED BY <1>0, <2>1 DEF Due, AskedOnlyConnected
<1>2. UNCHANGED <<in, results, ends, reader, inTask, asked, conn, server>>
  BY DEF Deliver, proxyVars, clientVars
<1>3. \A b \in App, w \in Workflow :
         Due(b, w)' <=> Due(b, w) /\ ~(b = a /\ w = v)
  <2>1. CASE LeftAfter(a) = {}
    <3>1. forwarder' = [wf |-> None, left |-> {}] /\ forwarder.left = {a}
      BY <1>1, <2>1 DEF Deliver, LeftAfter, Due
    <3>2. QED BY <1>0, <3>1 DEF Due
  <2>2. CASE LeftAfter(a) # {}
    <3>1. forwarder'.wf = v /\ forwarder'.left = forwarder.left \ {a}
      BY <1>0, <2>2 DEF Deliver, LeftAfter, TypeOK
    <3>2. QED BY <1>0, <3>1 DEF Due
  <2>3. QED BY <2>1, <2>2
<1>4. ASSUME NEW b \in App, NEW w \in Workflow, ~(b = a /\ w = v)
      PROVE  Copies(b, w)' = Copies(b, w)
  <2>1. CopiesIn(out'[b], w) = CopiesIn(out[b], w)
    <3>1. CASE out' = out
      BY <3>1
    <3>2. CASE out' = [out EXCEPT ![a] = Append(@, Request(v))]
      <4>1. CASE b # a
        BY <3>2, <4>1 DEF TypeOK
      <4>2. CASE b = a /\ w # v
        <5>1. ~Is(Request(v), w) /\ Request(v) \in OutMessage
          BY <1>1, <4>2, MessageTypes DEF Is, Request
        <5>2. out \in [App -> Seq(OutMessage)] /\ CopiesIn(out[b], w) \in Nat
          BY CopiesParts DEF TypeOK
        <5>3. CopiesIn([out EXCEPT ![a] = Append(@, Request(v))][b], w)
                = CopiesIn(out[b], w) + 0
          BY <5>1, <5>2, ChannelsSend
        <5>4. QED BY <3>2, <5>2, <5>3
      <4>3. QED BY <1>4, <4>1, <4>2
    <3>3. QED BY <1>0, <3>1, <3>2 DEF Deliver
  <2>2. QED BY <1>2, <2>1 DEF Copies
<1>5. /\ Copies(a, v) = 0 /\ Copies(a, v)' <= 1
      /\ conn[a] = "open" => Copies(a, v)' = 1
  <2>1. Copies(a, v) = 0
    <3>1. Copies(a, v) <= 0 /\ Copies(a, v) \in Nat
      BY <1>1, CopiesType DEF OneCopy
    <3>2. QED BY <3>1
  <2>2. CopiesAreParts(a, v)
    BY <1>1, CopiesSum
  <2>3. /\ CopiesIn(out[a], v) = 0 /\ CopiesIn(in[a], v) = 0
        /\ AnswersIn(results, a, v) = 0 /\ Len(ends[a][v]) = 0
        /\ Reading(a, v) = 0 /\ Passing(a, v) = 0
    <3>1. PICK o, i, r, e, x, p \in Nat :
             /\ CopiesIn(out[a], v) = o /\ CopiesIn(in[a], v) = i
             /\ AnswersIn(results, a, v) = r /\ Len(ends[a][v]) = e
             /\ Reading(a, v) = x /\ Passing(a, v) = p
      BY <2>2 DEF CopiesAreParts
    <3>2. o + i + r + e + x + p = 0
      BY <2>1, <2>2, <3>1 DEF CopiesAreParts
    <3>3. o = 0 /\ i = 0 /\ r = 0 /\ e = 0 /\ x = 0 /\ p = 0
      BY <3>2
    <3>4. QED BY <3>1, <3>3
  <2>4. Copies(a, v)' = CopiesIn(out'[a], v) + 0 + 0 + 0 + 0 + 0
    <3>1. Reading(a, v)' = Reading(a, v) /\ Passing(a, v)' = Passing(a, v)
      BY <1>2 DEF Reading, Passing
    <3>2. QED BY <1>2, <2>2, <2>3, <3>1 DEF CopiesAreParts
  <2>5. CASE out' = [out EXCEPT ![a] = Append(@, Request(v))]
    <3>1. Is(Request(v), v) /\ Request(v) \in OutMessage
      BY <1>1, MessageTypes DEF Is, Request
    <3>2. out \in [App -> Seq(OutMessage)]
      BY DEF TypeOK
    <3>3. CopiesIn([out EXCEPT ![a] = Append(@, Request(v))][a], v) = 0 + 1
      BY <2>3, <3>1, <3>2, ChannelsSend
    <3>4. QED BY <2>1, <2>4, <2>5, <3>3
  <2>6. CASE out' = out /\ conn[a] = "closed"
    BY <2>1, <2>3, <2>4, <2>6
  <2>7. QED BY <1>0, <2>5, <2>6 DEF Deliver
<1>6. OneCopy'
  <2> SUFFICES ASSUME NEW b \in App, NEW w \in Workflow
               PROVE  Copies(b, w)' <= IF b \in asked'[w] /\ ~Due(b, w)'
                                       THEN 1 ELSE 0
    BY DEF OneCopy
  <2>1. CASE b = a /\ w = v
    BY <1>1, <1>2, <1>3, <1>5, <2>1
  <2>2. CASE ~(b = a /\ w = v)
    BY <1>2, <1>3, <1>4, <2>2 DEF OneCopy
  <2>3. QED BY <2>1, <2>2
<1>7. NoAnswerLost'
  <2> SUFFICES ASSUME NEW w \in Workflow, NEW b \in asked'[w],
                      conn'[b] = "open", server'.tx # None, ~Due(b, w)'
               PROVE  Copies(b, w)' >= 1
    BY DEF NoAnswerLost, Due
  <2>1. b \in App
    BY DEF TypeOK
  <2>2. CASE b = a /\ w = v
    BY <1>2, <1>5, <2>2
  <2>3. CASE ~(b = a /\ w = v)
    BY <1>2, <1>3, <1>4, <2>1, <2>3 DEF NoAnswerLost, Due
  <2>4. QED BY <2>2, <2>3
<1>8. QED BY <1>6, <1>7

\* Taking a request makes every stream due, and there are no copies yet.
LEMMA TakeRequestStep ==
    ASSUME Inv, TypeOK', TakeRequest, CopiesKept
    PROVE  OneCopy' /\ NoAnswerLost'
<1> USE DEF Inv
<1> DEFINE v == Head(requests)
<1>1. v \in Workflow /\ asked[v] = {}
  <2>1. requests \in Seq(Workflow) /\ requests # <<>>
    BY DEF TakeRequest, TypeOK
  <2>2. In(requests, v)
    BY <2>1, InTail
  <2>3. QED BY <2>1, <2>2 DEF OnItsWayOnce
<1>2. /\ \A w \in Workflow : asked'[w] = IF w = v THEN Streams ELSE asked[w]
      /\ UNCHANGED <<conn, server>>
  BY DEF TakeRequest, TypeOK, streamVars
<1>3. /\ \A b \in App, w \in Workflow : ~Due(b, w)
      /\ \A b \in App, w \in Workflow : Due(b, w)' <=> w = v /\ b \in Streams
  BY <1>1 DEF TakeRequest, Free, Due
<1>4. \A b \in App, w \in Workflow :
         Copies(b, w) \in Nat /\ Copies(b, w)' \in Nat
         /\ Copies(b, w)' <= Copies(b, w)
  BY CopiesType DEF CopiesKept
<1>5. OneCopy'
  <2> SUFFICES ASSUME NEW b \in App, NEW w \in Workflow
               PROVE  Copies(b, w)' <= IF b \in asked'[w] /\ ~Due(b, w)'
                                       THEN 1 ELSE 0
    BY DEF OneCopy
  <2>1. Copies(b, w) <= IF b \in asked[w] THEN 1 ELSE 0
    BY <1>3 DEF OneCopy
  <2>2. CASE w = v
    <3>1. Copies(b, w)' <= 0
      BY <1>1, <1>4, <2>1, <2>2
    <3>2. QED BY <1>4, <3>1
  <2>3. CASE w # v
    <3>1. asked'[w] = asked[w] /\ ~Due(b, w)'
      BY <1>2, <1>3, <2>3
    <3>2. QED BY <1>4, <2>1, <3>1
  <2>4. QED BY <2>2, <2>3
<1>6. NoAnswerLost'
  <2> SUFFICES ASSUME NEW w \in Workflow, NEW b \in asked'[w],
                      conn'[b] = "open", server'.tx # None, ~Due(b, w)'
               PROVE  Copies(b, w)' >= 1
    BY DEF NoAnswerLost, Due
  <2>1. b \in App
    BY DEF TypeOK
  <2>2. w # v
    BY <1>2, <1>3, <2>1
  <2>3. QED BY <1>2, <1>3, <2>1, <2>2 DEF NoAnswerLost, CopiesKept, Due
<1>7. QED BY <1>5, <1>6

\* Every other step asks nobody, and keeps the copies of who is connected.
LEMMA OtherStep ==
    ASSUME Inv, TypeOK', CopiesKept, UNCHANGED <<asked, forwarder>>,
           \A w \in Workflow : \A a \in asked[w] :
               (conn'[a] = "open" /\ server'.tx # None)
                 => (conn[a] = "open" /\ server.tx # None)
    PROVE  OneCopy' /\ NoAnswerLost'
<1> USE DEF Inv
<1>1. \A b \in App, w \in Workflow :
         Copies(b, w) \in Nat /\ Copies(b, w)' \in Nat
         /\ Copies(b, w)' <= Copies(b, w)
  BY CopiesType DEF CopiesKept
<1>2. \A b \in App, w \in Workflow : Due(b, w)' <=> Due(b, w)
  BY DEF Due
<1>3. OneCopy'
  <2> SUFFICES ASSUME NEW b \in App, NEW w \in Workflow
               PROVE  Copies(b, w)' <= IF b \in asked[w] /\ ~Due(b, w)
                                       THEN 1 ELSE 0
    BY <1>2 DEF OneCopy
  <2>1. Copies(b, w) <= IF b \in asked[w] /\ ~Due(b, w) THEN 1 ELSE 0
    BY DEF OneCopy
  <2>2. QED BY <1>1, <2>1
<1>4. NoAnswerLost'
  <2> SUFFICES ASSUME NEW w \in Workflow, NEW b \in asked[w],
                      conn'[b] = "open", server'.tx # None, ~Due(b, w)
               PROVE  Copies(b, w)' >= 1
    BY <1>2 DEF NoAnswerLost, Due
  <2>1. b \in App /\ conn[b] = "open" /\ server.tx # None
    BY DEF TypeOK
  <2>2. Copies(b, w) >= 1
    BY <2>1 DEF NoAnswerLost, Due
  <2>3. QED BY <2>1, <2>2 DEF CopiesKept
<1>5. QED BY <1>3, <1>4

\* The invariant holds at the start.
LEMMA InvInit ==
    ASSUME Init
    PROVE  Inv
<1>1. TypeOK
  BY DEF Init, TypeOK
<1>2. Broadcasting /\ AskedOnlyConnected /\ NoAnswerLost
  BY DEF Init, Broadcasting, AskedOnlyConnected, NoAnswerLost, Due
<1>3. OnItsWayOnce
  BY DEF Init, OnItsWayOnce, Distinct, In
<1>4. OwnAnswers
  BY MessageTypes DEF Init, OwnAnswers
<1>5. OneCopy
  <2> SUFFICES ASSUME NEW a \in App, NEW w \in Workflow
               PROVE  Copies(a, w) <= IF a \in asked[w] /\ ~Due(a, w)
                                      THEN 1 ELSE 0
    BY DEF OneCopy
  <2>1. out[a] = <<>> /\ in[a] = <<>> /\ results = <<>> /\ ends[a][w] = <<>>
        /\ reader[a] = Idle /\ inTask[a] = Idle /\ asked[w] = {}
    BY DEF Init
  <2>2. CopiesIn(<<>>, w) = 0 /\ AnswersIn(<<>>, a, w) = 0
    <3>1. {i \in DOMAIN <<>> : Is(<<>>[i], w)} = {}
          /\ {i \in DOMAIN <<>> : <<>>[i].wf = w /\ <<>>[i].app = a} = {}
      OBVIOUS
    <3>2. QED BY <3>1, FS_EmptySet DEF CopiesIn, AnswersIn
  <2>3. Reading(a, w) = 0 /\ Passing(a, w) = 0
    BY <2>1, MessageTypes DEF Reading, Passing, Idle
  <2>4. Copies(a, w) = CopiesIn(out[a], w) + CopiesIn(in[a], w)
                       + AnswersIn(results, a, w) + Len(ends[a][w])
                       + Reading(a, w) + Passing(a, w)
    BY DEF Copies, Reading, Passing
  <2>5. Copies(a, w) = 0 + 0 + 0 + 0 + 0 + 0
    BY <2>1, <2>2, <2>3, <2>4
  <2>6. QED BY <2>1, <2>5
<1>6. QED BY <1>1, <1>2, <1>3, <1>4, <1>5 DEF Inv

\* A step keeps the invariant.
LEMMA InvStep ==
    ASSUME Inv, [Next]_vars
    PROVE  Inv'
<1>1. TypeOK'
  BY TypeStep DEF Inv
<1>2. Broadcasting' /\ OnItsWayOnce' /\ AskedOnlyConnected' /\ OwnAnswers'
  BY BroadcastingStep, OnItsWayStep, AskedStep, OwnAnswersStep DEF Inv
<1>3. OneCopy' /\ NoAnswerLost'
  <2>1. CASE \E a \in App : Deliver(a)
    BY <1>1, <2>1, DeliverStep
  <2>2. CASE \A a \in App : ~Deliver(a)
    <3> USE DEF Inv
    <3>1. CopiesKept
      BY <2>2, CopiesStep
    <3>2. CASE TakeRequest
      BY <1>1, <3>1, <3>2, TakeRequestStep
    <3>3. CASE StartServer
      <4>1. UNCHANGED <<asked, forwarder>> /\ server.state = "none"
        BY <3>3 DEF StartServer
      <4>2. \A w \in Workflow : \A a \in asked[w] : FALSE
        BY <4>1 DEF AskedOnlyConnected
      <4>3. QED BY <1>1, <3>1, <4>1, <4>2, OtherStep
    <3>4. ASSUME NEW a \in App,
                 workflow_stream(a) \/ CleanUp(a) \/ Disconnect(a)
          PROVE  OneCopy' /\ NoAnswerLost'
      <4>1. UNCHANGED <<asked, forwarder, server>>
        BY <3>4 DEF workflow_stream, CleanUp, Disconnect, serverVars
      <4>2. \A b \in App : conn'[b] = "open" => conn[b] = "open" \/ conn[b] = "off"
        BY <3>4 DEF workflow_stream, CleanUp, Disconnect, TypeOK
      <4>3. \A w \in Workflow : \A b \in asked[w] : conn[b] # "off" /\ b \in App
        BY DEF AskedOnlyConnected, TypeOK
      <4>4. QED BY <1>1, <3>1, <4>1, <4>2, <4>3, OtherStep
    <3>5. CASE UNCHANGED <<asked, forwarder, server, conn>>
      BY <1>1, <3>1, <3>5, OtherStep
    <3>6. QED
      BY <2>2, <3>2, <3>3, <3>4, <3>5
      DEF Next, ObserverTask, ForwarderTask, StreamTask, ReaderTask, new,
          new_joining_node, vars, Create, Subscribe, ApplyStart,
          ObserveStarted, forward_workflow_to_app, handle_workflow_result,
          Receive, ForwardResult, AnswerHeartbeat, register_handler,
          ReaderReceive, checkpoint, propose_checkpoint, HandlerReturns,
          SendAnswer, SendHeartbeat, proxyVars, serverVars, streamVars,
          clientVars
  <2>3. QED BY <2>1, <2>2
<1>4. QED BY <1>1, <1>2, <1>3 DEF Inv

-----------------------------------------------------------------------------
(* Theorems. *)

\* Every reachable state is one of the invariant.
LEMMA Invariance == Spec => []Inv
<1>1. Init => Inv
  BY InvInit
<1>2. Inv /\ [Next]_vars => Inv'
  BY InvStep
<1>3. QED BY <1>1, <1>2, PTL DEF Spec

(***************************************************************************)
(* Channels, tasks and connections of the sidecar server, the proxies and  *)
(* the clients keep their types, and no bounded channel is ever overfull.  *)
(***************************************************************************)
THEOREM SidecarTypeCorrect == Spec => []TypeOK
<1>1. Inv => TypeOK
  BY DEF Inv
<1>2. QED BY <1>1, Invariance, PTL

(***************************************************************************)
(* No request has a second copy anywhere between the broadcast and the     *)
(* proposal of WorkflowEnd, for any number of applications, workflows and  *)
(* sub-clusters and channels of any capacity.                              *)
(***************************************************************************)
THEOREM AnsweredAtMostOnce == Spec => []AtMostOneAnswer
<1>1. Inv => AtMostOneAnswer
  <2> SUFFICES ASSUME Inv, NEW a \in App, NEW w \in Workflow
               PROVE  Copies(a, w) <= IF a \in asked[w] THEN 1 ELSE 0
    BY DEF AtMostOneAnswer
  <2>1. Copies(a, w) <= (IF a \in asked[w] /\ ~Due(a, w) THEN 1 ELSE 0)
        /\ Copies(a, w) \in Nat
    BY CopiesType DEF Inv, OneCopy
  <2>2. QED BY <2>1
<1>2. QED BY <1>1, Invariance, PTL

(***************************************************************************)
(* A broadcast request of an application that stays connected is always    *)
(* somewhere on its way or answered, if the result sender leads to a proxy.*)
(***************************************************************************)
THEOREM AnswersAreNotLost == Spec => []NoAnswerLost
<1>1. Inv => NoAnswerLost
  BY DEF Inv
<1>2. QED BY <1>1, Invariance, PTL
=============================================================================
