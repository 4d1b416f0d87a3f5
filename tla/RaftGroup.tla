----------------------------- MODULE RaftGroup -----------------------------
(***************************************************************************)
(* How processes become a Raft group and stay one: founding, discovery and *)
(* joining (FullNode), the event loops of the Raft nodes, the transport    *)
(* with its peers, and the ProposalRouter.                                 *)
(*                                                                         *)
(* raft-rs is external.  The code lets it elect a leader only in a         *)
(* configuration of one voter: pre_vote is on, and on_ready drops the      *)
(* messages of a PreCandidate, so nobody is ever asked for a vote.  Hence  *)
(* there is one leader, the founder, one term, and one log that nobody     *)
(* truncates; `node[p].have' is how much of it p has.                      *)
(*                                                                         *)
(* An event loop that meets an error returns and is not started again      *)
(* ("halted"); the process goes on to listen and to answer.  Its mailbox,  *)
(* which nobody reads any more, fills up: then a send to it does not       *)
(* return.  A loop that waits for one ("stuck") keeps its node locked, so  *)
(* that nothing that asks the node of that process is answered.            *)
(***************************************************************************)
EXTENDS Naturals, Sequences, FiniteSets, FiniteSetsExt

CONSTANTS Process,     \* processes; a process stands for its address, too
          Founder,     \* the one that bootstraps
          MaxId,       \* bound: the highest node id
          Command,     \* commands, each proposed once
          MaxFaults,   \* bound: kinds of faults that happen, each once
          None

ASSUME GroupAssumption ==
    /\ Founder \in Process /\ None \notin Process
    /\ MaxId \in Nat \ {0} /\ MaxFaults \in Nat

Id == 1 .. MaxId

VARIABLES node,      \* per process, its Raft node, transport and router
          listening, \* processes whose gRPC server accepts calls
          join,      \* per process, its AddNode call: where to, how far
          mailbox,   \* per process, messages its event loop has to handle
          log,       \* the leader's log
          commit,    \* the leader's commit index
          match,     \* the leader's progress of each peer
          task,      \* per command, the caller of propose_and_wait
          faults,    \* what went wrong so far: a process stopped, a time-out
                     \* fired although all are alive, a node was removed
          blind,     \* ghost: joined without having discovered the leader
          early      \* ghost: sent to before it listened

raftVars == <<log, commit, match>>
countVars == <<faults, blind, early>>
vars == <<node, listening, join, mailbox, raftVars, task, countVars>>

-----------------------------------------------------------------------------
AddEntry(i, p) == [type |-> "add", id |-> i, addr |-> p]

RemoveEntry(i) == [type |-> "remove", id |-> i]

CommandEntry(c) == [type |-> "command", cmd |-> c]

EmptyEntry == [type |-> "empty"]

Entry == {AddEntry(i, p) : i \in Id, p \in Process} \cup {EmptyEntry}
         \cup {RemoveEntry(i) : i \in Id} \cup {CommandEntry(c) : c \in Command}

AppendMsg(i, n, k) == [type |-> "append", from |-> i, upto |-> n, commit |-> k]

ResponseMsg(i, n) == [type |-> "response", from |-> i, upto |-> n]

ProposeMsg(c) == [type |-> "propose", cmd |-> c]

NoPeers == [i \in Id |-> None]

Off == [state |-> "off", id |-> 0, peers |-> NoPeers, conf |-> {},
        role |-> "follower", lead |-> 0, cache |-> 0, have |-> 0, applied |-> 0]

Running(p) == node[p].state = "running"

Alive(p) == node[p].state \in {"running", "halted", "stuck"}

\* The lock of p's node can be had.
Free(p) == node[p].state \in {"running", "halted"}

\* The address p's transport has for i is known and answers.
Reachable(p, i) == i \in Id /\ node[p].peers[i] \in listening

IsLeader(p) == node[p].role = "leader"

TypeOK ==
    /\ node \in [Process ->
          [state : {"off", "running", "halted", "stuck", "crashed"}, id : Id \cup {0},
           peers : [Id -> Process \cup {None}], conf : SUBSET Id,
           role : {"follower", "precandidate", "leader"},
           lead : Id \cup {0}, cache : Id \cup {0}, have : 0..Len(log),
           applied : 0..commit]]
    /\ \A p \in Process : node[p].applied <= node[p].have
    /\ listening \subseteq {p \in Process : Alive(p)}
    /\ join \in [Process -> [pc : {"none", "call", "waiting", "done", "failed"},
                             at : Process \cup {None}]]
    /\ \A p \in Process : \A k \in DOMAIN mailbox[p] :
          mailbox[p][k] \in
             [type : {"propose"}, cmd : Command]
             \cup [type : {"response"}, from : Id, upto : 0..Len(log)]
             \cup [type : {"append"}, from : Id, upto : 0..Len(log),
                   commit : 0..commit]
    /\ log \in Seq(Entry) /\ commit \in 0..Len(log)
    /\ match \in [Id -> 0..Len(log)]
    /\ task \in [Command ->
          [pc : {"none", "retry", "wait", "ok", "error", "gone"},
           at : Process \cup {None}]]
    /\ faults \subseteq {"crash", "delay", "removal"}
    /\ blind \subseteq Process /\ early \subseteq Process

\* A caller that has not called yet, has got an error or is gone.
Over(pc) == [pc |-> pc, at |-> None]

\* FullNode::new of the founder: it campaigns, leads alone, has added itself
\* and started its server.
Init ==
    /\ node = [p \in Process |->
                  IF p # Founder THEN Off
                  ELSE [state |-> "running", id |-> 1, conf |-> {1},
                        peers |-> [NoPeers EXCEPT ![1] = Founder],
                        role |-> "leader", lead |-> 1, cache |-> 1,
                        have |-> 1, applied |-> 1]]
    /\ listening = {Founder}
    /\ join = [p \in Process |-> [pc |-> "none", at |-> None]]
    /\ mailbox = [p \in Process |-> <<>>]
    /\ log = <<AddEntry(1, Founder)>> /\ commit = 1
    /\ match = [i \in Id |-> 0]
    /\ task = [c \in Command |-> Over("none")]
    /\ faults = {} /\ blind = {} /\ early = {}

\* Mailboxes with m in q's.  What a loop that has ended or is stuck does not
\* read is left out.
With(boxes, q, m) == IF Running(q) THEN [boxes EXCEPT ![q] = Append(@, m)] ELSE boxes

Without(p) == [mailbox EXCEPT ![p] = Tail(@)]

Fault(kind) ==
    /\ kind \notin faults /\ Cardinality(faults) < MaxFaults
    /\ faults' = faults \cup {kind}

Emptied(p) == [mailbox EXCEPT ![p] = <<>>]

Halt(p) == node' = [node EXCEPT ![p].state = "halted"] /\ mailbox' = Emptied(p)

\* The loop waits for room in a mailbox that nobody reads.
Hang(p) == node' = [node EXCEPT ![p].state = "stuck"] /\ mailbox' = Emptied(p)

-----------------------------------------------------------------------------
\* Joining.

\* discover_peers: each seed that is asked answers if it listens and its node
\* is not locked for good.
Discoveries == (SUBSET {q \in listening : Free(q)}) \ {{}}

\* What q answers to discover: the leader it knows, and its address.
ReportedLeader(q) == IF IsLeader(q) THEN node[q].id ELSE node[q].lead

ReportedAddress(q) ==
    IF IsLeader(q) THEN q
    ELSE IF node[q].lead = 0 THEN None ELSE node[q].peers[node[q].lead]

\* highest_known_node_id is the node's own id.
next_node_id(S) == 1 + Max({node[q].id : q \in S})

\* Mutant of DiscoveredPeers: only the last peer is kept.
MutDiscoveredPeers(S) ==
    {[i \in Id |-> IF node[q].id = i THEN q ELSE None] : q \in S}

\* The transport after add_peer for every discovered peer, in any order.
DiscoveredPeers(S) ==
    {f \in [Id -> S \cup {None}] :
        \A i \in Id : LET Q == {q \in S : node[q].id = i} IN
                      IF Q = {} THEN f[i] = None ELSE f[i] \in Q}

\* The configuration a joining node starts with, as a voter or as a learner:
\* the discovered ids.  Its own is not among the voters.
InitialVoters(S) == {node[q].id : q \in S}

\* new_joining up to the event loop.  S are the seeds that answer, q the
\* first that knows a leader; without one the process gives up, which
\* changes nothing.
Join(p, S, q) ==
    /\ node[p].state = "off" /\ q \in S /\ ReportedLeader(q) # 0
    /\ next_node_id(S) \in Id
    /\ \E peers \in DiscoveredPeers(S) :
          node' = [node EXCEPT ![p] =
                     [Off EXCEPT !.state = "running", !.id = next_node_id(S),
                                 !.conf = InitialVoters(S),
                                 !.peers = peers]]
    /\ join' = [join EXCEPT ![p] = [pc |-> "call", at |-> ReportedAddress(q)]]
    /\ blind' = IF Founder \in S THEN blind ELSE blind \cup {p}
    /\ UNCHANGED <<listening, mailbox, raftVars, task, faults, early>>

\* The spawned gRPC server binds its address.
Listen(p) ==
    /\ Alive(p) /\ p \notin listening
    /\ listening' = listening \cup {p}
    /\ UNCHANGED <<node, join, mailbox, raftVars, task, countVars>>

\* raft-rs replaces a configuration change by an empty entry while an
\* earlier one is not applied.
PendingConf == \E k \in commit + 1..Len(log) : log[k].type \in {"add", "remove"}

ProposeConf(entry) == log' = Append(log, IF PendingConf THEN EmptyEntry ELSE entry)

\* The leader's log is in its own storage.
Stored(p) == [node EXCEPT ![p].have = Len(log')]

\* The AddNode RPC.  A failure is logged and the node left as it is.  The
\* leader proposes the change, then adds the peer; one whose loop has ended
\* still accepts the proposal, one that is stuck never answers.  What
\* ManagementRuntime::add_node does after the change is in that module.
add_node(p) ==
    LET q == join[p].at  i == node[p].id IN
    /\ join[p].pc = "call" /\ Alive(p) /\ (q \in listening => Free(q))
    /\ \/ /\ q \notin listening \/ ~IsLeader(q)
          /\ join' = [join EXCEPT ![p] = [pc |-> "failed", at |-> None]]
          /\ UNCHANGED <<node, log>>
       \/ /\ q \in listening /\ IsLeader(q)
          /\ join' = [join EXCEPT ![p].pc = "waiting"]
          /\ IF Running(q) THEN ProposeConf(AddEntry(i, p)) ELSE UNCHANGED log
          /\ node' = [Stored(q) EXCEPT ![q].peers[i] = p]
    /\ UNCHANGED <<listening, mailbox, commit, match, task, countVars>>

\* remove_node, called at the leader for a node other than itself.
remove_node(p, i) ==
    /\ Running(p) /\ IsLeader(p) /\ Fault("removal")
    /\ i \in node[p].conf \ {node[p].id}
    /\ ProposeConf(RemoveEntry(i))
    /\ node' = Stored(p)
    /\ UNCHANGED <<listening, join, mailbox, commit, match, task, blind, early>>

-----------------------------------------------------------------------------
\* The event loop: run_from_arc, handle_raft_message, on_ready.

\* apply_conf_change: raft-rs changes the configuration, the transport gets
\* or loses the peer.  Commands concern the state machine only.
Applied(n, e) ==
    [n EXCEPT !.applied = @ + 1,
              !.conf  = IF e.type = "add" THEN @ \cup {e.id}
                        ELSE IF e.type = "remove" THEN @ \ {e.id} ELSE @,
              !.peers = IF e.type = "add" THEN [@ EXCEPT ![e.id] = e.addr]
                        ELSE IF e.type = "remove" THEN [@ EXCEPT ![e.id] = None]
                        ELSE @]

\* Mutant of ApplyUpTo: the log is applied from its beginning.
MutApplyAgain(n, k) ==
    LET after[j \in 0..k] == IF j = 0 THEN n ELSE Applied(after[j - 1], log[j])
    IN after[k]

\* Node record n with the log applied up to k.
ApplyUpTo(n, k) ==
    LET after[j \in n.applied..k] ==
            IF j = n.applied THEN n ELSE Applied(after[j - 1], log[j])
    IN after[k]

News(p, k) == {log[j] : j \in node[p].applied + 1..k}

\* Mutant of Told: only the leader completes proposals.
MutToldAtLeader(c, p, k) ==
    /\ task[c].pc = "wait" /\ task[c].at = p /\ CommandEntry(c) \in News(p, k)
    /\ IsLeader(p)

\* p, which applies up to k, has the caller of c among its pending proposals.
Told(c, p, k) ==
    task[c].pc = "wait" /\ task[c].at = p /\ CommandEntry(c) \in News(p, k)

Complete(p, k) ==
    /\ task' = [c \in Command |-> IF Told(c, p, k)
                                   THEN [task[c] EXCEPT !.pc = "ok"] ELSE task[c]]
    /\ join' = [q \in Process |->
                  IF /\ join[q].pc = "waiting" /\ join[q].at = p
                     /\ AddEntry(node[q].id, q) \in News(p, k)
                  THEN [pc |-> "done", at |-> None] ELSE join[q]]

\* raft-rs: the largest index a quorum of the leader's configuration has.
QuorumIndex(p, progress) ==
    LET has(k) == {i \in node[p].conf :
                     k <= IF i = node[p].id THEN Len(log) ELSE progress[i]}
    IN Max({commit} \cup {k \in 1..Len(log) :
                             2 * Cardinality(has(k)) > Cardinality(node[p].conf)})

\* The leader commits and applies what its peers' progress allows.  A peer
\* that enters or leaves the configuration has no progress.
Advance(p, progress) ==
    LET k == QuorumIndex(p, progress) IN
    /\ commit' = k
    /\ node' = [node EXCEPT ![p] = ApplyUpTo(@, k)]
    /\ Complete(p, k)
    /\ match' = [i \in Id |-> IF (i \in node[p].conf) = (i \in node'[p].conf)
                              THEN progress[i] ELSE 0]

\* What the leader can commit without an answer: it is the only voter.
Commit(p) ==
    /\ Running(p) /\ IsLeader(p) /\ QuorumIndex(p, match) > commit
    /\ Advance(p, match)
    /\ UNCHANGED <<listening, mailbox, log, countVars>>

\* A message to peer i would tell it something, fail, or fill a mailbox that
\* nobody reads.  Nothing is under way between the two; other heartbeats
\* change nothing and are left out.
Due(p, i) ==
    LET q == node[p].peers[i] IN
    \/ ~Reachable(p, i) \/ ~Running(q)
    \/ /\ \/ match[i] < Len(log) \/ node[q].applied < commit
          \/ node[q].lead # node[p].id
       /\ ~ \E k \in DOMAIN mailbox[p] : mailbox[p][k].type = "response"
                                          /\ mailbox[p][k].from = i
       /\ ~ \E k \in DOMAIN mailbox[q] : mailbox[q][k].type = "append"

\* The leader sends entries or a heartbeat to peer i.  A send that fails ends
\* the loop; with heartbeats alone, one to a peer that does not read will
\* not return some day.
Send(p, i) ==
    LET q == node[p].peers[i] IN
    /\ Running(p) /\ IsLeader(p)
    /\ i \in node[p].conf \ {node[p].id} /\ Due(p, i)
    /\ \/ /\ Reachable(p, i) /\ Running(q)
          /\ mailbox' = With(mailbox, q, AppendMsg(node[p].id, Len(log), commit))
          /\ UNCHANGED <<node, early>>
       \/ /\ Reachable(p, i) /\ ~Running(q)
          /\ Hang(p)
          /\ UNCHANGED early
       \/ /\ ~Reachable(p, i)
          /\ Halt(p)
          /\ early' = IF q # None /\ node[q].state # "crashed"
                      THEN early \cup {q} ELSE early
    /\ UNCHANGED <<listening, join, raftVars, task, faults, blind>>

\* A follower applies what is committed of the entries it had, stores the new
\* ones, answers, then applies what is committed of those.  An answer that
\* cannot be sent ends the loop, one that nobody reads may leave it stuck.
HandleAppend(p, m) ==
    LET q == node[p].peers[m.from]
        n == [node[p] EXCEPT !.role = "follower", !.lead = m.from,
                             !.have = IF @ < m.upto THEN m.upto ELSE @]
        k == IF n.applied < m.commit THEN m.commit ELSE n.applied
        j == IF k < node[p].have THEN k ELSE node[p].have
    IN
    /\ m.type = "append"
    /\ \/ /\ Reachable(p, m.from)
          /\ node' = [node EXCEPT ![p] = ApplyUpTo(n, k)]
          /\ Complete(p, k)
          /\ mailbox' = With(Without(p), q, ResponseMsg(node[p].id, n.have))
       \/ /\ ~Reachable(p, m.from)
          /\ node' = [node EXCEPT ![p] = [ApplyUpTo(n, j) EXCEPT !.state = "halted"]]
          /\ Complete(p, j)
          /\ mailbox' = Emptied(p)
       \/ /\ Reachable(p, m.from) /\ ~Running(q)
          /\ node' = [node EXCEPT ![p] = [ApplyUpTo(n, j) EXCEPT !.state = "stuck"]]
          /\ Complete(p, j)
          /\ mailbox' = Emptied(p)
    /\ UNCHANGED raftVars

\* raft-rs refuses the answer of a peer that is not in the configuration,
\* and the refusal ends the loop.
HandleResponse(p, m) ==
    /\ m.type = "response"
    /\ \/ /\ m.from \notin node[p].conf
          /\ Halt(p) /\ UNCHANGED <<commit, match, task, join>>
       \/ /\ m.from \in node[p].conf /\ IsLeader(p)
          /\ Advance(p, [match EXCEPT ![m.from] = Max({@, m.upto})])
          /\ mailbox' = Without(p)
       \/ /\ m.from \in node[p].conf /\ ~IsLeader(p)
          /\ mailbox' = Without(p) /\ UNCHANGED <<node, commit, match, task, join>>
    /\ UNCHANGED log

\* A forwarded proposal: the leader appends it.  A founder that has stepped
\* down knows no leader: raft-rs drops the proposal, which ends the loop.
\* Nobody else is ever taken for the leader.
HandlePropose(p, m) ==
    /\ m.type = "propose"
    /\ \/ /\ IsLeader(p)
          /\ log' = Append(log, CommandEntry(m.cmd))
          /\ node' = Stored(p) /\ mailbox' = Without(p)
       \/ /\ ~IsLeader(p)
          /\ Halt(p) /\ UNCHANGED log
    /\ UNCHANGED <<commit, match, task, join>>

Handle(p) ==
    /\ Running(p) /\ mailbox[p] # <<>>
    /\ LET m == Head(mailbox[p]) IN
       HandleAppend(p, m) \/ HandleResponse(p, m) \/ HandlePropose(p, m)
    /\ UNCHANGED <<listening, countVars>>

\* Nobody who leads sends to p.
Silent(p) == ~ /\ Running(Founder) /\ IsLeader(Founder)
               /\ node[p].id \in node[Founder].conf
               /\ node[Founder].peers[node[p].id] = p

\* The election time-out of a voter: it becomes a PreCandidate, forgets the
\* leader and asks nobody.  Its role stays Follower for everybody else.
Timeout(p) ==
    /\ Running(p) /\ node[p].role = "follower" /\ node[p].id \in node[p].conf
    /\ IF Silent(p) THEN UNCHANGED faults ELSE Fault("delay")
    /\ node' = [node EXCEPT ![p].role = "precandidate", ![p].lead = 0]
    /\ UNCHANGED <<listening, join, mailbox, raftVars, task, blind, early>>

QuorumAlive(p) ==
    LET alive == {i \in node[p].conf :
                    \/ i = node[p].id
                    \/ node[p].peers[i] # None /\ Running(node[p].peers[i])}
    IN 2 * Cardinality(alive) > Cardinality(node[p].conf)

\* check_quorum: a leader that does not hear from a quorum steps down.
StepDown(p) ==
    /\ Running(p) /\ IsLeader(p) /\ node[p].conf # {node[p].id}
    /\ IF QuorumAlive(p) THEN Fault("delay") ELSE UNCHANGED faults
    /\ node' = [node EXCEPT ![p].role = "follower", ![p].lead = 0]
    /\ UNCHANGED <<listening, join, mailbox, raftVars, task, blind, early>>

\* The process stops.
Crash(p) ==
    /\ Alive(p)
    /\ Fault("crash")
    /\ node' = [node EXCEPT ![p] = [Off EXCEPT !.state = "crashed", !.id = node[p].id]]
    /\ listening' = listening \ {p}
    /\ mailbox' = Emptied(p)
    /\ task' = [c \in Command |-> IF task[c].at = p THEN Over("gone") ELSE task[c]]
    /\ UNCHANGED <<join, raftVars, blind, early>>

-----------------------------------------------------------------------------
\* ProposalRouter.

\* run_leader_tracker: a former leader asks the node who leads now.
TrackLeader(p) ==
    /\ Free(p)
    /\ node[p].cache = node[p].id /\ ~IsLeader(p)
    /\ node' = [node EXCEPT ![p].cache = node[p].lead]
    /\ UNCHANGED <<listening, join, mailbox, raftVars, task, countVars>>

\* Mutant of Failed: a forward that failed is tried again.
MutTryAgain(p) == [pc |-> "retry", at |-> p]

\* The caller gets the error of the transport.
Failed(p) == Over("error")

\* forward_to_leader: register the completion, then send.  The send may
\* fail although the leader has got the message; one that does not return
\* leaves the caller waiting.  NotLeader if l is p itself.
forward_to_leader(c, p, l) ==
    \/ /\ l # node[p].id /\ Reachable(p, l)
       /\ mailbox' = With(mailbox, node[p].peers[l], ProposeMsg(c))
       /\ task' \in {[task EXCEPT ![c] = [pc |-> "wait", at |-> p]],
                     [task EXCEPT ![c] = Failed(p)]}
    \/ /\ l # node[p].id /\ ~Reachable(p, l)
       /\ task' = [task EXCEPT ![c] = Failed(p)]
       /\ UNCHANGED mailbox
    \/ /\ l = node[p].id
       /\ task' = [task EXCEPT ![c] = Over("error")]
       /\ UNCHANGED mailbox

\* propose at the leader: the node proposes itself, even if its loop has
\* ended.
propose_locally(c, p) ==
    /\ task[c].pc = "none" /\ Free(p) /\ IsLeader(p)
    /\ task' = [task EXCEPT ![c] = [pc |-> "wait", at |-> p]]
    /\ log' = IF Running(p) THEN Append(log, CommandEntry(c)) ELSE log
    /\ node' = Stored(p)
    /\ UNCHANGED <<listening, join, mailbox, commit, match, countVars>>

\* propose elsewhere: to the cached leader, else to the one the node knows,
\* which is cached; else it waits for one.
propose(c, p) ==
    LET n == node[p]  l == IF n.cache # 0 THEN n.cache ELSE n.lead IN
    /\ task[c].pc = "none" /\ Free(p) /\ ~IsLeader(p)
    /\ node' = [node EXCEPT ![p].cache = l]
    /\ IF l # 0 THEN forward_to_leader(c, p, l)
       ELSE /\ task' = [task EXCEPT ![c] = [pc |-> "retry", at |-> p]]
            /\ UNCHANGED mailbox
    /\ UNCHANGED <<listening, join, raftVars, countVars>>

\* The back-off of two seconds ends with a leader or with NotLeader.
Retry(c) ==
    LET p == task[c].at  l == node[p].lead IN
    /\ task[c].pc = "retry" /\ Free(p)
    /\ node' = [node EXCEPT ![p].cache = IF l # 0 THEN l ELSE @]
    /\ IF l # 0 THEN forward_to_leader(c, p, l)
       ELSE task' = [task EXCEPT ![c] = Over("error")] /\ UNCHANGED mailbox
    /\ UNCHANGED <<listening, join, raftVars, countVars>>

-----------------------------------------------------------------------------
Next ==
    \/ \E p \in Process : \E S \in Discoveries : \E q \in S : Join(p, S, q)
    \/ \E p \in Process : \/ Listen(p) \/ add_node(p) \/ Commit(p) \/ Handle(p)
                          \/ Timeout(p) \/ StepDown(p) \/ Crash(p) \/ TrackLeader(p)
    \/ \E p \in Process, i \in Id : Send(p, i) \/ remove_node(p, i)
    \/ \E c \in Command, p \in Process : propose_locally(c, p) \/ propose(c, p)
    \/ \E c \in Command : Retry(c)

Spec == Init /\ [][Next]_vars

\* What a process does without a message to handle or to send; it happens
\* finitely often.  A time-out is owed when it is due, not when it is a fault.
OwnStep(p) ==
    \/ Listen(p) \/ add_node(p) \/ Commit(p) \/ TrackLeader(p)
    \/ Silent(p) /\ Timeout(p)
    \/ ~QuorumAlive(p) /\ StepDown(p)

\* Every event loop runs every tick, tasks that can go on do, a time-out
\* that is due fires.  Only the founder, who has id 1, sends as a leader.
\* Nobody owes a join, a proposal, a removal, a crash or a delay.
Fairness ==
    /\ \A p \in Process : WF_vars(Handle(p))
    /\ \A i \in Id \ {1} : WF_vars(\E p \in Process : Send(p, i))
    /\ WF_vars((\E p \in Process : OwnStep(p)) \/ \E c \in Command : Retry(c))

FairSpec == Spec /\ Fairness

-----------------------------------------------------------------------------
AllIdsDiffer ==
    \A p, q \in Process : (p # q /\ node[p].id # 0) => node[p].id # node[q].id

Crashed == {p \in Process : node[p].state = "crashed"}

(***************************************************************************)
(* An event loop ends only for one of these reasons.  Anybody's: a process *)
(* has stopped, and a send to it fails.  A joining process's: it had not   *)
(* discovered the leader and cannot answer it.  The leader's: it sends to  *)
(* a process that does not listen yet, gets the answer of a node it has    *)
(* removed, or, having stepped down, a proposal; to step down takes a      *)
(* fault or two joining processes of that kind.  Joining, forwarding and   *)
(* configuration changes alone never end one, not even with equal ids.     *)
(* And a loop is stuck only where another one has ended.                   *)
(***************************************************************************)
LoopsEndForAReason ==
    \A p \in Process :
        /\ node[p].state = "halted" =>
              \/ "crash" \in faults \/ p \in blind
              \/ p = Founder /\ (\/ early # {} \/ faults # {}
                                 \/ \E q1, q2 \in blind : q1 # q2)
        /\ node[p].state = "stuck" =>
              "crash" \in faults \/ \E q \in Process : node[q].state = "halted"

(***************************************************************************)
(* A command is in the log at most once, whatever becomes of the messages, *)
(* and a caller that is told of success finds its command applied on its   *)
(* own node.                                                               *)
(***************************************************************************)
ProposalOutcome ==
    \A c \in Command :
        LET at == {k \in DOMAIN log : log[k] = CommandEntry(c)} IN
        /\ Cardinality(at) <= 1
        /\ task[c].pc = "ok" => \E k \in at : k <= node[task[c].at].applied

\* The configuration the committed entries lead to.
Voters == {log[k].id : k \in {j \in 1..commit : log[j].type = "add"}}
          \ {log[k].id : k \in {j \in 1..commit : log[j].type = "remove"}}

\* The group can make no progress, or p does not take part in it.
Stalled(p) ==
    \/ ~Running(p) \/ ~Running(Founder) \/ ~IsLeader(Founder)
    \/ Silent(p) /\ p # Founder

(***************************************************************************)
(* A proposal that was handed on is completed, unless the loop of the      *)
(* leader or the caller's own has ended or is stuck, the leader has        *)
(* stepped down, or the caller is no member of the group.                  *)
(***************************************************************************)
ProposalsEnd ==
    \A c \in Command :
        task[c].pc = "wait" ~> task[c].pc # "wait" \/ Stalled(task[c].at)

\* Something else than a stopped process keeps a proposal of p waiting.
OtherTrouble(p) ==
    \/ blind # {} \/ early # {} \/ ~AllIdsDiffer \/ faults \ {"crash"} # {}
    \/ p # Founder /\ join[p].pc # "done"

(***************************************************************************)
(* While less than half of the voters have stopped, a proposal on another  *)
(* member is completed.  docs/QUICKSTART.md:583 says of the architecture:  *)
(* "Survives minority node failures per cluster".                          *)
(***************************************************************************)
SurvivesMinorityFailure ==
    \A c \in Command :
        task[c].pc = "wait"
        ~> \/ task[c].pc # "wait" \/ OtherTrouble(task[c].at)
           \/ 2 * Cardinality(Crashed) >= Cardinality(Voters)
=============================================================================
