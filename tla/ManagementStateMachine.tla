----------------------- MODULE ManagementStateMachine -----------------------
(***************************************************************************)
(* The replicated state of the management cluster                          *)
(* (src/management/state_machine.rs) and the decisions of the              *)
(* ClusterManager on it (src/management/cluster_manager.rs), as operators. *)
(*                                                                         *)
(* A decision is a sequence of commands, because execute_actions turns     *)
(* each action into the command that is proposed.  Where the code takes    *)
(* the first of equals in the order of a HashMap, the operator returns the *)
(* set of all decisions that order allows.  Addresses are only present or  *)
(* absent, and of the metadata only the key "draining" has a reader.       *)
(***************************************************************************)
EXTENDS Naturals, Sequences, FiniteSets, SequencesExt

CONSTANTS Node,            \* node ids; a split moves the lowest
          None,            \* the absent entry of a map
          TargetSize, MinSize, MaxSize, SplitSize, MinClusterCount,
          DrainNum, DrainDen  \* drain_threshold = DrainNum / DrainDen

ASSUME ManagementAssumption ==
    /\ Node \subseteq Nat /\ IsFiniteSet(Node)
    /\ None \notin Node
    /\ {TargetSize, MinSize, MaxSize, SplitSize, MinClusterCount,
        DrainNum, DrainDen} \subseteq Nat
    /\ DrainDen > 0

DrainValue == {None, "true", "false"}

SubCluster == [nodes : Seq(Node), draining : DrainValue]

\* Commands.  DeleteMetadata is SetMetadata with the value None.
CreateCommand   == [type : {"Create"}, nodes : Seq(Node)]
DeleteCommand   == [type : {"Delete"}, cluster : Nat]
MemberCommand   == [type : {"Add", "Remove"}, cluster : Nat, node : Node]
MetadataCommand == [type : {"Metadata"}, cluster : Nat, value : DrainValue]
RegisterCommand == [type : {"Register"}, node : Node]

Command == CreateCommand \cup DeleteCommand \cup MemberCommand
             \cup MetadataCommand \cup RegisterCommand

CreateSubCluster(ids)  == [type |-> "Create", nodes |-> ids]
DeleteSubCluster(c)    == [type |-> "Delete", cluster |-> c]
AddNode(c, n)          == [type |-> "Add", cluster |-> c, node |-> n]
RemoveNode(c, n)       == [type |-> "Remove", cluster |-> c, node |-> n]
SetMetadata(c, v)      == [type |-> "Metadata", cluster |-> c, value |-> v]
RegisterNodeAddress(n) == [type |-> "Register", node |-> n]

\* ManagementStateMachine::new: id 0 is the management cluster's.
NewState == [clusters |-> [c \in {} |-> None], next |-> 1, addresses |-> {}]

-----------------------------------------------------------------------------
(***************************************************************************)
(* apply()                                                                 *)
(***************************************************************************)
\* apply() returns Ok: only commands to an existing sub-cluster can fail.
Succeeds(s, c) ==
    c.type \in {"Create", "Delete", "Register"} \/ c.cluster \in DOMAIN s.clusters

With(s, c, sub) ==
    [s EXCEPT !.clusters = [d \in DOMAIN @ \cup {c} |-> IF d = c THEN sub ELSE @[d]]]

Without(s, c) ==
    [s EXCEPT !.clusters = [d \in DOMAIN @ \ {c} |-> @[d]]]

\* Mutant of ApplyCreate: the counter is not advanced.
MutCreateKeepsCounter(s, ids) == With(s, s.next, [nodes |-> ids, draining |-> None])

ApplyCreate(s, ids) ==
    [With(s, s.next, [nodes |-> ids, draining |-> None]) EXCEPT !.next = @ + 1]

ApplyAdd(s, c, n) ==
    LET sub == s.clusters[c]
    IN  IF n \in Range(sub.nodes) THEN s
        ELSE With(s, c, [sub EXCEPT !.nodes = Append(@, n)])

\* retain(|id| id != node_id)
Retain(ids, n) == FlattenSeq([i \in DOMAIN ids |-> IF ids[i] = n THEN <<>> ELSE <<ids[i]>>])

ApplyRemove(s, c, n) ==
    LET sub == s.clusters[c]
    IN  With(s, c, [sub EXCEPT !.nodes = Retain(@, n)])

ApplyMetadata(s, c, v) == With(s, c, [s.clusters[c] EXCEPT !.draining = v])

ApplyManagement(s, c) ==
    IF ~Succeeds(s, c) THEN s
    ELSE CASE c.type = "Create"   -> ApplyCreate(s, c.nodes)
           [] c.type = "Delete"   -> Without(s, c.cluster)
           [] c.type = "Register" -> [s EXCEPT !.addresses = @ \cup {c.node}]
           [] c.type = "Add"      -> ApplyAdd(s, c.cluster, c.node)
           [] c.type = "Remove"   -> ApplyRemove(s, c.cluster, c.node)
           [] c.type = "Metadata" -> ApplyMetadata(s, c.cluster, c.value)

\* The events of an application.  An event has the fields of its command,
\* and SubClusterCreated the id that was assigned.
Events(s, c) ==
    CASE ~Succeeds(s, c) \/ c.type = "Register" -> <<>>
      [] c.type = "Create" -> <<[type |-> "Created", cluster |-> s.next, nodes |-> c.nodes]>>
      [] OTHER -> <<c>>

\* Mutant of Snapshot: the counter is not part of the snapshot.
MutSnapshotWithoutNext(s) ==
    [clusters |-> s.clusters, next |-> 1, addresses |-> s.addresses]

\* Mutant of Snapshot: the addresses are left out (restore() would default them).
MutSnapshotWithoutAddresses(s) ==
    [clusters |-> s.clusters, next |-> s.next, addresses |-> {}]

\* snapshot() and restore() carry all three fields.
Snapshot(s) ==
    [clusters |-> s.clusters, next |-> s.next, addresses |-> s.addresses]

-----------------------------------------------------------------------------
(***************************************************************************)
(* ClusterManager                                                          *)
(***************************************************************************)
Size(s, c) == Len(s.clusters[c].nodes)

\* is_draining
Active(s) == {c \in DOMAIN s.clusters : s.clusters[c].draining # "true"}

Smallest(s, C) == {c \in C : \A d \in C : Size(s, c) <= Size(s, d)}

Largest(s, C) == {c \in C : \A d \in C : Size(s, d) <= Size(s, c)}

\* Mutant of decide_node_placement: no new cluster once there is one.
MutPlacementGivesUp(s, n) ==
    LET small == {c \in Smallest(s, Active(s)) : Size(s, c) < TargetSize}
    IN  IF DOMAIN s.clusters = {} THEN {<<CreateSubCluster(<<n>>)>>}
        ELSE IF small = {} THEN {<<>>}
        ELSE {<<AddNode(c, n)>> : c \in small}

decide_node_placement(s, n) ==
    LET small == {c \in Smallest(s, Active(s)) : Size(s, c) < TargetSize}
    IN  IF small = {} THEN {<<CreateSubCluster(<<n>>)>>} ELSE {<<AddNode(c, n)>> : c \in small}

\* Vec::sort, one id after the other at its place among the ids before it.
InsertId(ids, n) ==
    LET k == Cardinality({i \in DOMAIN ids : ids[i] <= n})
    IN  SubSeq(ids, 1, k) \o <<n>> \o SubSeq(ids, k + 1, Len(ids))

Sort(ids) ==
    LET prefix[i \in 0 .. Len(ids)] ==
            IF i = 0 THEN <<>> ELSE InsertId(prefix[i - 1], ids[i])
    IN  prefix[Len(ids)]

\* The lowest SplitSize nodes get a cluster of their own, then they are
\* removed, one command each, from the old one.
Split(s, c) ==
    LET sorted == Sort(s.clusters[c].nodes)
        moved  == SubSeq(sorted, 1, IF SplitSize < Len(sorted) THEN SplitSize ELSE Len(sorted))
    IN  <<CreateSubCluster(moved)>> \o [i \in DOMAIN moved |-> RemoveNode(c, moved[i])]

decide_splits(s) ==
    LET full == {c \in Active(s) : Size(s, c) >= MaxSize}
    IN  {FlattenSeq([i \in DOMAIN p |-> Split(s, p[i])]) : p \in SetToSeqs(full)}

\* Every undersized cluster gets the same node: the first of the largest.
decide_rebalancing(s) ==
    LET under == {c \in Active(s) : Size(s, c) < MinSize}
        over  == Largest(s, {c \in Active(s) : Size(s, c) > TargetSize})
    IN  IF over = {} THEN {<<>>}
        ELSE UNION {{[i \in DOMAIN p |-> AddNode(p[i], Head(s.clusters[o].nodes))]
                        : p \in SetToSeqs(under)} : o \in over}

TotalNodes(s) ==
    FoldFunction(LAMBDA sub, sum : Len(sub.nodes) + sum, 0, s.clusters)

\* The clusters one of which is drained, by the ratio of clusters to nodes.
ToDrain(s) ==
    IF /\ TotalNodes(s) > 0
       /\ Cardinality(DOMAIN s.clusters) > MinClusterCount
       /\ Cardinality(DOMAIN s.clusters) * DrainDen > DrainNum * TotalNodes(s)
       /\ Cardinality(Active(s)) > MinClusterCount
    THEN Smallest(s, Active(s)) ELSE {}

decide_consolidation(s) ==
    LET empty == {c \in DOMAIN s.clusters \ Active(s) : s.clusters[c].nodes = <<>>}
        drain == IF ToDrain(s) = {} THEN {<<>>}
                 ELSE {<<SetMetadata(c, "true")>> : c \in ToDrain(s)}
    IN  UNION {{[i \in DOMAIN p |-> DeleteSubCluster(p[i])] \o d : p \in SetToSeqs(empty)}
                  : d \in drain}
=============================================================================
