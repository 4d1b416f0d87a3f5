-------------------- MODULE ManagementStateMachineProofs --------------------
(* What the operators of ManagementStateMachine compute, for every input. *)
EXTENDS ManagementStateMachine, FiniteSetTheorems, SequenceTheorems,
        WellFoundedInduction, TLAPS

-----------------------------------------------------------------------------
(* Sequences *)

\* A set of natural numbers has a least one: the form of induction used here,
\* on the least number for which a fact would fail.
LEMMA LeastNumber ==
    ASSUME NEW T \in SUBSET Nat, T # {}
    PROVE  \E x \in T : \A y \in T : x <= y
<1>1. IsWellFoundedOn(OpToRel(<, Nat), Nat)
  BY NatLessThanWellFounded
<1>2. PICK x \in T : \A y \in T : ~ (<<y, x>> \in OpToRel(<, Nat))
  BY <1>1, WFMin
<1>3. \A y \in T : ~ (y < x)
  BY <1>2 DEF OpToRel
<1>4. QED BY <1>3

\* A sequence of one.
LEMMA SingletonSeq ==
    ASSUME NEW S, NEW x \in S
    PROVE  <<x>> \in Seq(S)
OBVIOUS

\* The functions that satisfy the recursion of FlattenSeq up to n.
Flattens(f, seqs, n) ==
    f = [i \in 1 .. n |-> IF i = 1 THEN seqs[i] ELSE f[i - 1] \o seqs[i]]

\* There is one for every n.
LEMMA FlattenExists ==
    ASSUME NEW seqs, NEW n \in Nat
    PROVE  \E f : Flattens(f, seqs, n)
<1> DEFINE Bad == {k \in Nat : ~ \E f : Flattens(f, seqs, k)}
<1>1. SUFFICES ASSUME Bad # {} PROVE FALSE
  OBVIOUS
<1>2. PICK k \in Bad : \A y \in Bad : k <= y
  BY <1>1, LeastNumber
<1>3. k # 0
  <2>1. Flattens([i \in 1 .. 0 |-> 0], seqs, 0)
    BY DEF Flattens
  <2>2. QED BY <2>1
<1>4. k - 1 \in Nat /\ k - 1 \notin Bad
  BY <1>2, <1>3
<1>5. PICK f : Flattens(f, seqs, k - 1)
  BY <1>4
<1> DEFINE g == [i \in 1 .. k |-> IF i = k THEN IF i = 1 THEN seqs[i] ELSE f[i - 1] \o seqs[i]
                                           ELSE f[i]]
<1>6. \A i \in 1 .. k : g[i] = IF i = 1 THEN seqs[i] ELSE g[i - 1] \o seqs[i]
  <2> SUFFICES ASSUME NEW i \in 1 .. k
               PROVE  g[i] = IF i = 1 THEN seqs[i] ELSE g[i - 1] \o seqs[i]
    OBVIOUS
  <2>1. CASE i = k
    <3>1. i # 1 => g[i - 1] = f[i - 1]
      BY <1>2, <2>1
    <3>2. QED BY <2>1, <3>1
  <2>2. CASE i # k
    <3>1. i \in 1 .. k - 1
      BY <1>2, <2>2
    <3>2. f[i] = IF i = 1 THEN seqs[i] ELSE f[i - 1] \o seqs[i]
      BY <1>5, <3>1 DEF Flattens
    <3>3. i # 1 => g[i - 1] = f[i - 1]
      BY <1>2, <2>2
    <3>4. g[i] = f[i]
      BY <2>2
    <3>5. QED BY <3>2, <3>3, <3>4
  <2>3. QED BY <2>1, <2>2
<1>7. Flattens(g, seqs, k)
  BY <1>6 DEF Flattens
<1>8. QED BY <1>2, <1>7

\* What FlattenSeq returns is what such a function has for the last position.
LEMMA FlattenDefined ==
    ASSUME NEW seqs, Len(seqs) \in Nat \ {0}
    PROVE  \E f : Flattens(f, seqs, Len(seqs)) /\ FlattenSeq(seqs) = f[Len(seqs)]
<1> DEFINE n == Len(seqs)
           f[i \in 1 .. Len(seqs)] == IF i = 1 THEN seqs[i] ELSE f[i - 1] \o seqs[i]
<1>1. FlattenSeq(seqs) = f[Len(seqs)]
  BY DEF FlattenSeq
<1>2. \E g : g = [i \in 1 .. Len(seqs) |-> IF i = 1 THEN seqs[i] ELSE g[i - 1] \o seqs[i]]
  BY FlattenExists DEF Flattens
<1>3. f = [i \in 1 .. Len(seqs) |-> IF i = 1 THEN seqs[i] ELSE f[i - 1] \o seqs[i]]
  BY <1>2, Zenon
<1>4. QED BY <1>1, <1>3 DEF Flattens

\* FlattenSeq returns a sequence of the members of the sequences it is given,
\* all of them and no other.
LEMMA FlattenSeqProperties ==
    ASSUME NEW S, NEW seqs \in Seq(Seq(S))
    PROVE  /\ FlattenSeq(seqs) \in Seq(S)
           /\ Range(FlattenSeq(seqs)) = UNION {Range(seqs[i]) : i \in DOMAIN seqs}
<1> DEFINE n == Len(seqs)
<1>1. n \in Nat /\ DOMAIN seqs = 1 .. n /\ \A i \in 1 .. n : seqs[i] \in Seq(S)
  OBVIOUS
<1>2. CASE n = 0
  <2>1. seqs = <<>> /\ FlattenSeq(seqs) = seqs
    BY <1>2 DEF FlattenSeq
  <2>2. seqs \in Seq(S) /\ Range(seqs) = {} /\ DOMAIN seqs = {}
    BY <2>1 DEF Range
  <2>3. QED BY <2>1, <2>2
<1>3. CASE n # 0
  <2>1. PICK f : Flattens(f, seqs, n) /\ FlattenSeq(seqs) = f[n]
    BY <1>1, <1>3, FlattenDefined
  <2> DEFINE Good(k) == /\ f[k] \in Seq(S)
                        /\ \A x : x \in Range(f[k]) <=> \E i \in 1 .. k : x \in Range(seqs[i])
             Bad == {k \in 1 .. n : ~ Good(k)}
  <2>2. \A k \in 1 .. n : f[k] = IF k = 1 THEN seqs[k] ELSE f[k - 1] \o seqs[k]
    BY <2>1 DEF Flattens
  <2> HIDE DEF Good
  <2>3. ASSUME Bad # {} PROVE FALSE
    <3>1. Bad \in SUBSET Nat
      BY <1>1
    <3>2. PICK k \in Bad : \A y \in Bad : k <= y
      BY <2>3, <3>1, LeastNumber
    <3>3. CASE k = 1
      <4>1. f[1] = seqs[1] /\ 1 .. 1 = {1}
        BY <2>2, <3>2, <3>3
      <4>2. Good(1)
        BY <1>1, <4>1, <3>2, <3>3 DEF Good
      <4>3. QED BY <3>2, <3>3, <4>2
    <3>4. CASE k # 1
      <4>1. k - 1 \in 1 .. n /\ k \in 1 .. n /\ k - 1 \notin Bad
        BY <1>1, <3>2, <3>4
      <4>2. Good(k - 1)
        BY <4>1
      <4>3. f[k] = f[k - 1] \o seqs[k] /\ seqs[k] \in Seq(S)
        BY <1>1, <2>2, <3>4, <4>1
      <4>4. f[k - 1] \in Seq(S) /\ f[k] \in Seq(S)
        BY <4>2, <4>3 DEF Good
      <4>5. Range(f[k]) = Range(f[k - 1]) \cup Range(seqs[k])
        BY <4>3, <4>4, RangeConcatenation
      <4>6. 1 .. k = (1 .. k - 1) \cup {k}
        BY <4>1
      <4>7. Good(k)
        BY <4>2, <4>4, <4>5, <4>6 DEF Good
      <4>8. QED BY <3>2, <4>7
    <3>5. QED BY <3>3, <3>4
  <2>4. Good(n)
    BY <1>1, <1>3, <2>3
  <2>5. QED BY <1>1, <2>1, <2>4 DEF Good
<1>4. QED BY <1>2, <1>3

\* Vec::retain drops the id and keeps every other.
LEMMA RetainProperties ==
    ASSUME NEW S, NEW ids \in Seq(S), NEW n
    PROVE  Retain(ids, n) \in Seq(S) /\ Range(Retain(ids, n)) = Range(ids) \ {n}
<1> DEFINE parts == [i \in DOMAIN ids |-> IF ids[i] = n THEN <<>> ELSE <<ids[i]>>]
<1>1. DOMAIN ids = 1 .. Len(ids) /\ Len(ids) \in Nat /\ \A i \in DOMAIN ids : ids[i] \in S
  OBVIOUS
<1>2. \A i \in 1 .. Len(ids) : parts[i] \in Seq(S)
  BY <1>1
<1>3. parts \in Seq(Seq(S)) /\ DOMAIN parts = DOMAIN ids
  BY <1>1, <1>2
<1>4. \A i \in DOMAIN ids : Range(parts[i]) = {ids[i]} \ {n}
  BY <1>1 DEF Range
<1> HIDE DEF parts
<1>5. FlattenSeq(parts) \in Seq(S)
      /\ Range(FlattenSeq(parts)) = UNION {Range(parts[i]) : i \in DOMAIN parts}
  BY <1>3, FlattenSeqProperties
<1>6. UNION {Range(parts[i]) : i \in DOMAIN parts} = Range(ids) \ {n}
  <2>1. UNION {Range(parts[i]) : i \in DOMAIN parts} = UNION {{ids[i]} \ {n} : i \in DOMAIN ids}
    BY <1>3, <1>4
  <2>2. Range(ids) = {ids[i] : i \in DOMAIN ids}
    BY DEF Range
  <2>3. ASSUME NEW x
        PROVE  x \in UNION {{ids[i]} \ {n} : i \in DOMAIN ids}
                 <=> \E i \in DOMAIN ids : x = ids[i] /\ x # n
    <3>1. \A i \in DOMAIN ids : x \in {ids[i]} \ {n} <=> x = ids[i] /\ x # n
      OBVIOUS
    <3>2. x \in UNION {{ids[i]} \ {n} : i \in DOMAIN ids}
            <=> \E i \in DOMAIN ids : x \in {ids[i]} \ {n}
      OBVIOUS
    <3>3. QED BY <3>1, <3>2
  <2>4. \A x : x \in Range(ids) \ {n} <=> \E i \in DOMAIN ids : x = ids[i] /\ x # n
    BY <2>2
  <2>5. QED BY <2>1, <2>3, <2>4
<1>7. QED BY <1>5, <1>6 DEF Retain, parts

\* An id is inserted at one of the Len(ids) + 1 places.
LEMMA InsertIdType ==
    ASSUME NEW S, NEW ids \in Seq(S), NEW n \in S
    PROVE  InsertId(ids, n) \in Seq(S)
<1> DEFINE before == {i \in DOMAIN ids : ids[i] <= n}
           k == Cardinality(before)
<1>1. Len(ids) \in Nat /\ before \subseteq 1 .. Len(ids)
  OBVIOUS
<1>2. IsFiniteSet(1 .. Len(ids)) /\ Cardinality(1 .. Len(ids)) = Len(ids)
  BY <1>1, FS_Interval
<1>3. IsFiniteSet(before) /\ k \in Nat /\ k <= Len(ids)
  BY <1>1, <1>2, FS_Subset, FS_CardinalityType
<1> HIDE DEF k
<1>4. \A i \in 1 .. Len(ids) : ids[i] \in S
  OBVIOUS
<1>5. SubSeq(ids, 1, k) \in Seq(S)
  BY <1>1, <1>3, <1>4, SubSeqProperties
<1>6. SubSeq(ids, k + 1, Len(ids)) \in Seq(S)
  <2>1. \A i \in k + 1 .. Len(ids) : ids[i] \in S
    BY <1>1, <1>3, <1>4
  <2>2. QED BY <1>1, <1>3, <2>1, SubSeqProperties
<1>7. SubSeq(ids, 1, k) \o <<n>> \o SubSeq(ids, k + 1, Len(ids)) \in Seq(S)
  BY <1>5, <1>6
<1>8. QED BY <1>7 DEF InsertId, k

\* The functions that satisfy the recursion of Sort up to n.
Sorts(f, ids, n) ==
    f = [i \in 0 .. n |-> IF i = 0 THEN <<>> ELSE InsertId(f[i - 1], ids[i])]

\* There is one for every n.
LEMMA SortExists ==
    ASSUME NEW ids, NEW n \in Nat
    PROVE  \E f : Sorts(f, ids, n)
<1> DEFINE Bad == {k \in Nat : ~ \E f : Sorts(f, ids, k)}
<1>1. SUFFICES ASSUME Bad # {} PROVE FALSE
  OBVIOUS
<1>2. PICK k \in Bad : \A y \in Bad : k <= y
  BY <1>1, LeastNumber
<1>3. k # 0
  <2>1. Sorts([i \in 0 .. 0 |-> <<>>], ids, 0)
    BY DEF Sorts
  <2>2. QED BY <2>1
<1>4. k - 1 \in Nat /\ k - 1 \notin Bad
  BY <1>2, <1>3
<1>5. PICK f : Sorts(f, ids, k - 1)
  BY <1>4
<1> DEFINE g == [i \in 0 .. k |-> IF i = k THEN InsertId(f[i - 1], ids[i]) ELSE f[i]]
<1>6. \A i \in 0 .. k : g[i] = IF i = 0 THEN <<>> ELSE InsertId(g[i - 1], ids[i])
  <2> SUFFICES ASSUME NEW i \in 0 .. k
               PROVE  g[i] = IF i = 0 THEN <<>> ELSE InsertId(g[i - 1], ids[i])
    OBVIOUS
  <2>1. CASE i = k
    <3>1. g[i - 1] = f[i - 1] /\ i # 0
      BY <1>2, <1>3, <2>1
    <3>2. QED BY <2>1, <3>1
  <2>2. CASE i # k
    <3>1. i \in 0 .. k - 1
      BY <1>2, <2>2
    <3>2. f[i] = IF i = 0 THEN <<>> ELSE InsertId(f[i - 1], ids[i])
      BY <1>5, <3>1 DEF Sorts
    <3>3. i # 0 => g[i - 1] = f[i - 1]
      BY <1>2, <2>2
    <3>4. g[i] = f[i]
      BY <2>2
    <3>5. QED BY <3>2, <3>3, <3>4
  <2>3. QED BY <2>1, <2>2
<1>7. Sorts(g, ids, k)
  BY <1>6 DEF Sorts
<1>8. QED BY <1>2, <1>7

\* Vec::sort returns ids of the list.
LEMMA SortType ==
    ASSUME NEW S, NEW ids \in Seq(S)
    PROVE  Sort(ids) \in Seq(S)
<1> DEFINE f[i \in 0 .. Len(ids)] == IF i = 0 THEN <<>> ELSE InsertId(f[i - 1], ids[i])
<1>1. Sort(ids) = f[Len(ids)] /\ Len(ids) \in Nat
  BY DEF Sort
<1>2. \E g : g = [i \in 0 .. Len(ids) |-> IF i = 0 THEN <<>> ELSE InsertId(g[i - 1], ids[i])]
  BY <1>1, SortExists DEF Sorts
<1>3. f = [i \in 0 .. Len(ids) |-> IF i = 0 THEN <<>> ELSE InsertId(f[i - 1], ids[i])]
  BY <1>2, Zenon
<1> HIDE DEF f
<1> DEFINE Bad == {k \in 0 .. Len(ids) : f[k] \notin Seq(S)}
<1>4. ASSUME Bad # {} PROVE FALSE
  <2>1. Bad \in SUBSET Nat
    BY <1>1
  <2>2. PICK k \in Bad : \A y \in Bad : k <= y
    BY <1>4, <2>1, LeastNumber
  <2>3. k # 0
    BY <1>3, <2>2
  <2>4. k - 1 \in 0 .. Len(ids) /\ k - 1 \notin Bad
    BY <1>1, <2>2, <2>3
  <2>5. ids[k] \in S /\ f[k - 1] \in Seq(S)
    BY <1>1, <2>2, <2>3, <2>4
  <2>6. InsertId(f[k - 1], ids[k]) \in Seq(S)
    BY <2>5, InsertIdType
  <2>7. f[k] = InsertId(f[k - 1], ids[k])
    BY <1>3, <2>2, <2>3
  <2>8. QED BY <2>2, <2>6, <2>7
<1>5. QED BY <1>1, <1>4

-----------------------------------------------------------------------------
(* apply() *)

\* A state of the state machine: its ids were given out by its counter.
WellFormed(s) ==
    /\ s = Snapshot(s)
    /\ s.clusters = [c \in DOMAIN s.clusters |-> s.clusters[c]]
    /\ DOMAIN s.clusters \subseteq 1 .. s.next - 1
    /\ \A c \in DOMAIN s.clusters : s.clusters[c] \in SubCluster
    /\ s.next \in Nat \ {0}
    /\ s.addresses \subseteq Node

\* The state puts node n in sub-cluster c.
Member(s, c, n) == c \in DOMAIN s.clusters /\ n \in Range(s.clusters[c].nodes)

\* A new state machine is well formed.
LEMMA NewStateWellFormed == WellFormed(NewState)
BY DEF WellFormed, NewState, Snapshot

\* A command has the fields of its type.
LEMMA CommandFields ==
    ASSUME NEW c \in Command
    PROVE  /\ c.type \in {"Create", "Delete", "Add", "Remove", "Metadata", "Register"}
           /\ c.type = "Create" => c \in CreateCommand
           /\ c.type = "Delete" => c \in DeleteCommand
           /\ c.type \in {"Add", "Remove"} => c \in MemberCommand
           /\ c.type = "Metadata" => c \in MetadataCommand
           /\ c.type = "Register" => c \in RegisterCommand
BY DEF Command, CreateCommand, DeleteCommand, MemberCommand, MetadataCommand, RegisterCommand

\* Setting the entry of a sub-cluster whose id was given out.
LEMMA WithWellFormed ==
    ASSUME NEW s, WellFormed(s), NEW c \in 1 .. s.next - 1, NEW sub \in SubCluster
    PROVE  /\ WellFormed(With(s, c, sub))
           /\ With(s, c, sub).next = s.next
           /\ DOMAIN With(s, c, sub).clusters = DOMAIN s.clusters \cup {c}
           /\ \A d \in DOMAIN s.clusters \cup {c} :
                  With(s, c, sub).clusters[d] = IF d = c THEN sub ELSE s.clusters[d]
<1> DEFINE k == [d \in DOMAIN s.clusters \cup {c} |-> IF d = c THEN sub ELSE s.clusters[d]]
<1>1. With(s, c, sub) = [clusters |-> k, next |-> s.next, addresses |-> s.addresses]
  BY DEF With, WellFormed, Snapshot
<1>2. \A d \in DOMAIN k : k[d] \in SubCluster
  BY DEF WellFormed
<1>3. QED BY <1>1, <1>2 DEF WellFormed, Snapshot

\* The members of a sub-cluster that is set, and of the others.
LEMMA WithMember ==
    ASSUME NEW s, WellFormed(s), NEW c \in DOMAIN s.clusters, NEW sub \in SubCluster
    PROVE  /\ WellFormed(With(s, c, sub))
           /\ With(s, c, sub).next = s.next
           /\ \A d, n : Member(With(s, c, sub), d, n) <=>
                  IF d = c THEN n \in Range(sub.nodes) ELSE Member(s, d, n)
<1>1. c \in 1 .. s.next - 1
  BY DEF WellFormed
<1>2. QED BY <1>1, WithWellFormed DEF Member

\* A command that fails changes nothing and is not published.
LEMMA ApplyFailed ==
    ASSUME NEW s, NEW c \in Command, ~Succeeds(s, c)
    PROVE  ApplyManagement(s, c) = s /\ Events(s, c) = <<>>
BY CommandFields DEF ApplyManagement, Events, Succeeds

\* CreateSubCluster gives out the next id.
LEMMA ApplyCreateProperties ==
    ASSUME NEW s, WellFormed(s), NEW c \in Command, c.type = "Create"
    PROVE  LET t == ApplyManagement(s, c)
           IN  /\ WellFormed(t)
               /\ t.next = s.next + 1
               /\ \A d, n : Member(t, d, n) <=>
                      IF d = s.next THEN n \in Range(c.nodes) ELSE Member(s, d, n)
               /\ Events(s, c) =
                      <<[type |-> "Created", cluster |-> s.next, nodes |-> c.nodes]>>
<1> DEFINE sub == [nodes |-> c.nodes, draining |-> None]
           k == [d \in DOMAIN s.clusters \cup {s.next} |->
                    IF d = s.next THEN sub ELSE s.clusters[d]]
<1>1. c \in CreateCommand /\ Succeeds(s, c)
  BY CommandFields DEF Succeeds
<1>2. ApplyManagement(s, c) = ApplyCreate(s, c.nodes)
  BY <1>1 DEF ApplyManagement
<1>3. ApplyCreate(s, c.nodes) =
          [clusters |-> k, next |-> s.next + 1, addresses |-> s.addresses]
  <2>1. With(s, s.next, sub) = [clusters |-> k, next |-> s.next, addresses |-> s.addresses]
    BY DEF With, WellFormed, Snapshot
  <2> HIDE DEF k
  <2>2. QED BY <2>1 DEF ApplyCreate
<1>4. sub \in SubCluster
  BY <1>1 DEF SubCluster, CreateCommand, DrainValue
<1>5. \A d \in DOMAIN k : k[d] \in SubCluster
  BY <1>4 DEF WellFormed
<1>6. DOMAIN k \subseteq 1 .. s.next
  BY DEF WellFormed
<1>7. WellFormed([clusters |-> k, next |-> s.next + 1, addresses |-> s.addresses])
  <2>1. s.next + 1 \in Nat \ {0} /\ (s.next + 1) - 1 = s.next /\ s.addresses \subseteq Node
    BY DEF WellFormed
  <2>2. k = [d \in DOMAIN k |-> k[d]]
    OBVIOUS
  <2> HIDE DEF k
  <2>3. QED BY <1>5, <1>6, <2>1, <2>2 DEF WellFormed, Snapshot
<1>8. Events(s, c) = <<[type |-> "Created", cluster |-> s.next, nodes |-> c.nodes]>>
  BY <1>1 DEF Events
<1>9. QED BY <1>2, <1>3, <1>7, <1>8 DEF Member

\* DeleteSubCluster, of a sub-cluster that may be unknown.
LEMMA ApplyDeleteProperties ==
    ASSUME NEW s, WellFormed(s), NEW c \in Command, c.type = "Delete"
    PROVE  LET t == ApplyManagement(s, c)
           IN  /\ WellFormed(t)
               /\ t.next = s.next
               /\ \A d, n : Member(t, d, n) <=> d # c.cluster /\ Member(s, d, n)
               /\ Events(s, c) = <<c>>
<1> DEFINE k == [d \in DOMAIN s.clusters \ {c.cluster} |-> s.clusters[d]]
<1>1. Succeeds(s, c)
  BY DEF Succeeds
<1>2. ApplyManagement(s, c) = Without(s, c.cluster)
  BY <1>1 DEF ApplyManagement
<1>3. Without(s, c.cluster) = [clusters |-> k, next |-> s.next, addresses |-> s.addresses]
  BY DEF Without, WellFormed, Snapshot
<1>4. WellFormed([clusters |-> k, next |-> s.next, addresses |-> s.addresses])
  BY DEF WellFormed, Snapshot
<1>5. Events(s, c) = <<c>>
  BY <1>1 DEF Events
<1>6. QED BY <1>2, <1>3, <1>4, <1>5 DEF Member

\* RegisterNodeAddress concerns no sub-cluster.
LEMMA ApplyRegisterProperties ==
    ASSUME NEW s, WellFormed(s), NEW c \in Command, c.type = "Register"
    PROVE  LET t == ApplyManagement(s, c)
           IN  /\ WellFormed(t)
               /\ t.next = s.next
               /\ \A d, n : Member(t, d, n) <=> Member(s, d, n)
               /\ Events(s, c) = <<>>
<1>1. Succeeds(s, c) /\ c.node \in Node
  BY CommandFields DEF Succeeds, RegisterCommand
<1>2. ApplyManagement(s, c) =
          [clusters |-> s.clusters, next |-> s.next, addresses |-> s.addresses \cup {c.node}]
  BY <1>1 DEF ApplyManagement, WellFormed, Snapshot
<1>3. Events(s, c) = <<>>
  BY DEF Events
<1>4. QED BY <1>1, <1>2, <1>3 DEF Member, WellFormed, Snapshot

\* AddNodeToSubCluster adds the node once and no other.
LEMMA ApplyAddProperties ==
    ASSUME NEW s, WellFormed(s), NEW c \in Command, c.type = "Add", Succeeds(s, c)
    PROVE  LET t == ApplyManagement(s, c)
           IN  /\ WellFormed(t)
               /\ t.next = s.next
               /\ \A d, n : Member(t, d, n) <=>
                      Member(s, d, n) \/ (d = c.cluster /\ n = c.node)
               /\ Events(s, c) = <<c>>
<1> DEFINE sub == s.clusters[c.cluster]
           new == [sub EXCEPT !.nodes = Append(@, c.node)]
<1>1. c.cluster \in DOMAIN s.clusters /\ c.node \in Node
  BY CommandFields DEF Succeeds, MemberCommand
<1>2. sub \in SubCluster /\ c.cluster \in 1 .. s.next - 1
  BY <1>1 DEF WellFormed
<1>3. ApplyManagement(s, c) = ApplyAdd(s, c.cluster, c.node) /\ Events(s, c) = <<c>>
  BY DEF ApplyManagement, Events
<1>4. CASE c.node \in Range(sub.nodes)
  <2>1. ApplyAdd(s, c.cluster, c.node) = s
    BY <1>4 DEF ApplyAdd
  <2>2. QED BY <1>1, <1>3, <1>4, <2>1 DEF Member
<1>5. CASE c.node \notin Range(sub.nodes)
  <2>1. ApplyAdd(s, c.cluster, c.node) = With(s, c.cluster, new)
    BY <1>5 DEF ApplyAdd
  <2>2. new = [nodes |-> Append(sub.nodes, c.node), draining |-> sub.draining]
    <3>1. PICK q \in Seq(Node), v \in DrainValue : sub = [nodes |-> q, draining |-> v]
      BY <1>2 DEF SubCluster
    <3>2. \A a : [sub EXCEPT !.nodes = a] = [nodes |-> a, draining |-> v]
      BY <3>1
    <3>3. sub.draining = v
      BY <3>1
    <3>4. QED BY <3>2, <3>3, Zenon
  <2>3. new \in SubCluster
    <3>1. sub.nodes \in Seq(Node) /\ sub.draining \in DrainValue
      BY <1>2 DEF SubCluster
    <3>2. Append(sub.nodes, c.node) \in Seq(Node)
      BY <1>1, <3>1
    <3>3. QED BY <2>2, <3>1, <3>2 DEF SubCluster
  <2>4. Range(new.nodes) = Range(sub.nodes) \cup {c.node}
    <3>1. sub.nodes \in Seq(Node) /\ new.nodes = Append(sub.nodes, c.node)
      BY <1>2, <2>2 DEF SubCluster
    <3>2. DOMAIN new.nodes = 1 .. Len(sub.nodes) + 1 /\ DOMAIN sub.nodes = 1 .. Len(sub.nodes)
          /\ Len(sub.nodes) \in Nat
      BY <3>1
    <3>3. \A i \in 1 .. Len(sub.nodes) : new.nodes[i] = sub.nodes[i]
      BY <3>1
    <3>4. new.nodes[Len(sub.nodes) + 1] = c.node
      BY <3>1
    <3>5. 1 .. Len(sub.nodes) + 1 = (1 .. Len(sub.nodes)) \cup {Len(sub.nodes) + 1}
      BY <3>2
    <3> HIDE DEF new
    <3>6. \A x : x \in Range(new.nodes) <=> x \in Range(sub.nodes) \/ x = c.node
      BY <3>2, <3>3, <3>4, <3>5 DEF Range
    <3>7. QED BY <3>6
  <2> HIDE DEF new
  <2>5. WellFormed(With(s, c.cluster, new)) /\ With(s, c.cluster, new).next = s.next
        /\ \A d, n : Member(With(s, c.cluster, new), d, n) <=>
               IF d = c.cluster THEN n \in Range(new.nodes) ELSE Member(s, d, n)
    BY <1>1, <1>2, <2>3, WithMember
  <2>6. QED BY <1>1, <1>3, <2>1, <2>4, <2>5 DEF Member
<1>6. QED BY <1>4, <1>5

\* RemoveNodeFromSubCluster removes the node and no other.
LEMMA ApplyRemoveProperties ==
    ASSUME NEW s, WellFormed(s), NEW c \in Command, c.type = "Remove", Succeeds(s, c)
    PROVE  LET t == ApplyManagement(s, c)
           IN  /\ WellFormed(t)
               /\ t.next = s.next
               /\ \A d, n : Member(t, d, n) <=>
                      Member(s, d, n) /\ ~ (d = c.cluster /\ n = c.node)
               /\ Events(s, c) = <<c>>
<1>1. c.cluster \in DOMAIN s.clusters /\ c.node \in Node
  BY CommandFields DEF Succeeds, MemberCommand
<1>2. PICK q \in Seq(Node), v \in DrainValue :
          s.clusters[c.cluster] = [nodes |-> q, draining |-> v]
  BY <1>1 DEF WellFormed, SubCluster
<1> DEFINE new == [nodes |-> Retain(q, c.node), draining |-> v]
<1>3. ApplyManagement(s, c) = With(s, c.cluster, new)
  <2>1. ApplyManagement(s, c) = ApplyRemove(s, c.cluster, c.node)
    BY DEF ApplyManagement
  <2>2. [s.clusters[c.cluster] EXCEPT !.nodes = Retain(@, c.node)] = new
    BY <1>2
  <2>3. QED BY <2>1, <2>2 DEF ApplyRemove
<1>4. Events(s, c) = <<c>>
  BY DEF Events
<1>5. Retain(q, c.node) \in Seq(Node) /\ Range(Retain(q, c.node)) = Range(q) \ {c.node}
  BY RetainProperties
<1>6. new \in SubCluster /\ Range(new.nodes) = Range(q) \ {c.node}
  BY <1>5 DEF SubCluster
<1> HIDE DEF new
<1>7. /\ WellFormed(With(s, c.cluster, new)) /\ With(s, c.cluster, new).next = s.next
      /\ \A d, n : Member(With(s, c.cluster, new), d, n) <=>
             IF d = c.cluster THEN n \in Range(new.nodes) ELSE Member(s, d, n)
  BY <1>1, <1>6, WithMember
<1>8. \A n : Member(s, c.cluster, n) <=> n \in Range(q)
  BY <1>1, <1>2 DEF Member
<1>9. QED BY <1>3, <1>4, <1>6, <1>7, <1>8

\* SetMetadata and DeleteMetadata leave the members alone.
LEMMA ApplyMetadataProperties ==
    ASSUME NEW s, WellFormed(s), NEW c \in Command, c.type = "Metadata", Succeeds(s, c)
    PROVE  LET t == ApplyManagement(s, c)
           IN  /\ WellFormed(t)
               /\ t.next = s.next
               /\ \A d, n : Member(t, d, n) <=> Member(s, d, n)
               /\ Events(s, c) = <<c>>
<1>1. c.cluster \in DOMAIN s.clusters /\ c.value \in DrainValue
  BY CommandFields DEF Succeeds, MetadataCommand
<1>2. PICK q \in Seq(Node), v \in DrainValue :
          s.clusters[c.cluster] = [nodes |-> q, draining |-> v]
  BY <1>1 DEF WellFormed, SubCluster
<1> DEFINE new == [nodes |-> q, draining |-> c.value]
<1>3. ApplyManagement(s, c) = With(s, c.cluster, new)
  <2>1. ApplyManagement(s, c) = ApplyMetadata(s, c.cluster, c.value)
    BY DEF ApplyManagement
  <2>2. [s.clusters[c.cluster] EXCEPT !.draining = c.value] = new
    BY <1>2
  <2>3. QED BY <2>1, <2>2 DEF ApplyMetadata
<1>4. Events(s, c) = <<c>>
  BY DEF Events
<1>5. new \in SubCluster /\ new.nodes = q
  BY <1>1 DEF SubCluster
<1> HIDE DEF new
<1>6. /\ WellFormed(With(s, c.cluster, new)) /\ With(s, c.cluster, new).next = s.next
      /\ \A d, n : Member(With(s, c.cluster, new), d, n) <=>
             IF d = c.cluster THEN n \in Range(new.nodes) ELSE Member(s, d, n)
  BY <1>1, <1>5, WithMember
<1>7. \A n : Member(s, c.cluster, n) <=> n \in Range(q)
  BY <1>1, <1>2 DEF Member
<1>8. QED BY <1>3, <1>4, <1>5, <1>6, <1>7

\* Whatever the command: the state stays well formed, the counter never goes
\* back, and what is published is one event or none.
LEMMA ApplyWellFormed ==
    ASSUME NEW s, WellFormed(s), NEW c \in Command
    PROVE  /\ WellFormed(ApplyManagement(s, c))
           /\ ApplyManagement(s, c).next =
                  IF c.type = "Create" THEN s.next + 1 ELSE s.next
           /\ Events(s, c) = IF c.type = "Create" THEN
                                  <<[type |-> "Created", cluster |-> s.next, nodes |-> c.nodes]>>
                              ELSE IF c.type = "Register" \/ ~Succeeds(s, c) THEN <<>>
                              ELSE <<c>>
<1>1. CASE ~Succeeds(s, c)
  BY <1>1, ApplyFailed DEF Succeeds
<1>2. CASE c.type = "Create"
  BY <1>2, ApplyCreateProperties
<1>3. CASE c.type = "Delete"
  BY <1>3, ApplyDeleteProperties DEF Succeeds
<1>4. CASE c.type = "Register"
  BY <1>4, ApplyRegisterProperties
<1>5. CASE c.type = "Add" /\ Succeeds(s, c)
  BY <1>5, ApplyAddProperties
<1>6. CASE c.type = "Remove" /\ Succeeds(s, c)
  BY <1>6, ApplyRemoveProperties
<1>7. CASE c.type = "Metadata" /\ Succeeds(s, c)
  BY <1>7, ApplyMetadataProperties
<1>8. QED BY <1>1, <1>2, <1>3, <1>4, <1>5, <1>6, <1>7, CommandFields

-----------------------------------------------------------------------------
(* ClusterManager *)

\* The sub-clusters of a state are finitely many.
LEMMA FiniteClusters ==
    ASSUME NEW s, WellFormed(s), NEW C \in SUBSET DOMAIN s.clusters
    PROVE  IsFiniteSet(C) /\ Cardinality(C) \in Nat /\ C \subseteq Nat
<1>1. s.next - 1 \in Nat /\ C \subseteq 1 .. s.next - 1
  BY DEF WellFormed
<1>2. IsFiniteSet(1 .. s.next - 1)
  BY <1>1, FS_Interval
<1>3. IsFiniteSet(C)
  BY <1>1, <1>2, FS_Subset
<1>4. QED BY <1>1, <1>3, FS_CardinalityType

\* The orders in which a HashMap may list some sub-clusters.
LEMMA OrderType ==
    ASSUME NEW s, WellFormed(s), NEW C \in SUBSET DOMAIN s.clusters, NEW p \in SetToSeqs(C)
    PROVE  p \in Seq(C) /\ DOMAIN p = 1 .. Len(p) /\ Len(p) \in Nat /\ \A i \in DOMAIN p : p[i] \in C
<1>1. Cardinality(C) \in Nat
  BY FiniteClusters
<1>2. p \in [1 .. Cardinality(C) -> C]
  BY DEF SetToSeqs
<1>3. p \in Seq(C)
  BY <1>1, <1>2
<1>4. QED BY <1>3

\* Where a node may be placed.
LEMMA PlacementType ==
    ASSUME NEW s, WellFormed(s), NEW n \in Node, NEW d \in decide_node_placement(s, n)
    PROVE  d \in Seq(Command)
<1>1. CreateSubCluster(<<n>>) \in Command
  <2>1. <<n>> \in Seq(Node)
    OBVIOUS
  <2>2. QED BY <2>1 DEF CreateSubCluster, Command, CreateCommand
<1>2. \A c \in DOMAIN s.clusters : AddNode(c, n) \in Command
  BY DEF AddNode, Command, MemberCommand, WellFormed
<1>3. \A c \in Smallest(s, Active(s)) : c \in DOMAIN s.clusters
  BY DEF Smallest, Active
<1>4. d = <<CreateSubCluster(<<n>>)>> \/ \E c \in DOMAIN s.clusters : d = <<AddNode(c, n)>>
  BY <1>3 DEF decide_node_placement
<1>5. QED BY <1>1, <1>2, <1>4, SingletonSeq

\* The commands that split one sub-cluster.
LEMMA SplitType ==
    ASSUME NEW s, WellFormed(s), NEW c \in DOMAIN s.clusters, SplitSize \in Nat
    PROVE  Split(s, c) \in Seq(Command)
<1> DEFINE sorted == Sort(s.clusters[c].nodes)
           k == IF SplitSize < Len(sorted) THEN SplitSize ELSE Len(sorted)
           moved == SubSeq(sorted, 1, k)
           removals == [i \in DOMAIN moved |-> RemoveNode(c, moved[i])]
<1>1. s.clusters[c].nodes \in Seq(Node) /\ c \in Nat
  BY DEF WellFormed, SubCluster
<1>2. sorted \in Seq(Node)
  BY <1>1, SortType
<1> HIDE DEF sorted
<1>3. k \in 0 .. Len(sorted) /\ \A i \in 1 .. Len(sorted) : sorted[i] \in Node
  BY <1>2
<1> HIDE DEF k
<1>4. moved \in Seq(Node)
  <2>1. k \in Int /\ \A i \in 1 .. k : sorted[i] \in Node
    BY <1>2, <1>3
  <2>2. QED BY <2>1, SubSeqProperties
<1> HIDE DEF moved
<1>5. Len(moved) \in Nat /\ DOMAIN moved = 1 .. Len(moved)
      /\ \A i \in 1 .. Len(moved) : RemoveNode(c, moved[i]) \in Command
  BY <1>1, <1>4 DEF RemoveNode, Command, MemberCommand
<1>6. removals \in Seq(Command)
  BY <1>5
<1>7. <<CreateSubCluster(moved)>> \in Seq(Command)
  <2>1. CreateSubCluster(moved) \in Command
    BY <1>4 DEF CreateSubCluster, Command, CreateCommand
  <2>2. QED BY <2>1, SingletonSeq
<1> HIDE DEF removals
<1>8. <<CreateSubCluster(moved)>> \o removals \in Seq(Command)
  BY <1>6, <1>7, ConcatProperties
<1>9. Split(s, c) = <<CreateSubCluster(moved)>> \o removals
  BY DEF Split, removals, moved, k, sorted
<1>10. QED BY <1>8, <1>9

\* The commands that split every full sub-cluster.
LEMMA SplitsType ==
    ASSUME NEW s, WellFormed(s), SplitSize \in Nat, NEW d \in decide_splits(s)
    PROVE  d \in Seq(Command)
<1> DEFINE full == {c \in Active(s) : Size(s, c) >= MaxSize}
<1>1. full \in SUBSET DOMAIN s.clusters
  BY DEF Active
<1>2. PICK p \in SetToSeqs(full) : d = FlattenSeq([i \in DOMAIN p |-> Split(s, p[i])])
  BY DEF decide_splits
<1>3. Len(p) \in Nat /\ DOMAIN p = 1 .. Len(p) /\ \A i \in DOMAIN p : p[i] \in DOMAIN s.clusters
  BY <1>1, OrderType
<1>4. \A i \in 1 .. Len(p) : Split(s, p[i]) \in Seq(Command)
  BY <1>3, SplitType
<1>5. [i \in DOMAIN p |-> Split(s, p[i])] \in Seq(Seq(Command))
  BY <1>3, <1>4
<1>6. QED BY <1>2, <1>5, FlattenSeqProperties

\* The commands that fill undersized sub-clusters.
LEMMA RebalancingType ==
    ASSUME NEW s, WellFormed(s), TargetSize \in Nat, NEW d \in decide_rebalancing(s)
    PROVE  d \in Seq(Command)
<1> DEFINE under == {c \in Active(s) : Size(s, c) < MinSize}
           over == Largest(s, {c \in Active(s) : Size(s, c) > TargetSize})
<1>1. under \in SUBSET DOMAIN s.clusters
  BY DEF Active
<1>2. \A o \in over : o \in DOMAIN s.clusters /\ Len(s.clusters[o].nodes) > TargetSize
  BY DEF Active, Largest, Size
<1>3. CASE d = <<>>
  BY <1>3
<1>4. CASE d # <<>>
  <2>1. PICK p \in SetToSeqs(under), o \in over :
            d = [i \in DOMAIN p |-> AddNode(p[i], Head(s.clusters[o].nodes))]
    BY <1>4 DEF decide_rebalancing
  <2>2. Head(s.clusters[o].nodes) \in Node
    <3>1. s.clusters[o].nodes \in Seq(Node)
      BY <1>2 DEF WellFormed, SubCluster
    <3>2. s.clusters[o].nodes # <<>>
      BY <1>2, <3>1
    <3>3. QED BY <3>1, <3>2
  <2>3. Len(p) \in Nat /\ DOMAIN p = 1 .. Len(p) /\ \A i \in DOMAIN p : p[i] \in DOMAIN s.clusters
    BY <1>1, OrderType
  <2>4. \A i \in 1 .. Len(p) : AddNode(p[i], Head(s.clusters[o].nodes)) \in Command
    BY <2>2, <2>3 DEF AddNode, Command, MemberCommand, WellFormed
  <2>5. QED BY <2>1, <2>3, <2>4
<1>5. QED BY <1>3, <1>4

\* The commands that delete and drain sub-clusters.
LEMMA ConsolidationType ==
    ASSUME NEW s, WellFormed(s), NEW d \in decide_consolidation(s)
    PROVE  d \in Seq(Command)
<1> DEFINE empty == {c \in DOMAIN s.clusters \ Active(s) : s.clusters[c].nodes = <<>>}
           drain == IF ToDrain(s) = {} THEN {<<>>}
                    ELSE {<<SetMetadata(c, "true")>> : c \in ToDrain(s)}
<1>1. empty \in SUBSET DOMAIN s.clusters
  OBVIOUS
<1>2. PICK p \in SetToSeqs(empty), e \in drain :
          d = [i \in DOMAIN p |-> DeleteSubCluster(p[i])] \o e
  <2>1. d \in UNION {{[i \in DOMAIN p |-> DeleteSubCluster(p[i])] \o e : p \in SetToSeqs(empty)}
                        : e \in drain}
    BY DEF decide_consolidation
  <2> HIDE DEF empty, drain
  <2>2. PICK e \in drain :
            d \in {[i \in DOMAIN p |-> DeleteSubCluster(p[i])] \o e : p \in SetToSeqs(empty)}
    BY <2>1
  <2>3. QED BY <2>2
<1>3. Len(p) \in Nat /\ DOMAIN p = 1 .. Len(p) /\ \A i \in DOMAIN p : p[i] \in DOMAIN s.clusters
  BY <1>1, OrderType
<1>4. \A i \in 1 .. Len(p) : DeleteSubCluster(p[i]) \in Command
  BY <1>3 DEF DeleteSubCluster, Command, DeleteCommand, WellFormed
<1>5. [i \in DOMAIN p |-> DeleteSubCluster(p[i])] \in Seq(Command)
  BY <1>3, <1>4
<1>6. e \in Seq(Command)
  <2>1. \A c \in ToDrain(s) : c \in DOMAIN s.clusters
    BY DEF ToDrain, Smallest, Active
  <2>2. \A c \in DOMAIN s.clusters : SetMetadata(c, "true") \in Command
    BY DEF SetMetadata, Command, MetadataCommand, DrainValue, WellFormed
  <2>3. e = <<>> \/ \E c \in ToDrain(s) : e = <<SetMetadata(c, "true")>>
    BY <1>2
  <2>4. CASE e = <<>>
    BY <2>4
  <2>5. CASE \E c \in ToDrain(s) : e = <<SetMetadata(c, "true")>>
    BY <2>1, <2>2, <2>5, SingletonSeq
  <2>6. QED BY <2>3, <2>4, <2>5
<1>7. QED BY <1>2, <1>5, <1>6, ConcatProperties
=============================================================================
