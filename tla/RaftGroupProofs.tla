-------------------------- MODULE RaftGroupProofs --------------------------
(***************************************************************************)
(* Proofs about RaftGroup, for any number of processes, ids, commands and  *)
(* faults.                                                                 *)
(***************************************************************************)
EXTENDS RaftGroup, FiniteSetTheorems, NaturalsInduction, WellFoundedInduction, TLAPS

NodeRecord ==
    [state : {"off", "running", "halted", "stuck", "crashed"}, id : Id \cup {0},
     peers : [Id -> Process \cup {None}], conf : SUBSET Id,
     role : {"follower", "precandidate", "leader"},
     lead : Id \cup {0}, cache : Id \cup {0}, have : Nat, applied : Nat]

Message ==
    [type : {"propose"}, cmd : Command]
    \cup [type : {"response"}, from : Id, upto : Nat]
    \cup [type : {"append"}, from : Id, upto : Nat, commit : Nat]

Types ==
    /\ node \in [Process -> NodeRecord]
    /\ listening \subseteq Process /\ \A p \in listening : Alive(p)
    /\ join \in [Process -> [pc : {"none", "call", "waiting", "done", "failed"},
                             at : Process \cup {None}]]
    /\ mailbox \in [Process -> Seq(Message)]
    /\ log \in Seq(Entry) /\ commit \in Nat /\ commit <= Len(log)
    /\ match \in [Id -> 0 .. Len(log)]
    /\ task \in [Command ->
          [pc : {"none", "retry", "wait", "ok", "error", "gone"},
           at : Process \cup {None}]]
    /\ faults \subseteq {"crash", "delay", "removal"}
    /\ blind \subseteq Process /\ early \subseteq Process

-----------------------------------------------------------------------------
\* Nobody has applied what it does not have or what is not committed.
\* Whoever leads has the whole log.
Within(n) ==
    /\ n.applied <= n.have /\ n.have <= Len(log) /\ n.applied <= commit
    /\ n.role = "leader" => n.have = Len(log)

MessageWithin(m) ==
    /\ m.type \in {"response", "append"} => m.upto <= Len(log)
    /\ m.type = "append" => m.commit <= m.upto /\ m.commit <= commit

Bounded ==
    /\ \A p \in Process : Within(node[p])
    /\ \A p \in Process : \A k \in DOMAIN mailbox[p] : MessageWithin(mailbox[p][k])

-----------------------------------------------------------------------------
\* Id 1 is the founder's, and whoever has joined has another one.
Ids ==
    /\ node[Founder].id = 1
    /\ \A p \in Process : /\ node[p].state = "off" <=> node[p].id = 0
                          /\ node[p].id = 1 => p = Founder
                          /\ p \in blind => node[p].id # 0

\* Only the founder leads, and is taken for the leader.  An address is that
\* of a node with the id.  Whoever did not join blindly knows the founder;
\* who did does not, and its loop ends with the first message.
Sound(p, n) ==
    /\ n.role = "leader" => p = Founder
    /\ n.lead \in {0, 1} /\ n.cache \in {0, 1}
    /\ \A i \in Id : n.peers[i] # None => node[n.peers[i]].id = i
    /\ n.state \in {"running", "halted", "stuck"} /\ p \notin blind => n.peers[1] = Founder
    /\ p \in blind => n.peers[1] = None /\ p # Founder /\ (n.state = "running" => n.have = 0)
    /\ n.state = "crashed" => "crash" \in faults

\* Entries add nodes under their own ids.  Only a removal takes one out,
\* never the founder.
SoundEntry(e) ==
    /\ e.type = "add" => node[e.addr].id = e.id
    /\ e.type = "remove" => e.id # 1 /\ "removal" \in faults

Trouble == "removal" \in faults \/ "crash" \in faults

\* p was, and without trouble is, a member of the leader's configuration.
Member(p) == Trouble \/ node[p].id \in node[Founder].conf

\* The leader sends to members, which answer it; others forward proposals to it.
SoundMessage(q, m) ==
    /\ m.type = "append" => q # Founder /\ m.from = 1 /\ Member(q)
    /\ m.type \in {"response", "propose"} => q = Founder
    /\ m.type = "response" => (Trouble \/ m.from \in node[Founder].conf)

Excuse == early # {} \/ faults # {} \/ \E q1, q2 \in blind : q1 # q2

Leadership ==
    /\ node[Founder].state # "crashed" => /\ Founder \in listening
                                          /\ 1 \in node[Founder].conf
    /\ node[Founder].role # "leader" => Excuse
    /\ \A i \in node[Founder].conf : Trouble \/ node[Founder].peers[i] # None

\* Whoever knows the leader is a member; so there is one that whoever joined
\* blindly has asked, with another id.
Membership ==
    /\ \A p \in Process : node[p].lead # 0 => Member(p)
    /\ \A p \in blind : Trouble \/ \E i \in node[Founder].conf : i \notin {1, node[p].id}

\* The founder is stuck where somebody has ended; others at the founder.
Hangs(p) ==
    IF p = Founder THEN "crash" \in faults \/ \E q \in Process : node[q].state = "halted"
    ELSE node[Founder].state \in {"halted", "stuck", "crashed"}

Hung == \A p \in Process : node[p].state = "stuck" => Hangs(p)

Group ==
    /\ Ids
    /\ \A p \in Process : Sound(p, node[p])
    /\ \A k \in DOMAIN log : SoundEntry(log[k])
    /\ \A p \in Process : \A k \in DOMAIN mailbox[p] : SoundMessage(p, mailbox[p][k])
    /\ Leadership
    /\ Membership
    /\ LoopsEndForAReason
    /\ Hung

-----------------------------------------------------------------------------
\* Whoever waits or was told of success lives.
Callers ==
    \A c \in Command :
        /\ task[c].pc \in {"retry", "wait", "ok"} <=> task[c].at # None
        /\ task[c].at # None => Alive(task[c].at)

InLog(c, k) == log[k] = CommandEntry(c)

OnItsWay(c, k) == mailbox[Founder][k] = ProposeMsg(c)

\* A command is in one place: with its caller, on its way, or in the log.
OnePlace(c) ==
    /\ \A j, k \in DOMAIN log : InLog(c, j) /\ InLog(c, k) => j = k
    /\ \A j, k \in DOMAIN mailbox[Founder] : OnItsWay(c, j) /\ OnItsWay(c, k) => j = k
    /\ \A j \in DOMAIN log, k \in DOMAIN mailbox[Founder] : ~ (InLog(c, j) /\ OnItsWay(c, k))
    /\ task[c].pc \in {"none", "retry"} =>
          /\ \A k \in DOMAIN log : ~ InLog(c, k)
          /\ \A k \in DOMAIN mailbox[Founder] : ~ OnItsWay(c, k)

\* A command whose caller was told of success is applied there.
Honoured(c) ==
    task[c].pc = "ok" =>
        \E k \in DOMAIN log : InLog(c, k) /\ k <= node[task[c].at].applied

Proposals == Callers /\ \A c \in Command : OnePlace(c) /\ Honoured(c)


-----------------------------------------------------------------------------
\* A set of natural numbers has a least one: the form of induction used here.
LEMMA LeastNumber ==
    ASSUME NEW T \in SUBSET Nat, T # {}
    PROVE  \E x \in T : \A y \in T : x <= y
<1>1. IsWellFoundedOn(OpToRel(<, Nat), Nat)
  BY NatLessThanWellFounded
<1>2. PICK x \in T : \A y \in T : ~ (<<y, x>> \in OpToRel(<, Nat))
  BY <1>1, WFMin
<1>3. \A y \in T : ~ (y < x)
  BY <1>2 DEF OpToRel
<1>4. QED BY <1>3

\* Max is the maximum of a bounded set.
LEMMA MaxOfBounded ==
    ASSUME NEW T \in SUBSET Nat, T # {}, NEW b \in Nat, \A x \in T : x <= b
    PROVE  Max(T) \in T /\ \A x \in T : x <= Max(T)
<1> DEFINE U == {u \in Nat : \A x \in T : x <= u}
<1>1. PICK u \in U : \A v \in U : u <= v
  <2>1. U \in SUBSET Nat /\ U # {}
    OBVIOUS
  <2> HIDE DEF U
  <2>2. QED BY <2>1, LeastNumber
<1>2. u \in T
  <2>1. SUFFICES ASSUME u \notin T PROVE FALSE
    OBVIOUS
  <2>2. \A x \in T : x < u
    BY <1>1, <2>1
  <2>3. u \in Nat /\ u - 1 \in Nat
    <3>1. PICK x \in T : TRUE
      OBVIOUS
    <3>2. x \in Nat /\ x < u /\ u \in Nat
      BY <1>1, <2>2
    <3>3. QED BY <3>2
  <2>4. \A x \in T : x <= u - 1
    BY <2>2, <2>3
  <2>5. u - 1 \in U
    BY <2>3, <2>4
  <2>6. QED BY <1>1, <2>3, <2>5
<1>3. \E x \in T : \A y \in T : x >= y
  BY <1>1, <1>2
<1>4. Max(T) \in T /\ \A y \in T : Max(T) >= y
  BY <1>3, Zenon DEF Max
<1>5. QED BY <1>4

\* The assumptions, and the id of the founder.
LEMMA Constants ==
    /\ Founder \in Process /\ None \notin Process
    /\ Id = 1 .. MaxId /\ MaxId \in Nat /\ 1 \in Id /\ 0 \notin Id
    /\ Id \subseteq Nat /\ IsFiniteSet(Id)
  BY GroupAssumption, FS_Interval DEF Id

\* The entries, by their fields.
LEMMA EntryFields ==
    ASSUME NEW e \in Entry
    PROVE  \/ e.type = "empty"
           \/ e.type = "add" /\ e.id \in Id /\ e.addr \in Process
           \/ e.type = "remove" /\ e.id \in Id
           \/ e.type = "command" /\ \E c \in Command : e = CommandEntry(c)
  BY DEF Entry, EmptyEntry, AddEntry, RemoveEntry, CommandEntry

\* The constructors of entries.
LEMMA EntryTypes ==
    /\ EmptyEntry \in Entry
    /\ \A i \in Id, p \in Process : AddEntry(i, p) \in Entry
    /\ \A i \in Id : RemoveEntry(i) \in Entry
    /\ \A c \in Command : CommandEntry(c) \in Entry
  BY DEF Entry

\* The messages, by their fields.
LEMMA MessageFields ==
    ASSUME NEW m \in Message
    PROVE  \/ m.type = "propose" /\ m.cmd \in Command /\ m = ProposeMsg(m.cmd)
           \/ m.type = "response" /\ m.from \in Id /\ m.upto \in Nat
           \/ m.type = "append" /\ m.from \in Id /\ m.upto \in Nat /\ m.commit \in Nat
  BY DEF Message, ProposeMsg

\* The fields of a node.
LEMMA RecordFields ==
    ASSUME NEW n \in NodeRecord
    PROVE  /\ n.state \in {"off", "running", "halted", "stuck", "crashed"}
           /\ n.id \in Id \cup {0} /\ n.peers \in [Id -> Process \cup {None}]
           /\ n.conf \in SUBSET Id /\ n.role \in {"follower", "precandidate", "leader"}
           /\ n.lead \in Id \cup {0} /\ n.cache \in Id \cup {0}
           /\ n.have \in Nat /\ n.applied \in Nat
  BY DEF NodeRecord


-----------------------------------------------------------------------------
\* The functions that satisfy the recursion of ApplyUpTo.
Applies(f, n, k) ==
    f = [j \in n.applied .. k |-> IF j = n.applied THEN n ELSE Applied(f[j - 1], log[j])]

\* There is one.
LEMMA AppliesExists ==
    ASSUME NEW n, n.applied \in Nat, NEW k \in Nat
    PROVE  \E f : Applies(f, n, k)
<1> DEFINE from == n.applied
           Bad == {x \in Nat : ~ \E f : Applies(f, n, x)}
<1>1. SUFFICES ASSUME Bad # {} PROVE FALSE
  OBVIOUS
<1>2. PICK x \in Bad : \A y \in Bad : x <= y
  BY <1>1, LeastNumber
<1>3. x > from
  <2>1. CASE x < from
    <3>1. Applies([j \in from .. x |-> 0], n, x)
      BY <2>1 DEF Applies
    <3>2. QED BY <3>1
  <2>2. CASE x = from
    <3>1. Applies([j \in from .. x |-> n], n, x)
      BY <2>2 DEF Applies
    <3>2. QED BY <3>1
  <2>3. QED BY <2>1, <2>2
<1>4. x - 1 \in Nat /\ x - 1 \notin Bad
  BY <1>2, <1>3
<1>5. PICK f : Applies(f, n, x - 1)
  BY <1>4
<1> DEFINE g == [j \in from .. x |-> IF j = x THEN Applied(f[j - 1], log[j]) ELSE f[j]]
<1>6. \A j \in from .. x :
         g[j] = IF j = from THEN n ELSE Applied(g[j - 1], log[j])
  <2> SUFFICES ASSUME NEW j \in from .. x
               PROVE  g[j] = IF j = from THEN n ELSE Applied(g[j - 1], log[j])
    OBVIOUS
  <2>1. j # from => j - 1 \in from .. x /\ j - 1 # x /\ g[j - 1] = f[j - 1]
    BY <1>2, <1>3
  <2>2. CASE j = x
    BY <1>3, <2>1, <2>2
  <2>3. CASE j # x
    <3>1. j \in from .. x - 1 /\ g[j] = f[j]
      BY <1>2, <2>3
    <3>2. f[j] = IF j = from THEN n ELSE Applied(f[j - 1], log[j])
      BY <1>5, <3>1 DEF Applies
    <3>3. QED BY <2>1, <3>1, <3>2
  <2>4. QED BY <2>2, <2>3
<1>7. Applies(g, n, x)
  BY <1>6 DEF Applies
<1>8. QED BY <1>2, <1>7

\* ApplyUpTo is what such a function has for the last entry.
LEMMA ApplyUpToDefined ==
    ASSUME NEW n, n.applied \in Nat, NEW k \in Nat
    PROVE  \E f : Applies(f, n, k) /\ ApplyUpTo(n, k) = f[k]
<1> DEFINE after[j \in n.applied .. k] ==
               IF j = n.applied THEN n ELSE Applied(after[j - 1], log[j])
<1>1. ApplyUpTo(n, k) = after[k]
  BY DEF ApplyUpTo
<1>2. \E g : g = [j \in n.applied .. k |->
                     IF j = n.applied THEN n ELSE Applied(g[j - 1], log[j])]
  <2>1. PICK g : Applies(g, n, k)
    BY AppliesExists
  <2>2. QED BY <2>1, Zenon DEF Applies
<1>3. after = [j \in n.applied .. k |->
                 IF j = n.applied THEN n ELSE Applied(after[j - 1], log[j])]
  BY <1>2, Zenon
<1>4. QED BY <1>1, <1>3 DEF Applies

\* What applying entries leaves of node n: r, whose addresses are sound, who
\* knows the founder still, and whose members have addresses.
Reached(n, r, j) ==
    /\ r \in NodeRecord /\ r.applied = j
    /\ r.state = n.state /\ r.id = n.id /\ r.role = n.role
    /\ r.lead = n.lead /\ r.cache = n.cache /\ r.have = n.have
    /\ \A i \in Id : \/ r.peers[i] = n.peers[i] \/ r.peers[i] = None
                     \/ node[r.peers[i]].id = i
    /\ n.peers[1] = Founder => r.peers[1] = Founder
    /\ 1 \in n.conf => 1 \in r.conf
    /\ \/ Trouble
       \/ /\ n.conf \subseteq r.conf
          /\ \A i \in r.conf : r.peers[i] = None => i \in n.conf /\ n.peers[i] = None

\* One more entry.
LEMMA AppliedReaches ==
    ASSUME Ids, NEW n \in NodeRecord, NEW r, NEW j \in Nat, Reached(n, r, j),
           NEW e \in Entry, SoundEntry(e)
    PROVE  Reached(n, Applied(r, e), j + 1)
<1> DEFINE s == Applied(r, e)
<1>1. r \in NodeRecord /\ r.applied = j
  BY DEF Reached
<1>2. CASE e.type = "add"
  <2>1. e.id \in Id /\ e.addr \in Process /\ node[e.addr].id = e.id
    BY <1>2, EntryFields DEF SoundEntry
  <2>2. s = [r EXCEPT !.applied = j + 1, !.conf = r.conf \cup {e.id},
                      !.peers = [r.peers EXCEPT ![e.id] = e.addr]]
    BY <1>1, <1>2, RecordFields DEF Applied
  <2> HIDE DEF s
  <2>3. s \in NodeRecord /\ s.applied = j + 1
        /\ s.state = r.state /\ s.id = r.id /\ s.role = r.role
        /\ s.lead = r.lead /\ s.cache = r.cache /\ s.have = r.have
        /\ s.conf = r.conf \cup {e.id} /\ s.peers = [r.peers EXCEPT ![e.id] = e.addr]
    <3>1. [r.peers EXCEPT ![e.id] = e.addr] \in [Id -> Process \cup {None}]
      BY <1>1, <2>1, RecordFields
    <3>2. r.conf \cup {e.id} \in SUBSET Id /\ j + 1 \in Nat
      BY <1>1, <2>1, RecordFields
    <3>3. QED BY <1>1, <2>2, <3>1, <3>2 DEF NodeRecord
  <2>4. \A i \in Id : s.peers[i] = IF i = e.id THEN e.addr ELSE r.peers[i]
    BY <1>1, <2>3, RecordFields
  <2>5. e.id = 1 => e.addr = Founder
    BY <2>1 DEF Ids
  <2>6. e.addr # None /\ 1 \in Id /\ r.conf \subseteq Id /\ n.conf \subseteq Id
    BY <1>1, <2>1, Constants, RecordFields
  <2>7. \A i \in Id : \/ s.peers[i] = n.peers[i] \/ s.peers[i] = None
                      \/ node[s.peers[i]].id = i
    BY <2>1, <2>4 DEF Reached
  <2>8. n.peers[1] = Founder => s.peers[1] = Founder
    BY <2>4, <2>5, <2>6 DEF Reached
  <2>9. 1 \in n.conf => 1 \in s.conf
    BY <2>3 DEF Reached
  <2>10. \/ Trouble
         \/ /\ n.conf \subseteq s.conf
            /\ \A i \in s.conf : s.peers[i] = None => i \in n.conf /\ n.peers[i] = None
    BY <2>1, <2>3, <2>4, <2>6 DEF Reached
  <2>11. Reached(n, s, j + 1)
    BY <2>3, <2>7, <2>8, <2>9, <2>10 DEF Reached
  <2>12. QED BY <2>11 DEF s
<1>3. CASE e.type = "remove"
  <2>1. e.id \in Id /\ e.id # 1 /\ Trouble
    BY <1>3, EntryFields DEF SoundEntry, Trouble
  <2>2. s = [r EXCEPT !.applied = j + 1, !.conf = r.conf \ {e.id},
                      !.peers = [r.peers EXCEPT ![e.id] = None]]
    BY <1>1, <1>3, RecordFields DEF Applied
  <2> HIDE DEF s
  <2>3. s \in NodeRecord /\ s.applied = j + 1
        /\ s.state = r.state /\ s.id = r.id /\ s.role = r.role
        /\ s.lead = r.lead /\ s.cache = r.cache /\ s.have = r.have
        /\ s.conf = r.conf \ {e.id} /\ s.peers = [r.peers EXCEPT ![e.id] = None]
    <3>1. [r.peers EXCEPT ![e.id] = None] \in [Id -> Process \cup {None}]
      BY <1>1, <2>1, RecordFields
    <3>2. r.conf \ {e.id} \in SUBSET Id /\ j + 1 \in Nat
      BY <1>1, <2>1, RecordFields
    <3>3. QED BY <1>1, <2>2, <3>1, <3>2 DEF NodeRecord
  <2>4. \A i \in Id : s.peers[i] = IF i = e.id THEN None ELSE r.peers[i]
    BY <1>1, <2>3, RecordFields
  <2>5. Reached(n, s, j + 1)
    BY <2>1, <2>3, <2>4, Constants DEF Reached
  <2>6. QED BY <2>5 DEF s
<1>4. CASE e.type \notin {"add", "remove"}
  <2>1. s = [r EXCEPT !.applied = j + 1]
    BY <1>1, <1>4, RecordFields DEF Applied, NodeRecord
  <2>2. s \in NodeRecord /\ s.applied = j + 1
        /\ s.state = r.state /\ s.id = r.id /\ s.role = r.role
        /\ s.lead = r.lead /\ s.cache = r.cache /\ s.have = r.have
        /\ s.conf = r.conf /\ s.peers = r.peers
    BY <1>1, <2>1 DEF NodeRecord
  <2> HIDE DEF s
  <2>3. Reached(n, s, j + 1)
    BY <2>2 DEF Reached
  <2>4. QED BY <2>3 DEF s
<1>5. QED BY <1>2, <1>3, <1>4

\* All of them.
LEMMA ApplyUpToReaches ==
    ASSUME Ids, log \in Seq(Entry), \A j \in DOMAIN log : SoundEntry(log[j]),
           NEW n \in NodeRecord, NEW k \in Nat, n.applied <= k, k <= Len(log)
    PROVE  Reached(n, ApplyUpTo(n, k), k)
<1>1. n.applied \in Nat
  BY RecordFields
<1>2. PICK f : Applies(f, n, k) /\ ApplyUpTo(n, k) = f[k]
  BY <1>1, ApplyUpToDefined
<1> DEFINE Bad == {j \in n.applied .. k : ~ Reached(n, f[j], j)}
<1>3. SUFFICES ASSUME Bad # {} PROVE FALSE
  BY <1>1, <1>2
<1>4. Bad \in SUBSET Nat
  BY <1>1
<1>5. PICK j \in Bad : \A y \in Bad : j <= y
  BY <1>3, <1>4, LeastNumber
<1>6. j \in n.applied .. k /\ ~ Reached(n, f[j], j)
  BY <1>5
<1>7. f[j] = IF j = n.applied THEN n ELSE Applied(f[j - 1], log[j])
  BY <1>2, <1>6 DEF Applies
<1>8. CASE j = n.applied
  <2>1. Reached(n, n, j)
    BY <1>8 DEF Reached
  <2>2. QED BY <1>6, <1>7, <1>8, <2>1
<1>9. CASE j # n.applied
  <2>1. j - 1 \in n.applied .. k /\ j - 1 \notin Bad /\ j - 1 \in Nat /\ j \in DOMAIN log
    BY <1>1, <1>5, <1>6, <1>9
  <2>2. Reached(n, f[j - 1], j - 1) /\ log[j] \in Entry /\ SoundEntry(log[j])
    BY <2>1
  <2>3. Reached(n, Applied(f[j - 1], log[j]), (j - 1) + 1)
    BY <2>1, <2>2, AppliedReaches
  <2>4. (j - 1) + 1 = j
    BY <1>6, <2>1
  <2>5. QED BY <1>6, <1>7, <1>9, <2>3, <2>4
<1>10. QED BY <1>8, <1>9


-----------------------------------------------------------------------------
Has(boxes, q, m) == \E j \in DOMAIN boxes[q] : boxes[q][j] = m

Boxes == [Process -> Seq(Message)]

\* All that is new in b is m, for q.
OneMore(boxes, b, q, m) ==
    \A x \in Process : \A k \in DOMAIN b[x] :
        Has(boxes, x, b[x][k]) \/ (x = q /\ b[x][k] = m)

\* A message that is sent is the only new one.
LEMMA Sent ==
    ASSUME NEW boxes \in Boxes, NEW q \in Process, NEW m \in Message
    PROVE  With(boxes, q, m) \in Boxes /\ OneMore(boxes, With(boxes, q, m), q, m)
<1>0. PICK b : b = With(boxes, q, m)
  OBVIOUS
<1> SUFFICES b \in Boxes /\ OneMore(boxes, b, q, m)
  BY <1>0
<1> USE DEF Boxes
<1>1. CASE Running(q)
  <2>1. b = [boxes EXCEPT ![q] = Append(boxes[q], m)]
    BY <1>0, <1>1 DEF With
  <2>2. PICK s : s = boxes[q] /\ s \in Seq(Message)
    OBVIOUS
  <2>3. /\ Append(s, m) \in Seq(Message) /\ DOMAIN Append(s, m) = 1 .. Len(s) + 1
        /\ \A k \in 1 .. Len(s) + 1 : Append(s, m)[k] = IF k = Len(s) + 1 THEN m ELSE s[k]
    BY <2>2
  <2>4. \A k \in 1 .. Len(s) + 1 : k = Len(s) + 1 \/ k \in DOMAIN s
    BY <2>2
  <2>5. \A x \in Process : b[x] = IF x = q THEN Append(s, m) ELSE boxes[x]
    BY <2>1, <2>2
  <2>6. b \in [Process -> Seq(Message)]
    BY <2>1, <2>2, <2>3
  <2>7. OneMore(boxes, b, q, m)
    BY <2>2, <2>3, <2>4, <2>5 DEF Has, OneMore
  <2>8. QED BY <2>6, <2>7
<1>2. CASE ~ Running(q)
  BY <1>0, <1>2 DEF With, Has, OneMore
<1>3. QED BY <1>1, <1>2

\* Without its first message a mailbox has nothing new.
LEMMA Received ==
    ASSUME mailbox \in [Process -> Seq(Message)], NEW p \in Process, mailbox[p] # <<>>
    PROVE  /\ Without(p) \in [Process -> Seq(Message)]
           /\ \A x \in Process : \A k \in DOMAIN Without(p)[x] :
                 Has(mailbox, x, Without(p)[x][k])
           /\ Head(mailbox[p]) \in Message /\ Has(mailbox, p, Head(mailbox[p]))
<1>1. PICK s : s = mailbox[p] /\ s \in Seq(Message) /\ s # <<>>
  OBVIOUS
<1>2. /\ Tail(s) \in Seq(Message) /\ DOMAIN Tail(s) = 1 .. Len(s) - 1
      /\ \A k \in 1 .. Len(s) - 1 : Tail(s)[k] = s[k + 1] /\ k + 1 \in DOMAIN s
      /\ Head(s) \in Message /\ Head(s) = s[1] /\ 1 \in DOMAIN s
  BY <1>1
<1>3. PICK b : b = Without(p)
  OBVIOUS
<1>4. b = [mailbox EXCEPT ![p] = Tail(s)]
  BY <1>1, <1>3 DEF Without
<1>5. \A x \in Process : b[x] = IF x = p THEN Tail(s) ELSE mailbox[x]
  BY <1>4
<1>6. b \in [Process -> Seq(Message)]
  BY <1>2, <1>4
<1>7. \A x \in Process : \A k \in DOMAIN b[x] : Has(mailbox, x, b[x][k])
  <2> SUFFICES ASSUME NEW x \in Process, NEW k \in DOMAIN b[x]
               PROVE  \E j \in DOMAIN mailbox[x] : mailbox[x][j] = b[x][k]
    BY DEF Has
  <2>1. CASE x = p
    <3>1. k \in 1 .. Len(s) - 1 /\ b[x][k] = Tail(s)[k]
      BY <1>2, <1>5, <2>1
    <3>2. QED BY <1>1, <1>2, <2>1, <3>1
  <2>2. CASE x # p
    BY <1>5, <2>2
  <2>3. QED BY <2>1, <2>2
<1>8. QED BY <1>1, <1>2, <1>3, <1>6, <1>7 DEF Has

\* A mailbox that is emptied, either.
LEMMA NothingLeft ==
    ASSUME mailbox \in [Process -> Seq(Message)], NEW p \in Process, NEW b,
           b = [mailbox EXCEPT ![p] = <<>>]
    PROVE  /\ b \in [Process -> Seq(Message)]
           /\ \A x \in Process : \A k \in DOMAIN b[x] : Has(mailbox, x, b[x][k])
  BY DEF Has

-----------------------------------------------------------------------------
\* Node p, which is alive, becomes r.
Changed(p, r) ==
    /\ node' = [node EXCEPT ![p] = r] /\ r \in NodeRecord /\ r.id = node[p].id
    /\ Alive(p) /\ r.state # "off"
    /\ r.state = "running" => node[p].state = "running"
    /\ node[p].state = "halted" => r.state \in {"halted", "crashed"}
    /\ r.state = "stuck" => node[p].state = "stuck" \/ Hangs(p)
    /\ blind' = blind /\ faults \subseteq faults' /\ early \subseteq early'
    /\ listening \ {p} \subseteq listening'

\* Every message is an old one or satisfies the predicate on messages.
NewMessagesSound ==
    \A x \in Process : \A k \in DOMAIN mailbox'[x] :
        Has(mailbox, x, mailbox'[x][k]) \/ SoundMessage(x, mailbox[x][k])'

NewMessagesWithin ==
    \A x \in Process : \A k \in DOMAIN mailbox'[x] :
        Has(mailbox, x, mailbox'[x][k]) \/ MessageWithin(mailbox[x][k])'

NewEntriesSound ==
    \A k \in DOMAIN log' : (k \in DOMAIN log /\ log'[k] = log[k]) \/ SoundEntry(log[k])'

HaltsForAReason(p) ==
    \/ node[p].state = "halted" \/ "crash" \in faults' \/ p \in blind
    \/ p = Founder /\ Excuse'

\* Loops that end for a reason leave others stuck for one.
LEMMA StuckForAReason ==
    ASSUME Founder \in Process, Hung', \A q \in Process : Sound(q, node[q])',
           \A q \in Process : node'[q].state = "halted" =>
               "crash" \in faults' \/ q \in blind' \/ (q = Founder /\ Excuse')
    PROVE  LoopsEndForAReason'
<1>1. ASSUME NEW q \in Process, node'[q].state = "stuck"
      PROVE  "crash" \in faults' \/ \E x \in Process : node'[x].state = "halted"
  <2>1. CASE q = Founder
    BY <1>1, <2>1 DEF Hung, Hangs
  <2>2. CASE q # Founder
    <3>1. node'[Founder].state \in {"halted", "stuck", "crashed"}
      BY <1>1, <2>2 DEF Hung, Hangs
    <3>2. CASE node'[Founder].state = "halted"
      BY <3>2
    <3>3. CASE node'[Founder].state = "stuck"
      BY <3>3 DEF Hung, Hangs
    <3>4. CASE node'[Founder].state = "crashed"
      BY <3>4 DEF Sound
    <3>5. QED BY <3>1, <3>2, <3>3, <3>4
  <2>3. QED BY <2>1, <2>2
<1>2. QED BY <1>1 DEF LoopsEndForAReason, Excuse

\* What is left to show of a step that changes one node.
LEMMA GroupStep ==
    ASSUME Types, Group, NEW p \in Process, NEW r, Changed(p, r), Sound(p, r)',
           NewEntriesSound, NewMessagesSound,
           p = Founder => (Trouble' \/ node[p].conf \subseteq r.conf) /\ Leadership',
           r.lead # 0 => node[p].lead # 0 \/ Member(p)',
           r.state = "halted" => HaltsForAReason(p)
    PROVE  Group'
<1>1. /\ \A q \in Process : node'[q] = IF q = p THEN r ELSE node[q]
      /\ \A q \in Process : node'[q].id = node[q].id
      /\ blind' = blind /\ faults \subseteq faults' /\ early \subseteq early'
      /\ Founder \in Process /\ node[p].state # "off" /\ r.state # "off"
  BY Constants DEF Changed, Types, Alive
<1>2. Ids'
  BY <1>1 DEF Group, Ids
<1>3. (Trouble => Trouble') /\ (Excuse => Excuse')
  BY <1>1 DEF Trouble, Excuse
<1>4. \A q \in Process : Sound(q, node[q])'
  <2> SUFFICES ASSUME NEW q \in Process PROVE Sound(q, node[q])'
    OBVIOUS
  <2>1. CASE q = p
    BY <1>1, <2>1 DEF Sound
  <2>2. CASE q # p
    <3>1. node'[q] = node[q] /\ Sound(q, node[q]) /\ node[q] \in NodeRecord
      BY <1>1, <2>2 DEF Group, Types
    <3>2. \A i \in Id : node[q].peers[i] # None => node[q].peers[i] \in Process
      BY <3>1, RecordFields
    <3>3. QED BY <1>1, <3>1, <3>2 DEF Sound
  <2>3. QED BY <2>1, <2>2
<1>5. \A k \in DOMAIN log' : SoundEntry(log[k])'
  <2> SUFFICES ASSUME NEW k \in DOMAIN log', k \in DOMAIN log, log'[k] = log[k]
               PROVE  SoundEntry(log[k])'
    BY DEF NewEntriesSound
  <2>1. SoundEntry(log[k]) /\ log[k] \in Entry
    BY DEF Group, Types
  <2>2. log[k].type = "add" => log[k].addr \in Process
    BY <2>1, EntryFields
  <2>3. QED BY <1>1, <2>1, <2>2 DEF SoundEntry
<1>6. Trouble' \/ node[Founder].conf \subseteq node'[Founder].conf
  BY <1>1
<1>7. \A q \in Process : Member(q) => Member(q)'
  BY <1>1, <1>3, <1>6 DEF Member
<1>8. \A x \in Process : \A k \in DOMAIN mailbox'[x] : SoundMessage(x, mailbox[x][k])'
  <2> SUFFICES ASSUME NEW x \in Process, NEW k \in DOMAIN mailbox'[x],
                      Has(mailbox, x, mailbox'[x][k])
               PROVE  SoundMessage(x, mailbox[x][k])'
    BY DEF NewMessagesSound
  <2>1. PICK m : m = mailbox'[x][k] /\ SoundMessage(x, m)
    BY DEF Has, Group
  <2>2. SoundMessage(x, m)'
    BY <1>3, <1>6, <1>7, <2>1 DEF SoundMessage
  <2>3. QED BY <2>1, <2>2 DEF SoundMessage
<1>9. Leadership'
  <2>1. CASE p # Founder
    <3>1. node'[Founder] = node[Founder] /\ (Founder \in listening => Founder \in listening')
      BY <1>1, <2>1 DEF Changed
    <3>2. QED BY <1>3, <3>1 DEF Leadership, Group
  <2>2. QED BY <2>1
<1>10. Membership'
  <2>1. \A q \in Process : node'[q].lead # 0 => Member(q)'
    BY <1>1, <1>7 DEF Group, Membership
  <2>2. blind \subseteq Process
    BY DEF Types
  <2>3. \A q \in blind' : (Trouble \/ \E i \in node[Founder].conf : i \notin {1, node[q].id})'
    BY <1>1, <1>3, <1>6, <2>2 DEF Group, Membership
  <2>4. QED BY <2>1, <2>3 DEF Membership
<1>11. ASSUME NEW q \in Process, node'[q].state = "halted"
       PROVE  "crash" \in faults' \/ q \in blind' \/ (q = Founder /\ Excuse')
  <2>1. node[q].state = "halted" => "crash" \in faults \/ q \in blind \/ (q = Founder /\ Excuse)
    BY DEF Group, LoopsEndForAReason, Excuse
  <2>2. CASE q = p
    BY <1>1, <1>3, <1>11, <2>1, <2>2 DEF HaltsForAReason
  <2>3. CASE q # p
    BY <1>1, <1>3, <1>11, <2>1, <2>3
  <2>4. QED BY <2>2, <2>3
<1>12. Hung'
  <2> SUFFICES ASSUME NEW q \in Process, node'[q].state = "stuck" PROVE Hangs(q)'
    BY DEF Hung
  <2>1. /\ r.state = "running" => node[p].state = "running"
        /\ node[p].state = "halted" => r.state \in {"halted", "crashed"}
        /\ r.state = "stuck" => node[p].state = "stuck" \/ Hangs(p)
        /\ r.state = "crashed" => "crash" \in faults'
        /\ r.state \in {"off", "running", "halted", "stuck", "crashed"}
    BY <1>1, RecordFields DEF Changed, Sound
  <2>2. Hangs(q)
    BY <1>1, <2>1 DEF Group, Hung
  <2>3. CASE q = Founder
    <3>1. "crash" \in faults \/ \E x \in Process : node[x].state = "halted"
      BY <2>2, <2>3 DEF Hangs
    <3>2. CASE "crash" \in faults
      BY <1>1, <2>3, <3>2 DEF Hangs
    <3>3. CASE \E x \in Process : node[x].state = "halted"
      <4>1. PICK x \in Process : node[x].state = "halted"
        BY <3>3
      <4>2. node'[x].state = "halted" \/ "crash" \in faults'
        BY <1>1, <2>1, <4>1
      <4>3. QED BY <2>3, <4>2 DEF Hangs
    <3>4. QED BY <3>1, <3>2, <3>3
  <2>4. CASE q # Founder
    <3>1. node[Founder].state \in {"halted", "stuck", "crashed"}
      BY <2>2, <2>4 DEF Hangs
    <3>2. node'[Founder].state \in {"halted", "stuck", "crashed"}
      BY <1>1, <2>1, <3>1
    <3>3. QED BY <2>4, <3>2 DEF Hangs
  <2>5. QED BY <2>3, <2>4
<1>13. LoopsEndForAReason'
  BY <1>1, <1>4, <1>11, <1>12, StuckForAReason
<1>14. QED BY <1>2, <1>4, <1>5, <1>8, <1>9, <1>10, <1>12, <1>13 DEF Group


\* The same for the types; what a step may do to the variables that are not
\* in Changed.
LEMMA TypesStep ==
    ASSUME Types, NEW p \in Process, NEW r, Changed(p, r),
           \/ (listening' = listening /\ r.state \in {"running", "halted", "stuck"})
           \/ (listening' = listening \cup {p} /\ r.state \in {"running", "halted", "stuck"})
           \/ listening' = listening \ {p},
           join' \in [Process -> [pc : {"none", "call", "waiting", "done", "failed"},
                                  at : Process \cup {None}]],
           mailbox' \in [Process -> Seq(Message)],
           log' \in Seq(Entry), commit' \in Nat, commit' <= Len(log'),
           match' \in [Id -> 0 .. Len(log')],
           task' \in [Command -> [pc : {"none", "retry", "wait", "ok", "error", "gone"},
                                  at : Process \cup {None}]],
           faults' \subseteq {"crash", "delay", "removal"}, early' \subseteq Process
    PROVE  Types'
<1>1. /\ node' \in [Process -> NodeRecord] /\ blind' \subseteq Process
      /\ \A q \in Process : node'[q] = IF q = p THEN r ELSE node[q]
  BY DEF Changed, Types
<1>2. listening' \subseteq Process /\ \A q \in listening' : Alive(q)'
  BY <1>1 DEF Types, Alive
<1>3. QED BY <1>1, <1>2 DEF Types

\* The same for the bounds.
LEMMA BoundedStep ==
    ASSUME Types, Bounded, Group, NEW p \in Process, NEW r, Changed(p, r),
           Len(log) <= Len(log'), Len(log') \in Nat, log' = log \/ p = Founder,
           commit <= commit', commit' \in Nat, Within(r)', NewMessagesWithin,
           mailbox' \in [Process -> Seq(Message)]
    PROVE  Bounded'
<1>1. \A q \in Process : node'[q] = IF q = p THEN r ELSE node[q]
  BY DEF Changed, Types
<1>2. \A q \in Process : Within(node[q])'
  <2> SUFFICES ASSUME NEW q \in Process PROVE Within(node[q])'
    OBVIOUS
  <2>1. CASE q = p
    BY <1>1, <2>1 DEF Within
  <2>2. CASE q # p
    <3>1. node'[q] = node[q] /\ node[q] \in NodeRecord /\ Within(node[q])
      BY <1>1, <2>2 DEF Types, Bounded
    <3>2. node[q].role = "leader" => log' = log
      BY <2>2 DEF Group, Sound
    <3>3. node[q].have \in Nat /\ node[q].applied \in Nat /\ commit \in Nat /\ Len(log) \in Nat
      BY <3>1, RecordFields DEF Types
    <3>4. QED BY <3>1, <3>2, <3>3 DEF Within
  <2>3. QED BY <2>1, <2>2
<1>3. \A x \in Process : \A k \in DOMAIN mailbox'[x] : MessageWithin(mailbox[x][k])'
  <2> SUFFICES ASSUME NEW x \in Process, NEW k \in DOMAIN mailbox'[x],
                      Has(mailbox, x, mailbox'[x][k])
               PROVE  MessageWithin(mailbox[x][k])'
    BY DEF NewMessagesWithin
  <2>1. PICK m \in Message : m = mailbox'[x][k] /\ MessageWithin(m)
    BY DEF Has, Bounded, Types
  <2>2. MessageWithin(m)'
    <3>1. commit \in Nat /\ Len(log) \in Nat
      BY DEF Types
    <3>2. QED BY <2>1, <3>1, MessageFields DEF MessageWithin
  <2>3. QED BY <2>1, <2>2 DEF MessageWithin
<1>4. QED BY <1>2, <1>3 DEF Bounded


-----------------------------------------------------------------------------
\* No command is put into the log, or into the founder's mailbox.
LogKept(c) == \A k \in DOMAIN log' : InLog(c, k)' => k \in DOMAIN log /\ InLog(c, k)

MailKept(c) ==
    /\ \A j, k \in DOMAIN mailbox'[Founder] : OnItsWay(c, j)' /\ OnItsWay(c, k)' => j = k
    /\ \A k \in DOMAIN mailbox'[Founder] : OnItsWay(c, k)' =>
           \E j \in DOMAIN mailbox[Founder] : OnItsWay(c, j)

\* A step that puts it nowhere leaves it in one place.
LEMMA OnePlaceKept ==
    ASSUME NEW c \in Command, OnePlace(c), LogKept(c), MailKept(c),
           task'[c].pc \in {"none", "retry"} => task[c].pc \in {"none", "retry"}
    PROVE  OnePlace(c)'
<1>1. \A j, k \in DOMAIN log' : InLog(c, j)' /\ InLog(c, k)' => j = k
  BY DEF OnePlace, LogKept
<1>2. \A j, k \in DOMAIN mailbox'[Founder] : OnItsWay(c, j)' /\ OnItsWay(c, k)' => j = k
  BY DEF MailKept
<1>3. \A j \in DOMAIN log', k \in DOMAIN mailbox'[Founder] :
         ~ (InLog(c, j)' /\ OnItsWay(c, k)')
  BY DEF OnePlace, LogKept, MailKept
<1>4. task'[c].pc \in {"none", "retry"} =>
         /\ \A k \in DOMAIN log' : ~ InLog(c, k)'
         /\ \A k \in DOMAIN mailbox'[Founder] : ~ OnItsWay(c, k)'
  BY DEF OnePlace, LogKept, MailKept
<1>5. QED BY <1>1, <1>2, <1>3, <1>4 DEF OnePlace

\* An entry that is no command.
LEMMA LogAppended ==
    ASSUME NEW c \in Command, log \in Seq(Entry), NEW e \in Entry, e # CommandEntry(c),
           log' = Append(log, e)
    PROVE  LogKept(c)
<1>1. DOMAIN log' = 1 .. Len(log) + 1 /\ DOMAIN log = 1 .. Len(log)
      /\ log'[Len(log) + 1] = e /\ \A k \in 1 .. Len(log) : log'[k] = log[k]
  OBVIOUS
<1>2. QED BY <1>1 DEF LogKept, InLog

\* The mailbox stays, loses a message, or gets one that is no proposal.
LEMMA MailUnchanged ==
    ASSUME NEW c \in Command, OnePlace(c), mailbox'[Founder] = mailbox[Founder]
    PROVE  MailKept(c)
  BY DEF MailKept, OnePlace, OnItsWay

\* An empty one holds nothing.
LEMMA MailEmptied ==
    ASSUME NEW c \in Command, mailbox'[Founder] = <<>>
    PROVE  MailKept(c)
  BY DEF MailKept

\* What is left of it after the first message.
LEMMA MailReceived ==
    ASSUME NEW c \in Command, OnePlace(c), NEW s \in Seq(Message), s = mailbox[Founder],
           s # <<>>, mailbox'[Founder] = Tail(s)
    PROVE  MailKept(c)
<1>1. /\ DOMAIN Tail(s) = 1 .. Len(s) - 1 /\ DOMAIN s = 1 .. Len(s)
      /\ \A k \in 1 .. Len(s) - 1 : Tail(s)[k] = s[k + 1] /\ k + 1 \in DOMAIN s
  OBVIOUS
<1>2. \A k \in DOMAIN Tail(s) : OnItsWay(c, k)' => k + 1 \in DOMAIN s /\ OnItsWay(c, k + 1)
  BY <1>1 DEF OnItsWay
<1>3. \A j, k \in DOMAIN s : OnItsWay(c, j) /\ OnItsWay(c, k) => j = k
  BY DEF OnePlace
<1>4. \A j, k \in DOMAIN Tail(s) : OnItsWay(c, j)' /\ OnItsWay(c, k)' => j = k
  <2> SUFFICES ASSUME NEW j \in DOMAIN Tail(s), NEW k \in DOMAIN Tail(s),
                      OnItsWay(c, j)', OnItsWay(c, k)'
               PROVE  j = k
    OBVIOUS
  <2>1. j + 1 = k + 1
    BY <1>2, <1>3
  <2>2. QED BY <1>1, <2>1
<1>5. QED BY <1>2, <1>4 DEF MailKept

\* One message more.
LEMMA MailAppended ==
    ASSUME NEW c \in Command, OnePlace(c), NEW s \in Seq(Message), s = mailbox[Founder],
           NEW m \in Message, m # ProposeMsg(c), mailbox'[Founder] = Append(s, m)
    PROVE  MailKept(c)
<1>1. /\ DOMAIN Append(s, m) = 1 .. Len(s) + 1 /\ DOMAIN s = 1 .. Len(s)
      /\ Append(s, m)[Len(s) + 1] = m
      /\ \A k \in 1 .. Len(s) : Append(s, m)[k] = s[k]
  OBVIOUS
<1>2. \A k \in DOMAIN Append(s, m) : OnItsWay(c, k)' => k \in DOMAIN s /\ OnItsWay(c, k)
  BY <1>1 DEF OnItsWay
<1>3. QED BY <1>2 DEF MailKept, OnePlace

\* The founder's mailbox with a message that is no proposal, for anybody.
LEMMA MailSent ==
    ASSUME NEW c \in Command, OnePlace(c), NEW boxes \in [Process -> Seq(Message)],
           boxes[Founder] = mailbox[Founder], NEW q \in Process, NEW m \in Message,
           m # ProposeMsg(c), mailbox' = With(boxes, q, m)
    PROVE  MailKept(c)
<1>1. Founder \in Process
  BY Constants
<1>2. PICK s \in Seq(Message) : s = mailbox[Founder]
  BY <1>1
<1>3. mailbox'[Founder] = s \/ mailbox'[Founder] = Append(s, m)
  BY <1>1, <1>2 DEF With
<1>4. CASE mailbox'[Founder] = s
  BY <1>2, <1>4, MailUnchanged
<1>5. CASE mailbox'[Founder] = Append(s, m)
  BY <1>2, <1>5, MailAppended
<1>6. QED BY <1>3, <1>4, <1>5

\* A command that is applied stays applied.
LEMMA HonouredKept ==
    ASSUME Types, Callers, NEW c \in Command, Honoured(c), NEW p \in Process, NEW r,
           Changed(p, r), node[p].applied <= r.applied \/ task'[c].at # p,
           \A k \in DOMAIN log : k \in DOMAIN log' /\ log'[k] = log[k],
           task'[c].pc = "ok" => task'[c] = task[c]
    PROVE  Honoured(c)'
<1> SUFFICES ASSUME task'[c].pc = "ok" PROVE Honoured(c)'
  BY DEF Honoured
<1>1. PICK k \in DOMAIN log : InLog(c, k) /\ k <= node[task[c].at].applied
  BY DEF Honoured
<1>2. task[c].at \in Process
  BY DEF Callers, Types
<1>3. PICK x \in Process : x = task[c].at /\ x = task'[c].at
  BY <1>2
<1>4. node'[x] = (IF x = p THEN r ELSE node[x]) /\ r \in NodeRecord /\ node[x] \in NodeRecord
  BY DEF Changed, Types
<1>5. node[x].applied \in Nat /\ node'[x].applied \in Nat /\ k \in Nat
  BY <1>4, RecordFields DEF Types
<1>6. node[x].applied <= node'[x].applied
  BY <1>3, <1>4, <1>5
<1>7. k \in DOMAIN log' /\ InLog(c, k)' /\ k <= node'[x].applied
  BY <1>1, <1>3, <1>5, <1>6 DEF InLog
<1>8. QED BY <1>3, <1>7 DEF Honoured


-----------------------------------------------------------------------------
\* The inductive invariant.
Inv == Types /\ Bounded /\ Group /\ Proposals

JoinType == [Process -> [pc : {"none", "call", "waiting", "done", "failed"},
                         at : Process \cup {None}]]

\* The mailbox of p is left, emptied, or loses its first message.
Read(p) ==
    \/ mailbox' = mailbox
    \/ mailbox' = [mailbox EXCEPT ![p] = <<>>]
    \/ mailbox[p] # <<>> /\ mailbox' = Without(p)

\* Nothing new is in it then.
LEMMA ReadNothingNew ==
    ASSUME mailbox \in [Process -> Seq(Message)], NEW p \in Process, Read(p)
    PROVE  /\ mailbox' \in [Process -> Seq(Message)] /\ NewMessagesSound /\ NewMessagesWithin
           /\ \A c \in Command : OnePlace(c) => MailKept(c)
<1>0. Founder \in Process
  BY Constants
<1>1. CASE mailbox' = mailbox
  <2>1. mailbox' \in [Process -> Seq(Message)] /\ NewMessagesSound /\ NewMessagesWithin
    BY <1>1 DEF NewMessagesSound, NewMessagesWithin, Has
  <2>2. \A c \in Command : OnePlace(c) => MailKept(c)
    BY <1>1, MailUnchanged
  <2>3. QED BY <2>1, <2>2
<1>2. CASE mailbox' = [mailbox EXCEPT ![p] = <<>>]
  <2>1. mailbox' \in [Process -> Seq(Message)] /\ NewMessagesSound /\ NewMessagesWithin
    BY <1>2, NothingLeft DEF NewMessagesSound, NewMessagesWithin
  <2>2. mailbox'[Founder] = mailbox[Founder] \/ mailbox'[Founder] = <<>>
    BY <1>0, <1>2
  <2>3. \A c \in Command : OnePlace(c) => MailKept(c)
    BY <2>2, MailUnchanged, MailEmptied
  <2>4. QED BY <2>1, <2>3
<1>3. CASE mailbox[p] # <<>> /\ mailbox' = Without(p)
  <2>1. mailbox' \in [Process -> Seq(Message)] /\ NewMessagesSound /\ NewMessagesWithin
    BY <1>3, Received DEF NewMessagesSound, NewMessagesWithin
  <2>2. CASE p = Founder
    <3>1. mailbox[Founder] \in Seq(Message) /\ mailbox'[Founder] = Tail(mailbox[Founder])
      BY <1>0, <1>3, <2>2 DEF Without
    <3>2. \A c \in Command : OnePlace(c) => MailKept(c)
      BY <1>3, <2>2, <3>1, MailReceived
    <3>3. QED BY <2>1, <3>2
  <2>3. CASE p # Founder
    <3>1. mailbox'[Founder] = mailbox[Founder]
      BY <1>0, <1>3, <2>3 DEF Without
    <3>2. \A c \in Command : OnePlace(c) => MailKept(c)
      BY <3>1, MailUnchanged
    <3>3. QED BY <2>1, <3>2
  <2>4. QED BY <2>2, <2>3
<1>4. QED BY <1>1, <1>2, <1>3 DEF Read

\* A step that neither proposes, applies nor answers: what is left to show.
LEMMA QuietStep ==
    ASSUME Inv, NEW p \in Process, NEW r, Changed(p, r), Read(p),
           r.state \in {"running", "halted", "stuck"}, r.applied = node[p].applied,
           r.have = node[p].have, r.role = "leader" => node[p].role = "leader",
           UNCHANGED <<raftVars, task>>, join' \in JoinType,
           listening' = listening \/ listening' = listening \cup {p},
           faults' \subseteq {"crash", "delay", "removal"}, early' \subseteq Process,
           Sound(p, r)', p = Founder => node[p].conf = r.conf /\ Leadership',
           r.lead # 0 => node[p].lead # 0, r.state = "halted" => HaltsForAReason(p)
    PROVE  Inv'
<1>1. Types /\ Bounded /\ Group /\ Proposals
  BY DEF Inv
<1>2. /\ mailbox' \in [Process -> Seq(Message)] /\ NewMessagesSound /\ NewMessagesWithin
      /\ \A c \in Command : OnePlace(c) => MailKept(c)
  <2>1. mailbox \in [Process -> Seq(Message)]
    BY <1>1 DEF Types
  <2>2. QED BY <2>1, ReadNothingNew
<1>3. log' = log /\ commit' = commit /\ match' = match /\ task' = task
  BY DEF raftVars
<1>4. Types'
  <2>1. /\ log' \in Seq(Entry) /\ commit' \in Nat /\ commit' <= Len(log')
        /\ match' \in [Id -> 0 .. Len(log')]
        /\ task' \in [Command -> [pc : {"none", "retry", "wait", "ok", "error", "gone"},
                                  at : Process \cup {None}]]
    BY <1>1, <1>3 DEF Types
  <2>2. QED BY <1>1, <1>2, <2>1, TypesStep DEF JoinType
<1>5. Bounded'
  <2>1. Within(node[p])
    BY <1>1 DEF Bounded
  <2>2. Within(r)'
    BY <1>3, <2>1 DEF Within
  <2>3. Len(log) \in Nat /\ commit \in Nat
    BY <1>1 DEF Types
  <2>4. Len(log) <= Len(log') /\ Len(log') \in Nat /\ commit <= commit' /\ commit' \in Nat
    BY <1>3, <2>3
  <2>5. QED BY <1>1, <1>2, <1>3, <2>2, <2>4, BoundedStep
<1>6. Group'
  <2>1. NewEntriesSound
    BY <1>3 DEF NewEntriesSound
  <2>2. QED BY <1>1, <1>2, <2>1, GroupStep
<1>7. Callers'
  <2>1. \A q \in Process : Alive(q) => Alive(q)'
    BY <1>1 DEF Changed, Types, Alive
  <2>2. QED BY <1>1, <1>3, <2>1 DEF Proposals, Callers, Types
<1>8. ASSUME NEW c \in Command PROVE OnePlace(c)' /\ Honoured(c)'
  <2>1. OnePlace(c) /\ Honoured(c) /\ Callers
    BY <1>1 DEF Proposals
  <2>2. LogKept(c)
    BY <1>3 DEF LogKept, InLog
  <2>3. OnePlace(c)'
    BY <1>2, <1>3, <2>1, <2>2, OnePlaceKept
  <2>4. r.applied \in Nat
    BY RecordFields DEF Changed
  <2>5. node[p].applied <= r.applied
    BY <2>4
  <2>6. Honoured(c)'
    BY <1>1, <1>3, <2>1, <2>5, HonouredKept
  <2>7. QED BY <2>3, <2>6
<1>9. QED BY <1>4, <1>5, <1>6, <1>7, <1>8 DEF Inv, Proposals


\* The parts of the invariant about one node.
LEMMA NodeFacts ==
    ASSUME Inv, NEW p \in Process
    PROVE  /\ node[p] \in NodeRecord /\ Sound(p, node[p]) /\ Within(node[p])
           /\ node[p].id # 0 => node[p].id \in Id
  BY RecordFields DEF Inv, Types, Bounded, Group

\* A quiet step that leaves configuration and addresses.
LEMMA SmallStep ==
    ASSUME Inv, NEW p \in Process, NEW r, Changed(p, r), Read(p),
           r.state \in {"running", "halted", "stuck"}, r.applied = node[p].applied,
           r.have = node[p].have, r.conf = node[p].conf, r.peers = node[p].peers,
           \/ r.role = node[p].role
           \/ (r.role # "leader" /\ (p = Founder => Excuse')),
           r.lead \in {0, node[p].lead}, r.cache \in {0, 1},
           UNCHANGED <<raftVars, task>>, join' \in JoinType,
           listening' = listening \/ listening' = listening \cup {p},
           faults' \subseteq {"crash", "delay", "removal"}, early' \subseteq Process,
           r.state = "halted" => HaltsForAReason(p)
    PROVE  Inv'
<1>1. Types /\ Group /\ Sound(p, node[p]) /\ node[p] \in NodeRecord
  BY NodeFacts DEF Inv
<1>2. /\ \A q \in Process : node'[q] = IF q = p THEN r ELSE node[q]
      /\ \A q \in Process : node'[q].id = node[q].id
      /\ blind' = blind /\ faults \subseteq faults' /\ early \subseteq early'
      /\ node[p].state \in {"running", "halted", "stuck"}
  BY <1>1 DEF Changed, Types, Alive
<1>3. Sound(p, r)'
  <2>1. \A i \in Id : r.peers[i] # None => r.peers[i] \in Process
    BY <1>1, RecordFields
  <2>2. \A i \in Id : r.peers[i] # None => node'[r.peers[i]].id = i
    BY <1>1, <1>2, <2>1 DEF Sound
  <2>3. r.lead \in {0, 1} /\ (r.role = "leader" => p = Founder)
    BY <1>1 DEF Sound
  <2>4. r.state = "running" => node[p].state = "running"
    BY DEF Changed
  <2>5. QED BY <1>1, <1>2, <2>2, <2>3, <2>4 DEF Sound
<1>4. p = Founder => Leadership'
  <2> SUFFICES ASSUME p = Founder PROVE Leadership'
    OBVIOUS
  <2>1. node'[Founder] = r /\ (Trouble => Trouble') /\ (Excuse => Excuse')
    BY <1>2 DEF Trouble, Excuse
  <2>2. QED BY <1>1, <1>2, <2>1 DEF Leadership, Group
<1>5. r.role = "leader" => node[p].role = "leader"
  OBVIOUS
<1>6. QED BY <1>3, <1>4, <1>5, QuietStep

\* A process starts to listen.
LEMMA ListenStep ==
    ASSUME Inv, NEW p \in Process, Listen(p)
    PROVE  Inv'
<1>1. PICK r : r = node[p]
  OBVIOUS
<1>2. Types /\ r \in NodeRecord /\ Sound(p, r)
  BY <1>1, NodeFacts DEF Inv
<1>3. Changed(p, r) /\ Read(p)
  BY <1>1, <1>2 DEF Listen, Changed, Read, Alive, Types, countVars
<1>4. /\ r.state \in {"running", "halted", "stuck"} /\ r.cache \in {0, 1}
      /\ UNCHANGED <<raftVars, task>> /\ join' \in JoinType
      /\ listening' = listening \cup {p}
      /\ faults' \subseteq {"crash", "delay", "removal"} /\ early' \subseteq Process
  BY <1>1, <1>2 DEF Listen, Alive, Types, JoinType, Sound, countVars
<1>5. r.state = "halted" => HaltsForAReason(p)
  BY <1>1 DEF HaltsForAReason
<1>6. QED BY <1>1, <1>3, <1>4, <1>5, SmallStep

\* The tracker asks the node.
LEMMA TrackLeaderStep ==
    ASSUME Inv, NEW p \in Process, TrackLeader(p)
    PROVE  Inv'
<1>1. PICK r : r = [node[p] EXCEPT !.cache = node[p].lead]
  OBVIOUS
<1>2. Types /\ node[p] \in NodeRecord /\ Sound(p, node[p])
  BY NodeFacts DEF Inv
<1>3. /\ r \in NodeRecord /\ r.cache = node[p].lead /\ r.state = node[p].state
      /\ r.id = node[p].id /\ r.applied = node[p].applied /\ r.have = node[p].have
      /\ r.conf = node[p].conf /\ r.peers = node[p].peers /\ r.role = node[p].role
      /\ r.lead = node[p].lead
  BY <1>1, <1>2 DEF NodeRecord
<1>4. Changed(p, r) /\ Read(p)
  <2>1. node' = [node EXCEPT ![p] = r]
    BY <1>1, <1>2 DEF TrackLeader, Types
  <2>2. QED BY <1>3, <2>1 DEF TrackLeader, Free, Changed, Read, Alive, countVars
<1>5. /\ r.state \in {"running", "halted", "stuck"} /\ r.cache \in {0, 1}
      /\ UNCHANGED <<raftVars, task>> /\ join' \in JoinType
      /\ listening' = listening
      /\ faults' \subseteq {"crash", "delay", "removal"} /\ early' \subseteq Process
  BY <1>2, <1>3 DEF TrackLeader, Free, Types, JoinType, Sound, countVars
<1>6. r.state = "halted" => HaltsForAReason(p)
  BY <1>3 DEF HaltsForAReason
<1>7. QED BY <1>3, <1>4, <1>5, <1>6, SmallStep

\* An election time-out.
LEMMA TimeoutStep ==
    ASSUME Inv, NEW p \in Process, Timeout(p)
    PROVE  Inv'
<1>1. PICK r : r = [node[p] EXCEPT !.role = "precandidate", !.lead = 0]
  OBVIOUS
<1>2. Types /\ Group /\ node[p] \in NodeRecord /\ Sound(p, node[p])
  BY NodeFacts DEF Inv
<1>3. /\ r \in NodeRecord /\ r.cache = node[p].cache /\ r.state = node[p].state
      /\ r.id = node[p].id /\ r.applied = node[p].applied /\ r.have = node[p].have
      /\ r.conf = node[p].conf /\ r.peers = node[p].peers /\ r.role = "precandidate"
      /\ r.lead = 0
  BY <1>1, <1>2 DEF NodeRecord
<1>4. node' = [node EXCEPT ![p] = r]
  BY <1>1, <1>2 DEF Timeout, Types
<1>5. /\ node[p].state = "running" /\ faults \subseteq faults'
      /\ faults' \subseteq {"crash", "delay", "removal"}
      /\ UNCHANGED <<listening, join, mailbox, raftVars, task, blind, early>>
      /\ node[p].role = "follower"
  BY <1>2 DEF Timeout, Fault, Running, Types
<1>6. Changed(p, r) /\ Read(p)
  BY <1>3, <1>4, <1>5 DEF Changed, Read, Alive
<1>7. p = Founder => Excuse'
  BY <1>2, <1>5 DEF Group, Leadership, Excuse
<1>8. join' \in JoinType /\ early' \subseteq Process /\ r.cache \in {0, 1} /\ r.state = "running"
  BY <1>2, <1>3, <1>5 DEF Types, JoinType, Sound
<1>9. QED BY <1>3, <1>5, <1>6, <1>7, <1>8, SmallStep


\* A leader without an excuse has a quorum that is alive: at most one member
\* is not, and then there are three.
LEMMA QuorumIsAlive ==
    ASSUME Inv, Running(Founder), ~ Excuse
    PROVE  QuorumAlive(Founder)
<1>1. Types /\ Group /\ Founder \in Process /\ node[Founder] \in NodeRecord
      /\ Sound(Founder, node[Founder]) /\ ~ Trouble /\ node[Founder].id = 1
  BY Constants, NodeFacts DEF Inv, Excuse, Trouble, Group, Ids
<1>2. PICK C : C = node[Founder].conf
  OBVIOUS
<1>3. PICK A : A = {i \in C : \/ i = 1
                              \/ (node[Founder].peers[i] # None
                                  /\ Running(node[Founder].peers[i]))}
  OBVIOUS
<1>4. C \subseteq Id /\ IsFiniteSet(C) /\ 1 \in C /\ 1 \in A /\ A \subseteq C /\ IsFiniteSet(A)
  <2>1. C \subseteq Id /\ IsFiniteSet(C)
    BY <1>1, <1>2, RecordFields, Constants, FS_Subset
  <2>2. 1 \in C
    BY <1>1, <1>2 DEF Group, Leadership, Running
  <2>3. QED BY <1>3, <2>1, <2>2, FS_Subset
<1>5. Cardinality(A) \in Nat /\ Cardinality(C) \in Nat
  BY <1>4, FS_CardinalityType
<1>6. \A i \in C \ A : \E q \in blind : node[q].id = i
  <2> SUFFICES ASSUME NEW i \in C \ A PROVE \E q \in blind : node[q].id = i
    OBVIOUS
  <2>1. PICK q : q = node[Founder].peers[i]
    OBVIOUS
  <2>2. q # None /\ i # 1 /\ i # 0 /\ i \in Id /\ ~ Running(q)
    BY <1>1, <1>2, <1>3, <1>4, <2>1, Constants DEF Group, Leadership
  <2>3. q \in Process /\ node[q].id = i
    BY <1>1, <2>1, <2>2, RecordFields DEF Sound
  <2>4. node[q].state = "halted"
    <3>0. node[q].state # "stuck"
      BY <1>1, <2>2, <2>3 DEF Group, Hung, Hangs, Running
    <3>1. node[q].state # "off"
      BY <1>1, <2>2, <2>3 DEF Group, Ids
    <3>2. node[q].state # "crashed"
      BY <1>1, <2>3 DEF Group, Sound, Trouble
    <3>3. node[q].state \in {"off", "running", "halted", "stuck", "crashed"}
      BY <1>1, <2>3, RecordFields DEF Types
    <3>4. QED BY <2>2, <3>0, <3>1, <3>2, <3>3 DEF Running
  <2>5. q # Founder
    BY <1>1, <2>2, <2>3
  <2>6. q \in blind
    BY <1>1, <2>3, <2>4, <2>5 DEF Group, LoopsEndForAReason, Trouble
  <2>7. QED BY <2>3, <2>6
<1>7. \A q1, q2 \in blind : q1 = q2
  BY DEF Excuse
<1>8. 2 * Cardinality(A) > Cardinality(C)
  <2>1. CASE C \ A = {}
    <3>1. A = C
      BY <1>4, <2>1
    <3>2. Cardinality(C) # 0
      BY <1>4, FS_EmptySet
    <3>3. QED BY <1>5, <3>1, <3>2
  <2>2. CASE C \ A # {}
    <3>1. PICK i \in C \ A : TRUE
      BY <2>2
    <3>2. PICK q \in blind : node[q].id = i
      BY <1>6
    <3>3. \A j \in C \ A : j = i
      BY <1>6, <1>7, <3>2
    <3>4. A = C \ {i}
      BY <1>4, <3>1, <3>3
    <3>5. Cardinality(A) = Cardinality(C) - 1
      BY <1>4, <3>1, <3>4, FS_RemoveElement
    <3>6. PICK j \in C : j \notin {1, node[q].id}
      BY <1>1, <1>2 DEF Group, Membership
    <3>7. j \in A /\ j # 1
      BY <3>2, <3>3, <3>6
    <3>8. /\ Cardinality(A \ {1}) = Cardinality(A) - 1 /\ IsFiniteSet(A \ {1})
          /\ j \in A \ {1}
      BY <1>4, <3>7, FS_RemoveElement
    <3>9. /\ Cardinality((A \ {1}) \ {j}) = Cardinality(A \ {1}) - 1
          /\ IsFiniteSet((A \ {1}) \ {j})
      BY <3>8, FS_RemoveElement
    <3>10. Cardinality((A \ {1}) \ {j}) \in Nat /\ Cardinality(A \ {1}) \in Nat
      BY <3>8, <3>9, FS_CardinalityType
    <3>11. Cardinality(A) >= 2
      BY <1>5, <3>8, <3>9, <3>10
    <3>12. QED BY <1>5, <3>5, <3>11
  <2>3. QED BY <2>1, <2>2
<1>9. QED BY <1>1, <1>2, <1>3, <1>8 DEF QuorumAlive

\* A leader steps down.
LEMMA StepDownStep ==
    ASSUME Inv, NEW p \in Process, StepDown(p)
    PROVE  Inv'
<1>1. PICK r : r = [node[p] EXCEPT !.role = "follower", !.lead = 0]
  OBVIOUS
<1>2. Types /\ Group /\ node[p] \in NodeRecord /\ Sound(p, node[p])
  BY NodeFacts DEF Inv
<1>3. /\ r \in NodeRecord /\ r.cache = node[p].cache /\ r.state = node[p].state
      /\ r.id = node[p].id /\ r.applied = node[p].applied /\ r.have = node[p].have
      /\ r.conf = node[p].conf /\ r.peers = node[p].peers /\ r.role = "follower"
      /\ r.lead = 0
  BY <1>1, <1>2 DEF NodeRecord
<1>4. node' = [node EXCEPT ![p] = r]
  BY <1>1, <1>2 DEF StepDown, Types
<1>5. /\ node[p].state = "running" /\ faults \subseteq faults'
      /\ faults' \subseteq {"crash", "delay", "removal"}
      /\ UNCHANGED <<listening, join, mailbox, raftVars, task, blind, early>>
  BY <1>2 DEF StepDown, Fault, Running, Types
<1>6. Changed(p, r) /\ Read(p)
  BY <1>3, <1>4, <1>5 DEF Changed, Read, Alive
<1>7. p = Founder => Excuse'
  <2>1. CASE p = Founder /\ QuorumAlive(p)
    BY <2>1 DEF StepDown, Fault, Excuse
  <2>2. CASE p = Founder /\ ~ QuorumAlive(p)
    <3>1. Excuse
      BY <1>5, <2>2, QuorumIsAlive DEF Running
    <3>2. QED BY <1>5, <3>1 DEF Excuse
  <2>3. QED BY <2>1, <2>2
<1>8. join' \in JoinType /\ early' \subseteq Process /\ r.cache \in {0, 1} /\ r.state = "running"
  BY <1>2, <1>3, <1>5 DEF Types, JoinType, Sound
<1>9. QED BY <1>3, <1>5, <1>6, <1>7, <1>8, SmallStep


\* An event loop ends, for a reason.
LEMMA HaltStep ==
    ASSUME Inv, NEW p \in Process, Running(p), Halt(p), HaltsForAReason(p),
           UNCHANGED <<raftVars, task, join, listening, faults, blind>>,
           early \subseteq early', early' \subseteq Process
    PROVE  Inv'
<1>1. PICK r : r = [node[p] EXCEPT !.state = "halted"]
  OBVIOUS
<1>2. Types /\ node[p] \in NodeRecord /\ Sound(p, node[p])
  BY NodeFacts DEF Inv
<1>3. /\ r \in NodeRecord /\ r.cache = node[p].cache /\ r.state = "halted"
      /\ r.id = node[p].id /\ r.applied = node[p].applied /\ r.have = node[p].have
      /\ r.conf = node[p].conf /\ r.peers = node[p].peers /\ r.role = node[p].role
      /\ r.lead = node[p].lead
  BY <1>1, <1>2 DEF NodeRecord
<1>4. node' = [node EXCEPT ![p] = r] /\ mailbox' = [mailbox EXCEPT ![p] = <<>>]
  BY <1>1, <1>2 DEF Halt, Emptied, Types
<1>5. Changed(p, r) /\ Read(p)
  BY <1>3, <1>4 DEF Changed, Read, Alive, Running
<1>6. /\ join' \in JoinType /\ faults' \subseteq {"crash", "delay", "removal"}
      /\ r.cache \in {0, 1}
  BY <1>2, <1>3 DEF Types, JoinType, Sound
<1>7. QED BY <1>3, <1>5, <1>6, SmallStep

\* An event loop waits for ever, for a reason.
LEMMA HangStep ==
    ASSUME Inv, NEW p \in Process, Running(p), Hang(p), Hangs(p),
           UNCHANGED <<raftVars, task, join, listening, faults, blind, early>>
    PROVE  Inv'
<1>1. PICK r : r = [node[p] EXCEPT !.state = "stuck"]
  OBVIOUS
<1>2. Types /\ node[p] \in NodeRecord /\ Sound(p, node[p])
  BY NodeFacts DEF Inv
<1>3. /\ r \in NodeRecord /\ r.cache = node[p].cache /\ r.state = "stuck"
      /\ r.id = node[p].id /\ r.applied = node[p].applied /\ r.have = node[p].have
      /\ r.conf = node[p].conf /\ r.peers = node[p].peers /\ r.role = node[p].role
      /\ r.lead = node[p].lead
  BY <1>1, <1>2 DEF NodeRecord
<1>4. node' = [node EXCEPT ![p] = r] /\ mailbox' = [mailbox EXCEPT ![p] = <<>>]
  BY <1>1, <1>2 DEF Hang, Emptied, Types
<1>5. Changed(p, r) /\ Read(p)
  BY <1>3, <1>4 DEF Changed, Read, Alive, Running
<1>6. /\ join' \in JoinType /\ faults' \subseteq {"crash", "delay", "removal"}
      /\ early' \subseteq Process /\ r.cache \in {0, 1}
  BY <1>2, <1>3 DEF Types, JoinType, Sound
<1>7. QED BY <1>3, <1>5, <1>6, SmallStep

\* What a step that only sends, forwards or refuses leaves of a node.
LEMMA SameNode ==
    ASSUME Inv, NEW p \in Process, node' = node, Alive(p), Read(p),
           UNCHANGED <<raftVars, task, listening, faults, blind, early>>, join' \in JoinType
    PROVE  Inv'
<1>1. PICK r : r = node[p]
  OBVIOUS
<1>2. Types /\ r \in NodeRecord /\ Sound(p, r)
  BY <1>1, NodeFacts DEF Inv
<1>3. Changed(p, r)
  BY <1>1, <1>2 DEF Changed, Alive, Types
<1>4. /\ r.state \in {"running", "halted", "stuck"} /\ r.cache \in {0, 1}
      /\ faults' \subseteq {"crash", "delay", "removal"} /\ early' \subseteq Process
  BY <1>1, <1>2 DEF Types, Sound, Alive
<1>5. r.state = "halted" => HaltsForAReason(p)
  BY <1>1 DEF HaltsForAReason
<1>6. QED BY <1>1, <1>3, <1>4, <1>5, SmallStep

\* A step that changes no node and sends a message that is no proposal to q.
LEMMA SendMessage ==
    ASSUME Inv, NEW p \in Process, Alive(p), NEW q \in Process, NEW m \in Message,
           node' = node, mailbox' = With(mailbox, q, m), m.type # "propose",
           SoundMessage(q, m), MessageWithin(m),
           UNCHANGED <<raftVars, task, join, listening, faults, blind, early>>
    PROVE  Inv'
<1>1. Types /\ Bounded /\ Group /\ Proposals
  BY DEF Inv
<1>2. PICK r : r = node[p]
  OBVIOUS
<1>3. r \in NodeRecord /\ Sound(p, r) /\ Within(r)
  BY <1>2, NodeFacts
<1>4. Changed(p, r)
  BY <1>1, <1>2, <1>3 DEF Changed, Alive, Types
<1>5. /\ mailbox' \in [Process -> Seq(Message)]
      /\ \A x \in Process : \A k \in DOMAIN mailbox'[x] :
            Has(mailbox, x, mailbox'[x][k]) \/ (x = q /\ mailbox'[x][k] = m)
  <2>1. mailbox \in [Process -> Seq(Message)]
    BY <1>1 DEF Types
  <2>2. mailbox \in Boxes
    BY <2>1 DEF Boxes
  <2>3. With(mailbox, q, m) \in Boxes /\ OneMore(mailbox, With(mailbox, q, m), q, m)
    BY <2>2, Sent
  <2>4. QED BY <2>3 DEF Boxes, OneMore
<1>6. log' = log /\ commit' = commit /\ match' = match /\ task' = task
  BY DEF raftVars
<1>7. NewMessagesSound
  <2>1. SoundMessage(q, m)'
    BY DEF SoundMessage, Member, Trouble
  <2>2. \A x \in Process : \A k \in DOMAIN mailbox'[x] :
           (x = q /\ mailbox'[x][k] = m) => SoundMessage(x, mailbox[x][k])'
    BY <2>1 DEF SoundMessage
  <2>3. QED BY <1>5, <2>2 DEF NewMessagesSound
<1>8. NewMessagesWithin
  <2>1. MessageWithin(m)'
    BY <1>6 DEF MessageWithin
  <2>2. \A x \in Process : \A k \in DOMAIN mailbox'[x] :
           mailbox'[x][k] = m => MessageWithin(mailbox[x][k])'
    BY <2>1 DEF MessageWithin
  <2>3. QED BY <1>5, <2>2 DEF NewMessagesWithin
<1>9. Types'
  BY <1>1, <1>5, <1>6 DEF Types, Alive
<1>10. Bounded'
  <2>1. Within(r)'
    BY <1>3, <1>6 DEF Within
  <2>2. /\ Len(log) <= Len(log') /\ Len(log') \in Nat
        /\ commit <= commit' /\ commit' \in Nat
    BY <1>1, <1>6 DEF Types
  <2>3. QED BY <1>1, <1>4, <1>5, <1>6, <1>8, <2>1, <2>2, BoundedStep
<1>11. Group'
  <2>1. NewEntriesSound
    BY <1>6 DEF NewEntriesSound
  <2>2. Sound(p, r)'
    BY <1>3 DEF Sound
  <2>3. Leadership'
    BY <1>1 DEF Group, Leadership, Excuse, Trouble
  <2>4. r.state = "halted" => HaltsForAReason(p)
    BY <1>2 DEF HaltsForAReason
  <2>5. node[p].conf \subseteq r.conf /\ (r.lead # 0 => node[p].lead # 0)
    BY <1>2
  <2>6. QED BY <1>1, <1>4, <1>7, <2>1, <2>2, <2>3, <2>4, <2>5, GroupStep
<1>12. Callers'
  BY <1>1, <1>6 DEF Proposals, Callers, Alive
<1>13. ASSUME NEW c \in Command PROVE OnePlace(c)' /\ Honoured(c)'
  <2>1. OnePlace(c) /\ Honoured(c) /\ m # ProposeMsg(c)
    BY <1>1 DEF Proposals, ProposeMsg
  <2>2. LogKept(c)
    BY <1>6 DEF LogKept, InLog
  <2>3. MailKept(c)
    BY <1>1, <2>1, MailSent DEF Types
  <2>4. OnePlace(c)'
    BY <1>6, <2>1, <2>2, <2>3, OnePlaceKept
  <2>5. Honoured(c)'
    BY <1>6, <2>1 DEF Honoured, InLog
  <2>6. QED BY <2>4, <2>5
<1>14. QED BY <1>9, <1>10, <1>11, <1>12, <1>13 DEF Inv, Proposals

\* The leader sends to a member, or fails to.
LEMMA SendStep ==
    ASSUME Inv, NEW p \in Process, NEW i \in Id, Send(p, i)
    PROVE  Inv'
<1>1. Types /\ Group /\ node[p] \in NodeRecord /\ Sound(p, node[p])
  BY NodeFacts DEF Inv
<1>2. PICK q : q = node[p].peers[i]
  OBVIOUS
<1>3. /\ Running(p) /\ IsLeader(p) /\ i \in node[p].conf /\ i # node[p].id
      /\ UNCHANGED <<listening, join, raftVars, task, faults, blind>>
  BY DEF Send
<1>4. p = Founder /\ i # 1 /\ node[p].id = 1 /\ q \in Process \cup {None}
  BY <1>1, <1>2, <1>3, RecordFields DEF Sound, IsLeader, Group, Ids
<1>5. CASE Reachable(p, i) /\ Running(q)
  <2>1. /\ mailbox' = With(mailbox, q, AppendMsg(node[p].id, Len(log), commit))
        /\ UNCHANGED <<node, early>>
    BY <1>2, <1>5 DEF Send
  <2>2. q \in Process /\ node[q].id = i
    BY <1>1, <1>2, <1>5, Constants DEF Reachable, Types, Sound
  <2>3. PICK m : m = AppendMsg(1, Len(log), commit)
    OBVIOUS
  <2>4. /\ m \in Message /\ m.type = "append" /\ m.from = 1 /\ m.upto = Len(log)
        /\ m.commit = commit
    BY <1>1, <2>3, Constants DEF AppendMsg, Message, Types
  <2>5. SoundMessage(q, m)
    <3>1. q # Founder /\ Member(q)
      BY <1>3, <1>4, <2>2 DEF Member
    <3>2. QED BY <2>4, <3>1 DEF SoundMessage
  <2>6. MessageWithin(m)
    BY <1>1, <2>4 DEF MessageWithin, Types
  <2>7. Alive(p)
    BY <1>3 DEF Alive, Running
  <2>8. QED BY <1>3, <1>4, <2>1, <2>2, <2>3, <2>4, <2>5, <2>6, <2>7, SendMessage
<1>6. CASE ~ Reachable(p, i)
  <2>1. /\ Halt(p)
        /\ early' = IF q # None /\ node[q].state # "crashed" THEN early \cup {q} ELSE early
    BY <1>2, <1>6 DEF Send
  <2>2. early \subseteq early' /\ early' \subseteq Process
    BY <1>1, <1>4, <2>1 DEF Types
  <2>3. Excuse'
    <3>1. CASE q = None
      BY <1>1, <1>2, <1>3, <1>4, <3>1 DEF Group, Leadership, Trouble, Excuse
    <3>2. CASE q # None /\ node[q].state = "crashed"
      BY <1>1, <1>3, <1>4, <3>2 DEF Group, Sound, Excuse
    <3>3. CASE q # None /\ node[q].state # "crashed"
      BY <2>1, <3>3 DEF Excuse
    <3>4. QED BY <3>1, <3>2, <3>3
  <2>4. HaltsForAReason(p)
    BY <1>4, <2>3 DEF HaltsForAReason
  <2>5. QED BY <1>3, <2>1, <2>2, <2>4, HaltStep
<1>7. CASE Reachable(p, i) /\ ~ Running(q)
  <2>1. Hang(p) /\ UNCHANGED early
    BY <1>2, <1>7 DEF Send
  <2>2. q \in listening /\ q \in Process /\ node[q].id = i
    BY <1>1, <1>2, <1>7, Constants DEF Reachable, Types, Sound
  <2>3. node[q].state \in {"halted", "stuck"} /\ q # Founder
    BY <1>1, <1>4, <1>7, <2>2 DEF Types, Alive, Running
  <2>4. node[q].state # "stuck"
    BY <1>1, <1>3, <1>4, <2>2, <2>3 DEF Group, Hung, Hangs, Running
  <2>5. Hangs(p)
    BY <1>4, <2>2, <2>3, <2>4 DEF Hangs
  <2>6. QED BY <1>3, <2>1, <2>5, HangStep
<1>8. QED BY <1>5, <1>6, <1>7


TaskType == [Command -> [pc : {"none", "retry", "wait", "ok", "error", "gone"},
                         at : Process \cup {None}]]

\* Entry e comes at the end.
Grown(e) == e \in Entry /\ SoundEntry(e)' /\ log' = Append(log, e)

\* The leader's log stays or grows: what is left to show.
LEMMA GrowStep ==
    ASSUME Inv, NEW r, Changed(Founder, r), Read(Founder),
           log' = log \/ \E e : Grown(e), r.have = Len(log'),
           r.state = node[Founder].state, r.role = node[Founder].role,
           r.lead = node[Founder].lead, r.cache = node[Founder].cache,
           r.conf = node[Founder].conf, r.applied = node[Founder].applied,
           \A i \in Id : \/ r.peers[i] = node[Founder].peers[i]
                         \/ (r.peers[i] \in Process /\ node[r.peers[i]].id = i),
           UNCHANGED <<listening, commit, match, early>>,
           faults' \subseteq {"crash", "delay", "removal"}, join' \in JoinType,
           task' \in TaskType, Callers', \A c \in Command : OnePlace(c)',
           \A c \in Command : task'[c].pc = "ok" => task'[c] = task[c]
    PROVE  Inv'
<1>1. Types /\ Bounded /\ Group /\ Proposals
  BY DEF Inv
<1>2. /\ Founder \in Process /\ node[Founder] \in NodeRecord
      /\ Sound(Founder, node[Founder]) /\ Within(node[Founder]) /\ Alive(Founder)
  BY Constants, NodeFacts DEF Changed
<1>3. /\ mailbox' \in [Process -> Seq(Message)] /\ NewMessagesSound /\ NewMessagesWithin
  <2>1. mailbox \in [Process -> Seq(Message)]
    BY <1>1 DEF Types
  <2>2. QED BY <1>2, <2>1, ReadNothingNew
<1>4. /\ log \in Seq(Entry) /\ log' \in Seq(Entry) /\ Len(log) \in Nat /\ Len(log') \in Nat
      /\ Len(log) <= Len(log') /\ \A k \in DOMAIN log : k \in DOMAIN log' /\ log'[k] = log[k]
      /\ NewEntriesSound
  <2>1. log \in Seq(Entry)
    BY <1>1 DEF Types
  <2>2. CASE log' = log
    BY <2>1, <2>2 DEF NewEntriesSound
  <2>3. CASE \E e : Grown(e)
    <3>1. PICK e : Grown(e)
      BY <2>3
    <3>2. e \in Entry /\ SoundEntry(e)' /\ log' = Append(log, e)
      BY <3>1 DEF Grown
    <3>3. /\ log' \in Seq(Entry) /\ Len(log') = Len(log) + 1 /\ log'[Len(log) + 1] = e
          /\ DOMAIN log' = 1 .. Len(log) + 1 /\ DOMAIN log = 1 .. Len(log)
          /\ \A k \in 1 .. Len(log) : log'[k] = log[k]
      BY <2>1, <3>2
    <3>5. \A k \in DOMAIN log' : (k \in DOMAIN log /\ log'[k] = log[k]) \/ log'[k] = e
      BY <2>1, <3>3
    <3>6. \A k \in DOMAIN log' : log'[k] = e => SoundEntry(log[k])'
      BY <3>2 DEF SoundEntry
    <3>7. NewEntriesSound
      BY <3>5, <3>6 DEF NewEntriesSound
    <3>8. QED BY <2>1, <3>3, <3>7
  <2>4. QED BY <2>2, <2>3
<1>5. commit \in Nat /\ commit' = commit /\ commit' <= Len(log') /\ commit <= commit'
  BY <1>1, <1>4 DEF Types
<1>6. Types'
  <2>1. match' \in [Id -> 0 .. Len(log')]
    BY <1>1, <1>4 DEF Types
  <2>2. r.state \in {"running", "halted", "stuck"} /\ early' \subseteq Process
    BY <1>1, <1>2 DEF Alive, Types
  <2>3. QED BY <1>1, <1>2, <1>3, <1>4, <1>5, <2>1, <2>2, TypesStep DEF JoinType, TaskType
<1>7. Bounded'
  <2>1. r \in NodeRecord
    BY DEF Changed
  <2>2. Within(r)'
    BY <1>1, <1>2, <1>4, <1>5, <2>1, RecordFields DEF Within, Types
  <2>3. QED BY <1>1, <1>2, <1>3, <1>4, <1>5, <2>2, BoundedStep
<1>8. Group'
  <2>1. /\ \A q \in Process : node'[q].id = node[q].id
        /\ node'[Founder] = r /\ blind' = blind /\ faults \subseteq faults'
    BY <1>1, <1>2 DEF Changed, Types
  <2>2. \A i \in Id : r.peers[i] # None => node'[r.peers[i]].id = i
    <3>1. \A i \in Id : node[Founder].peers[i] # None => node[Founder].peers[i] \in Process
      BY <1>2, RecordFields
    <3>2. QED BY <1>2, <2>1, <3>1 DEF Sound
  <2>3. r.peers[1] = Founder /\ Founder \notin blind
    <3>1. node[Founder].peers[1] = Founder /\ Founder \notin blind
      BY <1>2 DEF Sound, Alive
    <3>2. r.peers[1] \in Process /\ node[r.peers[1]].id = 1 => r.peers[1] = Founder
      BY <1>1 DEF Group, Ids
    <3>3. QED BY <3>1, <3>2, Constants
  <2>4. Sound(Founder, r)'
    BY <1>2, <2>1, <2>2, <2>3 DEF Sound, Alive
  <2>5. Leadership'
    <3>1. \A i \in node[Founder].conf : node[Founder].peers[i] # None => r.peers[i] # None
      BY <1>2, RecordFields, Constants
    <3>2. (Trouble => Trouble') /\ (Excuse => Excuse')
      BY <2>1 DEF Trouble, Excuse
    <3>3. QED BY <1>1, <2>1, <3>1, <3>2 DEF Group, Leadership
  <2>6. r.state = "halted" => HaltsForAReason(Founder)
    BY DEF HaltsForAReason
  <2>7. QED BY <1>1, <1>2, <1>3, <1>4, <2>4, <2>5, <2>6, GroupStep
<1>9. ASSUME NEW c \in Command PROVE Honoured(c)'
  <2>1. Honoured(c) /\ Callers
    BY <1>1 DEF Proposals
  <2>2. r.applied \in Nat
    BY RecordFields DEF Changed
  <2>3. node[Founder].applied <= r.applied
    BY <2>2
  <2>4. QED BY <1>1, <1>2, <1>4, <2>1, <2>3, HonouredKept
<1>10. QED BY <1>6, <1>7, <1>8, <1>9 DEF Inv, Proposals

\* When no task changes and no command enters the log, the commands stay.
LEMMA CommandsStay ==
    ASSUME Inv, NEW r, Changed(Founder, r), r.state = node[Founder].state, Read(Founder),
           task' = task, log' = log \/ \E e : Grown(e) /\ e.type # "command"
    PROVE  task' \in TaskType /\ Callers' /\ \A c \in Command : OnePlace(c)'
<1>1. Types /\ Proposals /\ Founder \in Process
  BY Constants DEF Inv
<1>2. task' \in TaskType /\ log \in Seq(Entry) /\ mailbox \in [Process -> Seq(Message)]
  BY <1>1 DEF Types, TaskType
<1>3. \A q \in Process : Alive(q) => Alive(q)'
  BY <1>1 DEF Changed, Alive, Types
<1>4. Callers'
  BY <1>1, <1>3 DEF Proposals, Callers, Types
<1>5. ASSUME NEW c \in Command PROVE OnePlace(c)'
  <2>1. OnePlace(c) /\ MailKept(c)
    BY <1>1, <1>2, ReadNothingNew DEF Proposals
  <2>2. LogKept(c)
    <3>1. CASE log' = log
      BY <3>1 DEF LogKept, InLog
    <3>2. CASE \E e : Grown(e) /\ e.type # "command"
      <4>1. PICK e : e \in Entry /\ log' = Append(log, e) /\ e.type # "command"
        BY <3>2 DEF Grown
      <4>2. e # CommandEntry(c)
        BY <4>1 DEF CommandEntry
      <4>3. QED BY <1>2, <4>1, <4>2, LogAppended
    <3>3. QED BY <3>1, <3>2
  <2>3. QED BY <2>1, <2>2, OnePlaceKept
<1>6. QED BY <1>2, <1>4, <1>5


\* The log of a leader is in its storage.
LEMMA StoredRecord ==
    ASSUME Inv, log' \in Seq(Entry), NEW r, r = [node[Founder] EXCEPT !.have = Len(log')]
    PROVE  /\ r \in NodeRecord /\ r.have = Len(log') /\ r.state = node[Founder].state
           /\ r.id = node[Founder].id /\ r.role = node[Founder].role
           /\ r.lead = node[Founder].lead /\ r.cache = node[Founder].cache
           /\ r.conf = node[Founder].conf /\ r.applied = node[Founder].applied
           /\ r.peers = node[Founder].peers
           /\ Stored(Founder) = [node EXCEPT ![Founder] = r]
<1>1. node[Founder] \in NodeRecord /\ Founder \in Process /\ node \in [Process -> NodeRecord]
  BY NodeFacts, Constants DEF Inv, Types
<1>2. Len(log') \in Nat
  OBVIOUS
<1>3. QED BY <1>1, <1>2 DEF NodeRecord, Stored

\* A configuration change that is proposed is one of two entries.
LEMMA Proposed ==
    ASSUME log \in Seq(Entry), NEW e \in Entry, ProposeConf(e), SoundEntry(e)',
           e.type # "command"
    PROVE  log' \in Seq(Entry) /\ \E x : Grown(x) /\ x.type # "command"
<1>1. PICK x : x \in {e, EmptyEntry} /\ log' = Append(log, x)
  BY DEF ProposeConf
<1>2. x \in Entry /\ x.type # "command" /\ SoundEntry(x)'
  BY <1>1, EntryTypes DEF EmptyEntry, SoundEntry
<1>3. QED BY <1>1, <1>2 DEF Grown

\* The removal of a node.
LEMMA RemoveNodeStep ==
    ASSUME Inv, NEW p \in Process, NEW i \in Id, remove_node(p, i)
    PROVE  Inv'
<1>1. Types /\ Group /\ Sound(p, node[p]) /\ log \in Seq(Entry)
  BY NodeFacts DEF Inv, Types
<1>2. p = Founder /\ i # 1 /\ Running(p)
  BY <1>1 DEF remove_node, IsLeader, Sound, Group, Ids
<1>3. /\ ProposeConf(RemoveEntry(i)) /\ node' = Stored(p)
      /\ UNCHANGED <<listening, join, mailbox, commit, match, task, blind, early>>
      /\ "removal" \in faults' /\ faults \subseteq faults'
      /\ faults' \subseteq {"crash", "delay", "removal"}
  BY <1>1 DEF remove_node, Fault, Types
<1>4. PICK e : e = RemoveEntry(i)
  OBVIOUS
<1>5. e \in Entry /\ SoundEntry(e)' /\ e.type # "command"
  BY <1>2, <1>3, <1>4, EntryTypes DEF RemoveEntry, SoundEntry
<1>6. log' \in Seq(Entry) /\ \E x : Grown(x) /\ x.type # "command"
  BY <1>1, <1>3, <1>4, <1>5, Proposed
<1>7. PICK r : r = [node[Founder] EXCEPT !.have = Len(log')]
  OBVIOUS
<1>8. /\ r \in NodeRecord /\ r.have = Len(log') /\ r.state = node[Founder].state
      /\ r.id = node[Founder].id /\ r.role = node[Founder].role
      /\ r.lead = node[Founder].lead /\ r.cache = node[Founder].cache
      /\ r.conf = node[Founder].conf /\ r.applied = node[Founder].applied
      /\ r.peers = node[Founder].peers /\ node' = [node EXCEPT ![Founder] = r]
  BY <1>2, <1>3, <1>6, <1>7, StoredRecord
<1>9. Changed(Founder, r) /\ Read(Founder)
  BY <1>2, <1>3, <1>8 DEF Changed, Read, Alive, Running
<1>10. task' \in TaskType /\ Callers' /\ \A c \in Command : OnePlace(c)'
  BY <1>3, <1>6, <1>8, <1>9, CommandsStay
<1>11. join' \in JoinType
  BY <1>1, <1>3 DEF Types, JoinType
<1>12. \A c \in Command : task'[c].pc = "ok" => task'[c] = task[c]
  BY <1>3
<1>13. QED BY <1>3, <1>6, <1>8, <1>9, <1>10, <1>11, <1>12, GrowStep

\* The AddNode call, refused or served.
LEMMA AddNodeStep ==
    ASSUME Inv, NEW p \in Process, add_node(p)
    PROVE  Inv'
<1>1. Types /\ Group /\ Sound(p, node[p]) /\ log \in Seq(Entry) /\ node[p] \in NodeRecord
      /\ Founder \in Process /\ node[Founder] \in NodeRecord
  BY NodeFacts, Constants DEF Inv, Types
<1>2. PICK q, i : q = join[p].at /\ i = node[p].id
  OBVIOUS
<1>3. /\ Alive(p) /\ UNCHANGED <<listening, mailbox, commit, match, task, faults, blind, early>>
  BY DEF add_node, countVars
<1>4. i \in Id
  BY <1>1, <1>2, <1>3, RecordFields DEF Group, Ids, Alive
<1>5. Read(p) /\ Read(Founder)
  BY <1>3 DEF Read
<1>6. CASE q \notin listening \/ ~ IsLeader(q)
  <2>1. join' = [join EXCEPT ![p] = [pc |-> "failed", at |-> None]] /\ UNCHANGED <<node, log>>
    BY <1>2, <1>6 DEF add_node
  <2>2. join' \in JoinType
    BY <1>1, <2>1 DEF Types, JoinType
  <2>3. UNCHANGED raftVars
    BY <1>3, <2>1 DEF raftVars
  <2>4. QED BY <1>3, <1>5, <2>1, <2>2, <2>3, SameNode
<1>7. CASE q \in listening /\ IsLeader(q)
  <2>1. /\ join' = [join EXCEPT ![p].pc = "waiting"]
        /\ IF Running(q) THEN ProposeConf(AddEntry(i, p)) ELSE UNCHANGED log
        /\ node' = [Stored(q) EXCEPT ![q].peers[i] = p]
    BY <1>2, <1>7 DEF add_node
  <2>2. q = Founder /\ Alive(Founder)
    BY <1>1, <1>7 DEF IsLeader, Group, Sound, Types
  <2>3. join' \in JoinType
    <3>1. join \in JoinType
      BY <1>1 DEF Types, JoinType
    <3>2. [join[p] EXCEPT !.pc = "waiting"] \in
             [pc : {"none", "call", "waiting", "done", "failed"}, at : Process \cup {None}]
      BY <3>1 DEF JoinType
    <3>3. join' = [join EXCEPT ![p] = [join[p] EXCEPT !.pc = "waiting"]]
      BY <2>1, <3>1 DEF JoinType
    <3>4. QED BY <3>1, <3>2, <3>3 DEF JoinType
  <2>4. log' \in Seq(Entry) /\ (log' = log \/ \E e : Grown(e) /\ e.type # "command")
    <3>1. CASE Running(q)
      <4>1. PICK e : e = AddEntry(i, p)
        OBVIOUS
      <4>2. node'[p].id = i
        BY <1>1, <1>2, <2>1, <2>2 DEF Stored, Types
      <4>3. e \in Entry /\ SoundEntry(e)' /\ e.type # "command" /\ ProposeConf(e)
        BY <1>4, <2>1, <3>1, <4>1, <4>2, EntryTypes DEF AddEntry, SoundEntry
      <4>4. QED BY <1>1, <4>3, Proposed
    <3>2. CASE ~ Running(q)
      BY <1>1, <2>1, <3>2
    <3>3. QED BY <3>1, <3>2
  <2>5. PICK n : n = [node[Founder] EXCEPT !.have = Len(log')]
    OBVIOUS
  <2>6. /\ n \in NodeRecord /\ n.have = Len(log') /\ n.state = node[Founder].state
        /\ n.id = node[Founder].id /\ n.role = node[Founder].role
        /\ n.lead = node[Founder].lead /\ n.cache = node[Founder].cache
        /\ n.conf = node[Founder].conf /\ n.applied = node[Founder].applied
        /\ n.peers = node[Founder].peers /\ Stored(Founder) = [node EXCEPT ![Founder] = n]
    BY <2>4, <2>5, StoredRecord
  <2>7. PICK r : r = [n EXCEPT !.peers = [n.peers EXCEPT ![i] = p]]
    OBVIOUS
  <2>8. [n.peers EXCEPT ![i] = p] \in [Id -> Process \cup {None}]
    BY <1>4, <2>6, RecordFields
  <2>9. /\ r \in NodeRecord /\ r.have = n.have /\ r.state = n.state /\ r.id = n.id
        /\ r.role = n.role /\ r.lead = n.lead /\ r.cache = n.cache /\ r.conf = n.conf
        /\ r.applied = n.applied /\ r.peers = [n.peers EXCEPT ![i] = p]
    BY <2>6, <2>7, <2>8 DEF NodeRecord
  <2>10. node' = [node EXCEPT ![Founder] = r]
    BY <1>1, <2>1, <2>2, <2>6, <2>7 DEF Types
  <2>11. Changed(Founder, r)
    BY <1>3, <2>2, <2>6, <2>9, <2>10 DEF Changed, Alive
  <2>12. \A j \in Id : \/ r.peers[j] = node[Founder].peers[j]
                       \/ (r.peers[j] \in Process /\ node[r.peers[j]].id = j)
    <3>1. \A j \in Id : r.peers[j] = IF j = i THEN p ELSE n.peers[j]
      BY <2>6, <2>9, RecordFields
    <3>2. QED BY <1>2, <2>6, <3>1
  <2>13. task' \in TaskType /\ Callers' /\ \A c \in Command : OnePlace(c)'
    BY <1>3, <1>5, <2>4, <2>6, <2>9, <2>11, CommandsStay
  <2>14. faults' \subseteq {"crash", "delay", "removal"}
    BY <1>1, <1>3 DEF Types
  <2>15. \A c \in Command : task'[c].pc = "ok" => task'[c] = task[c]
    BY <1>3
  <2>16. /\ r.have = Len(log') /\ r.state = node[Founder].state
         /\ r.role = node[Founder].role /\ r.lead = node[Founder].lead
         /\ r.cache = node[Founder].cache /\ r.conf = node[Founder].conf
         /\ r.applied = node[Founder].applied
    BY <2>6, <2>9
  <2>17. log' = log \/ \E e : Grown(e)
    BY <2>4
  <2>18. UNCHANGED <<listening, commit, match, early>>
    BY <1>3
  <2>19. QED BY <1>5, <2>3, <2>11, <2>12, <2>13, <2>14, <2>15, <2>16, <2>17, <2>18, GrowStep
<1>8. QED BY <1>6, <1>7


\* A command that was nowhere, or first in the mailbox, is in the log now.
LEMMA CommandAppended ==
    ASSUME NEW c \in Command, log \in Seq(Entry), log' = Append(log, CommandEntry(c)),
           \A k \in DOMAIN log : ~ InLog(c, k),
           \A k \in DOMAIN mailbox'[Founder] : ~ OnItsWay(c, k)',
           task'[c].pc \notin {"none", "retry"}
    PROVE  OnePlace(c)'
<1>1. /\ DOMAIN log' = 1 .. Len(log) + 1 /\ DOMAIN log = 1 .. Len(log)
      /\ \A k \in 1 .. Len(log) : log'[k] = log[k]
  BY EntryTypes
<1>2. \A k \in DOMAIN log' : InLog(c, k)' => k = Len(log) + 1
  BY <1>1 DEF InLog
<1>3. QED BY <1>2 DEF OnePlace

\* Messages are sound and within bounds.
LEMMA HeadFacts ==
    ASSUME Inv, NEW p \in Process, mailbox[p] # <<>>
    PROVE  LET m == Head(mailbox[p]) IN
           /\ m \in Message /\ SoundMessage(p, m) /\ MessageWithin(m)
           /\ mailbox[p] \in Seq(Message) /\ 1 \in DOMAIN mailbox[p] /\ m = mailbox[p][1]
<1>1. mailbox[p] \in Seq(Message)
  BY DEF Inv, Types
<1>2. PICK m : m = Head(mailbox[p])
  OBVIOUS
<1>3. m \in Message /\ 1 \in DOMAIN mailbox[p] /\ m = mailbox[p][1]
  BY <1>1, <1>2
<1>4. SoundMessage(p, m) /\ MessageWithin(m)
  BY <1>3 DEF Inv, Group, Bounded
<1>5. QED BY <1>1, <1>2, <1>3, <1>4

\* The founder gets a proposal.
LEMMA HandleProposeStep ==
    ASSUME Inv, NEW p \in Process, Running(p), mailbox[p] # <<>>,
           HandlePropose(p, Head(mailbox[p])), UNCHANGED <<listening, countVars>>
    PROVE  Inv'
<1>1. Types /\ Group /\ Proposals /\ log \in Seq(Entry)
  BY DEF Inv, Types
<1>2. PICK m : m = Head(mailbox[p])
  OBVIOUS
<1>3. /\ m \in Message /\ SoundMessage(p, m) /\ mailbox[p] \in Seq(Message)
      /\ 1 \in DOMAIN mailbox[p] /\ m = mailbox[p][1]
  BY <1>2, HeadFacts
<1>4. m.type = "propose" /\ UNCHANGED <<commit, match, task, join>>
  BY <1>2 DEF HandlePropose
<1>5. p = Founder /\ m.cmd \in Command /\ m = ProposeMsg(m.cmd)
  BY <1>3, <1>4, MessageFields DEF SoundMessage
<1>6. UNCHANGED <<listening, faults, blind, early>>
  BY DEF countVars
<1>7. CASE IsLeader(p)
  <2>1. /\ log' = Append(log, CommandEntry(m.cmd)) /\ node' = Stored(p)
        /\ mailbox' = Without(p)
    BY <1>2, <1>7 DEF HandlePropose
  <2>2. PICK c \in Command : c = m.cmd
    BY <1>5
  <2>3. PICK e : e = CommandEntry(c)
    OBVIOUS
  <2>4. e \in Entry /\ e.type = "command" /\ SoundEntry(e)' /\ log' = Append(log, e)
    BY <2>1, <2>2, <2>3, EntryTypes DEF CommandEntry, SoundEntry
  <2>5. log' \in Seq(Entry) /\ \E x : Grown(x)
    BY <1>1, <2>4 DEF Grown
  <2>6. PICK r : r = [node[Founder] EXCEPT !.have = Len(log')]
    OBVIOUS
  <2>7. /\ r \in NodeRecord /\ r.have = Len(log') /\ r.state = node[Founder].state
        /\ r.id = node[Founder].id /\ r.role = node[Founder].role
        /\ r.lead = node[Founder].lead /\ r.cache = node[Founder].cache
        /\ r.conf = node[Founder].conf /\ r.applied = node[Founder].applied
        /\ r.peers = node[Founder].peers /\ node' = [node EXCEPT ![Founder] = r]
    BY <1>5, <2>1, <2>5, <2>6, StoredRecord
  <2>8. Changed(Founder, r) /\ Read(Founder)
    BY <1>5, <1>6, <2>1, <2>7 DEF Changed, Read, Alive, Running
  <2>9. task' \in TaskType /\ join' \in JoinType
        /\ faults' \subseteq {"crash", "delay", "removal"}
        /\ mailbox \in [Process -> Seq(Message)] /\ Founder \in Process
    BY <1>1, <1>4, <1>6, Constants DEF Types, TaskType, JoinType
  <2>10. Callers'
    <3>1. \A q \in Process : Alive(q) => Alive(q)'
      BY <1>1, <2>7 DEF Alive, Types
    <3>2. QED BY <1>1, <1>4, <3>1 DEF Proposals, Callers, Types
  <2>11. \A d \in Command : OnePlace(d) /\ MailKept(d)
    BY <1>1, <2>8, <2>9, ReadNothingNew DEF Proposals
  <2>12. ASSUME NEW d \in Command PROVE OnePlace(d)'
    <3>1. CASE d # c
      <4>1. e # CommandEntry(d)
        BY <2>3, <3>1 DEF CommandEntry
      <4>2. LogKept(d)
        BY <1>1, <2>4, <4>1, LogAppended
      <4>3. QED BY <1>4, <2>11, <4>2, OnePlaceKept
    <3>2. CASE d = c
      <4>1. OnItsWay(c, 1) /\ 1 \in DOMAIN mailbox[Founder]
        BY <1>3, <1>5, <2>2 DEF OnItsWay
      <4>2. /\ \A k \in DOMAIN mailbox[Founder] : OnItsWay(c, k) => k = 1
            /\ \A k \in DOMAIN log : ~ InLog(c, k)
            /\ task[c].pc \notin {"none", "retry"}
        BY <2>11, <4>1 DEF OnePlace
      <4>3. PICK s : s = mailbox[Founder] /\ s \in Seq(Message) /\ s # <<>>
        BY <1>3, <1>5
      <4>4. mailbox'[Founder] = Tail(s)
        BY <1>5, <2>1, <2>9, <4>3 DEF Without
      <4>5. \A k \in DOMAIN Tail(s) : k \in Nat /\ k # 0 /\ k + 1 \in DOMAIN s
                                      /\ Tail(s)[k] = s[k + 1]
        BY <4>3
      <4>6. \A k \in DOMAIN mailbox'[Founder] : ~ OnItsWay(c, k)'
        <5> SUFFICES ASSUME NEW k \in DOMAIN Tail(s), OnItsWay(c, k)' PROVE FALSE
          BY <4>4
        <5>1. OnItsWay(c, k + 1)
          BY <4>3, <4>4, <4>5 DEF OnItsWay
        <5>2. k + 1 = 1
          BY <4>2, <4>3, <4>5, <5>1
        <5>3. QED BY <4>5, <5>2
      <4>7. OnePlace(c)'
        BY <1>1, <1>4, <2>3, <2>4, <4>2, <4>6, CommandAppended
      <4>8. QED BY <3>2, <4>7
    <3>3. QED BY <3>1, <3>2
  <2>13. \A d \in Command : task'[d].pc = "ok" => task'[d] = task[d]
    BY <1>4
  <2>14. UNCHANGED <<listening, commit, match, early>>
    BY <1>4, <1>6
  <2>15. QED BY <2>5, <2>7, <2>8, <2>9, <2>10, <2>12, <2>13, <2>14, GrowStep
<1>8. CASE ~ IsLeader(p)
  <2>1. Halt(p) /\ UNCHANGED log
    BY <1>2, <1>8 DEF HandlePropose
  <2>2. Excuse'
    BY <1>1, <1>5, <1>6, <1>8 DEF Group, Leadership, IsLeader, Excuse
  <2>3. HaltsForAReason(p)
    BY <1>5, <2>2 DEF HaltsForAReason
  <2>4. UNCHANGED <<raftVars, task, join, listening, faults, blind>>
    BY <1>4, <1>6, <2>1 DEF raftVars
  <2>5. early \subseteq early' /\ early' \subseteq Process
    BY <1>1, <1>6 DEF Types
  <2>6. QED BY <2>1, <2>3, <2>4, <2>5, HaltStep
<1>9. QED BY <1>7, <1>8

\* A proposal on the leader itself.
LEMMA ProposeLocallyStep ==
    ASSUME Inv, NEW c \in Command, NEW p \in Process, propose_locally(c, p)
    PROVE  Inv'
<1>1. Types /\ Group /\ Proposals /\ log \in Seq(Entry) /\ Sound(p, node[p])
  BY NodeFacts DEF Inv, Types
<1>2. /\ task[c].pc = "none" /\ Alive(p) /\ node' = Stored(p)
      /\ task' = [task EXCEPT ![c] = [pc |-> "wait", at |-> p]]
      /\ log' = IF Running(p) THEN Append(log, CommandEntry(c)) ELSE log
      /\ UNCHANGED <<listening, join, mailbox, commit, match, faults, blind, early>>
  BY DEF propose_locally, Alive, Free, countVars
<1>3. p = Founder
  BY <1>1 DEF propose_locally, IsLeader, Sound
<1>4. PICK e : e = CommandEntry(c)
  OBVIOUS
<1>5. e \in Entry /\ e.type = "command" /\ SoundEntry(e)'
  BY <1>4, EntryTypes DEF CommandEntry, SoundEntry
<1>6. log' = log \/ log' = Append(log, e)
  BY <1>2, <1>4
<1>7. log' \in Seq(Entry) /\ (log' = log \/ \E x : Grown(x))
  BY <1>1, <1>5, <1>6 DEF Grown
<1>8. PICK r : r = [node[Founder] EXCEPT !.have = Len(log')]
  OBVIOUS
<1>9. /\ r \in NodeRecord /\ r.have = Len(log') /\ r.state = node[Founder].state
      /\ r.id = node[Founder].id /\ r.role = node[Founder].role
      /\ r.lead = node[Founder].lead /\ r.cache = node[Founder].cache
      /\ r.conf = node[Founder].conf /\ r.applied = node[Founder].applied
      /\ r.peers = node[Founder].peers /\ node' = [node EXCEPT ![Founder] = r]
  BY <1>2, <1>3, <1>7, <1>8, StoredRecord
<1>10. Changed(Founder, r) /\ Read(Founder)
  BY <1>2, <1>3, <1>9 DEF Changed, Read, Alive
<1>11. \A d \in Command : task'[d] = IF d = c THEN [pc |-> "wait", at |-> p] ELSE task[d]
  BY <1>1, <1>2 DEF Types
<1>12. task' \in TaskType /\ join' \in JoinType /\ faults' \subseteq {"crash", "delay", "removal"}
  BY <1>1, <1>2 DEF Types, TaskType, JoinType
<1>13. Callers'
  <2>1. \A q \in Process : Alive(q) => Alive(q)'
    BY <1>1, <1>9 DEF Alive, Types
  <2>2. p # None /\ Alive(p)'
    BY <1>2, <2>1, Constants
  <2>3. ASSUME NEW d \in Command
        PROVE  /\ task'[d].pc \in {"retry", "wait", "ok"} <=> task'[d].at # None
               /\ task'[d].at # None => Alive(task[d].at)'
    <3>1. CASE d = c
      <4>1. task'[d].pc = "wait" /\ task'[d].at = p
        BY <1>11, <3>1
      <4>2. QED BY <2>2, <4>1 DEF Alive
    <3>2. CASE d # c
      <4>1. task'[d] = task[d]
        BY <1>11, <3>2
      <4>2. task[d].at # None => task[d].at \in Process
        BY <1>1 DEF Types
      <4>3. task[d].at # None => Alive(task[d].at)'
        BY <1>1, <2>1, <4>1, <4>2 DEF Proposals, Callers, Alive
      <4>4. QED BY <1>1, <4>1, <4>3 DEF Proposals, Callers
    <3>3. QED BY <3>1, <3>2
  <2>4. QED BY <2>3 DEF Callers
<1>14. ASSUME NEW d \in Command PROVE OnePlace(d)'
  <2>1. OnePlace(d) /\ MailKept(d)
    BY <1>1, <1>2, MailUnchanged DEF Proposals
  <2>2. CASE log' = log
    <3>1. LogKept(d)
      BY <2>2 DEF LogKept, InLog
    <3>2. QED BY <1>11, <2>1, <3>1, OnePlaceKept
  <2>3. CASE d # c /\ log' = Append(log, e)
    <3>1. e # CommandEntry(d)
      BY <1>4, <2>3 DEF CommandEntry
    <3>2. LogKept(d)
      BY <1>1, <1>5, <2>3, <3>1, LogAppended
    <3>3. QED BY <1>11, <2>1, <2>3, <3>2, OnePlaceKept
  <2>4. CASE d = c /\ log' = Append(log, e)
    <3>1. /\ \A k \in DOMAIN log : ~ InLog(c, k)
          /\ \A k \in DOMAIN mailbox'[Founder] : ~ OnItsWay(c, k)'
      BY <1>2, <2>1, <2>4 DEF OnePlace, OnItsWay
    <3>2. task'[c].pc \notin {"none", "retry"}
      BY <1>11
    <3>3. log' = Append(log, CommandEntry(c))
      BY <1>4, <2>4
    <3>4. QED BY <1>1, <2>4, <3>1, <3>2, <3>3, CommandAppended
  <2>5. QED BY <1>6, <2>2, <2>3, <2>4
<1>15. \A d \in Command : task'[d].pc = "ok" => task'[d] = task[d]
  BY <1>11
<1>16. QED BY <1>2, <1>7, <1>9, <1>10, <1>12, <1>13, <1>14, <1>15, GrowStep


\* Who is told of success has its command applied.
LEMMA CompleteTasks ==
    ASSUME Inv, NEW p \in Process, NEW r, Changed(p, r), r.state \in {"running", "halted", "stuck"},
           NEW k \in Nat, node[p].applied <= k, k <= Len(log), r.applied = k,
           log' = log, Complete(p, k)
    PROVE  /\ task' \in TaskType /\ join' \in JoinType /\ Callers'
           /\ \A c \in Command : Honoured(c)'
           /\ \A c \in Command : task'[c].pc \in {"none", "retry"} =>
                                 task[c].pc \in {"none", "retry"}
<1>1. Types /\ Proposals /\ task \in TaskType /\ join \in JoinType /\ Callers
  BY DEF Inv, Types, TaskType, JoinType, Proposals
<1>2. /\ DOMAIN task' = Command
      /\ \A c \in Command : task'[c] = IF Told(c, p, k) THEN [task[c] EXCEPT !.pc = "ok"]
                                       ELSE task[c]
  BY DEF Complete
<1>3. \A c \in Command : /\ task'[c].at = task[c].at
                         /\ Told(c, p, k) => task'[c].pc = "ok" /\ task[c].pc = "wait"
                         /\ ~ Told(c, p, k) => task'[c] = task[c]
  BY <1>1, <1>2 DEF Told, TaskType
<1>4. task' \in TaskType
  BY <1>1, <1>2 DEF TaskType, Complete
<1>5. join' \in JoinType
  BY <1>1 DEF JoinType, Complete
<1>6. \A q \in Process : Alive(q) => Alive(q)'
  BY <1>1 DEF Alive, Changed, Types
<1>7. Callers'
  <2> SUFFICES ASSUME NEW c \in Command
               PROVE  /\ task'[c].pc \in {"retry", "wait", "ok"} <=> task'[c].at # None
                      /\ task'[c].at # None => Alive(task[c].at)'
    BY DEF Callers
  <2>1. /\ task[c].pc \in {"retry", "wait", "ok"} <=> task[c].at # None
        /\ task[c].at # None => Alive(task[c].at) /\ task[c].at \in Process
    BY <1>1 DEF Callers, TaskType
  <2>2. task'[c].at # None => Alive(task[c].at)'
    BY <1>3, <1>6, <2>1 DEF Alive
  <2>3. QED BY <1>3, <2>1, <2>2
<1>8. ASSUME NEW c \in Command PROVE Honoured(c)'
  <2>1. CASE Told(c, p, k)
    <3>1. PICK j \in node[p].applied + 1 .. k : log[j] = CommandEntry(c)
      BY <2>1 DEF Told, News
    <3>2. node[p].applied \in Nat /\ log \in Seq(Entry)
      BY <1>1, RecordFields DEF Types
    <3>3. j \in DOMAIN log /\ j <= k
      BY <3>1, <3>2
    <3>4. task'[c].at = p /\ node'[p] = r
      BY <1>1, <1>3, <2>1 DEF Told, Changed, Types
    <3>5. j \in DOMAIN log' /\ InLog(c, j)' /\ j <= node'[p].applied
      BY <3>1, <3>3, <3>4 DEF InLog
    <3>6. QED BY <3>4, <3>5 DEF Honoured
  <2>2. CASE ~ Told(c, p, k)
    <3>1. task'[c] = task[c] /\ Honoured(c)
      BY <1>1, <1>3, <2>2 DEF Proposals
    <3>2. QED BY <1>1, <3>1, HonouredKept
  <2>3. QED BY <2>1, <2>2
<1>9. QED BY <1>3, <1>4, <1>5, <1>7, <1>8

\* A step that applies entries: what is left to show.
LEMMA ApplyStep ==
    ASSUME Inv, NEW p \in Process, NEW r, Changed(p, r), r.state # "crashed",
           r.state = "halted" => HaltsForAReason(p),
           NEW k \in Nat, node[p].applied <= k, k <= Len(log), r.applied = k,
           Complete(p, k), UNCHANGED <<log, listening, faults, early>>,
           commit <= commit', commit' \in Nat, commit' <= Len(log),
           match' \in [Id -> 0 .. Len(log)], Within(r)',
           mailbox' \in [Process -> Seq(Message)], NewMessagesSound, NewMessagesWithin,
           \A c \in Command : MailKept(c),
           Sound(p, r)', r.lead # 0 => node[p].lead # 0 \/ Member(p)',
           p = Founder => (Trouble' \/ node[p].conf \subseteq r.conf) /\ Leadership'
    PROVE  Inv'
<1>1. Types /\ Bounded /\ Group /\ Proposals
  BY DEF Inv
<1>2. r.state \in {"running", "halted", "stuck"}
  BY RecordFields DEF Changed
<1>3. /\ task' \in TaskType /\ join' \in JoinType /\ Callers'
      /\ \A c \in Command : Honoured(c)'
      /\ \A c \in Command : task'[c].pc \in {"none", "retry"} =>
                            task[c].pc \in {"none", "retry"}
  BY <1>2, CompleteTasks
<1>4. /\ log' \in Seq(Entry) /\ Len(log) \in Nat /\ log' = log /\ Len(log') \in Nat
      /\ Len(log) <= Len(log') /\ faults' \subseteq {"crash", "delay", "removal"}
      /\ early' \subseteq Process
  BY <1>1 DEF Types
<1>5. Types'
  BY <1>1, <1>2, <1>3, <1>4, TypesStep DEF TaskType, JoinType
<1>6. Bounded'
  BY <1>1, <1>4, BoundedStep
<1>7. Group'
  <2>1. NewEntriesSound
    BY <1>4 DEF NewEntriesSound
  <2>2. QED BY <1>1, <2>1, GroupStep
<1>8. ASSUME NEW c \in Command PROVE OnePlace(c)'
  <2>1. OnePlace(c)
    BY <1>1 DEF Proposals
  <2>2. LogKept(c)
    BY <1>4 DEF LogKept, InLog
  <2>3. QED BY <1>3, <2>1, <2>2, OnePlaceKept
<1>9. QED BY <1>3, <1>5, <1>6, <1>7, <1>8 DEF Inv, Proposals

\* The index that is committed is one of the log.
LEMMA QuorumIndexBounds ==
    ASSUME Types, NEW p, NEW progress
    PROVE  LET k == QuorumIndex(p, progress) IN
           k \in Nat /\ commit <= k /\ k <= Len(log)
<1> DEFINE has(x) == {i \in node[p].conf :
                         x <= IF i = node[p].id THEN Len(log) ELSE progress[i]}
           T == {commit} \cup {x \in 1 .. Len(log) :
                                 2 * Cardinality(has(x)) > Cardinality(node[p].conf)}
<1>1. QuorumIndex(p, progress) = Max(T)
  BY DEF QuorumIndex
<1> HIDE DEF has
<1>2. commit \in Nat /\ Len(log) \in Nat /\ commit <= Len(log)
  BY DEF Types
<1>3. T \in SUBSET Nat /\ commit \in T /\ \A x \in T : x <= Len(log)
  BY <1>2
<1> HIDE DEF T
<1>4. Max(T) \in T /\ \A x \in T : x <= Max(T)
  BY <1>2, <1>3, MaxOfBounded
<1>5. PICK k : k = Max(T)
  OBVIOUS
<1>6. k \in Nat /\ commit <= k /\ k <= Len(log)
  BY <1>3, <1>4, <1>5
<1>7. QED BY <1>1, <1>5, <1>6

\* The leader commits and applies.
LEMMA AdvanceStep ==
    ASSUME Inv, NEW p \in Process, Running(p), IsLeader(p),
           NEW progress \in [Id -> 0 .. Len(log)], Advance(p, progress), Read(p),
           UNCHANGED <<log, listening, countVars>>
    PROVE  Inv'
<1>1. Types /\ Group /\ Proposals /\ node[p] \in NodeRecord /\ Sound(p, node[p])
      /\ Within(node[p]) /\ Ids /\ log \in Seq(Entry) /\ Len(log) \in Nat /\ commit \in Nat
  BY NodeFacts DEF Inv, Types, Group
<1>2. PICK k : k = QuorumIndex(p, progress)
  OBVIOUS
<1>3. k \in Nat /\ commit <= k /\ k <= Len(log)
  BY <1>1, <1>2, QuorumIndexBounds
<1>4. PICK r : r = ApplyUpTo(node[p], k)
  OBVIOUS
<1>5. /\ commit' = k /\ node' = [node EXCEPT ![p] = r] /\ Complete(p, k)
      /\ match' = [i \in Id |-> IF (i \in node[p].conf) = (i \in node'[p].conf)
                                THEN progress[i] ELSE 0]
  BY <1>2, <1>4 DEF Advance
<1>6. p = Founder /\ UNCHANGED <<faults, blind, early>>
  BY <1>1 DEF Sound, IsLeader, countVars
<1>7. node[p].applied \in Nat /\ node[p].applied <= commit /\ node[p].applied <= k
  BY <1>1, <1>3, RecordFields DEF Within
<1>8. Reached(node[p], r, k)
  <2>1. \A j \in DOMAIN log : SoundEntry(log[j])
    BY <1>1 DEF Group
  <2>2. QED BY <1>1, <1>3, <1>4, <1>7, <2>1, ApplyUpToReaches
<1>9. Changed(p, r) /\ r.state = node[p].state /\ r.applied = k /\ r.role = "leader"
      /\ r.lead = node[p].lead /\ r.have = node[p].have
  BY <1>5, <1>6, <1>8 DEF Reached, Changed, Running, Alive, IsLeader
<1>10. match' \in [Id -> 0 .. Len(log)]
  BY <1>1, <1>5
<1>11. Within(r)'
  BY <1>1, <1>3, <1>5, <1>9 DEF Within, IsLeader
<1>12. /\ mailbox' \in [Process -> Seq(Message)] /\ NewMessagesSound /\ NewMessagesWithin
       /\ \A c \in Command : MailKept(c)
  <2>1. mailbox \in [Process -> Seq(Message)] /\ \A c \in Command : OnePlace(c)
    BY <1>1 DEF Types, Proposals
  <2>2. QED BY <2>1, ReadNothingNew
<1>13. /\ \A q \in Process : node'[q].id = node[q].id
       /\ node'[Founder] = r
  BY <1>1, <1>5, <1>6, <1>8 DEF Types, Reached
<1>14. Sound(p, r)'
  <2>1. \A i \in Id : r.peers[i] # None => r.peers[i] \in Process /\ node[r.peers[i]].id = i
    BY <1>1, <1>8, RecordFields DEF Reached, Sound
  <2>2. \A i \in Id : r.peers[i] # None => node'[r.peers[i]].id = i
    BY <1>13, <2>1
  <2>3. r.peers[1] = Founder /\ p \notin blind
    BY <1>1, <1>6, <1>8 DEF Reached, Sound, Running
  <2>4. r.lead = node[p].lead /\ r.cache = node[p].cache /\ r.state = "running"
    BY <1>8 DEF Reached, Running
  <2>5. QED BY <1>1, <1>6, <2>2, <2>3, <2>4 DEF Sound
<1>15. (Trouble' <=> Trouble) /\ (Trouble \/ node[p].conf \subseteq r.conf)
  BY <1>6, <1>8 DEF Trouble, Reached
<1>16. Leadership'
  <2>1. Founder \in listening' /\ 1 \in r.conf
    BY <1>1, <1>6, <1>8 DEF Group, Leadership, Reached, Running
  <2>2. \A i \in r.conf : Trouble \/ r.peers[i] # None
    BY <1>1, <1>6, <1>8 DEF Group, Leadership, Reached
  <2>3. QED BY <1>9, <1>13, <1>15, <2>1, <2>2 DEF Leadership
<1>17. UNCHANGED <<log, listening, faults, early>>
  BY <1>6
<1>18. r.state = "running"
  BY <1>9 DEF Running
<1>19. QED
  BY <1>3, <1>5, <1>7, <1>9, <1>10, <1>11, <1>12, <1>14, <1>15, <1>16, <1>17, <1>18, ApplyStep


\* The leader is the only voter.
LEMMA CommitStep ==
    ASSUME Inv, NEW p \in Process, Commit(p)
    PROVE  Inv'
<1>1. match \in [Id -> 0 .. Len(log)]
  BY DEF Inv, Types
<1>2. /\ Running(p) /\ IsLeader(p) /\ Advance(p, match)
      /\ UNCHANGED <<listening, mailbox, log, countVars>>
  BY DEF Commit
<1>3. PICK progress \in [Id -> 0 .. Len(log)] : progress = match
  BY <1>1
<1>4. Read(p) /\ Advance(p, progress)
  BY <1>2, <1>3 DEF Read
<1>5. QED BY <1>2, <1>4, AdvanceStep

\* The founder gets an answer.
LEMMA HandleResponseStep ==
    ASSUME Inv, NEW p \in Process, Running(p), mailbox[p] # <<>>,
           HandleResponse(p, Head(mailbox[p])), UNCHANGED <<listening, countVars>>
    PROVE  Inv'
<1>1. Types /\ Group /\ node[p] \in NodeRecord
  BY NodeFacts DEF Inv
<1>2. PICK m : m = Head(mailbox[p])
  OBVIOUS
<1>3. /\ m \in Message /\ SoundMessage(p, m) /\ MessageWithin(m)
  BY <1>2, HeadFacts
<1>4. m.type = "response" /\ UNCHANGED <<log, listening, faults, blind, early>>
  BY <1>2 DEF HandleResponse, countVars
<1>5. p = Founder /\ m.from \in Id /\ m.upto \in Nat /\ m.upto <= Len(log)
  BY <1>3, <1>4, MessageFields DEF SoundMessage, MessageWithin
<1>6. CASE m.from \notin node[p].conf
  <2>1. Halt(p) /\ UNCHANGED <<commit, match, task, join>>
    BY <1>2, <1>6 DEF HandleResponse
  <2>2. Excuse'
    BY <1>3, <1>4, <1>5, <1>6 DEF SoundMessage, Trouble, Excuse
  <2>3. HaltsForAReason(p)
    BY <1>5, <2>2 DEF HaltsForAReason
  <2>4. UNCHANGED <<raftVars, task, join, listening, faults, blind>>
    BY <1>4, <2>1 DEF raftVars
  <2>5. early \subseteq early' /\ early' \subseteq Process
    BY <1>1, <1>4 DEF Types
  <2>6. QED BY <2>1, <2>3, <2>4, <2>5, HaltStep
<1>7. CASE m.from \in node[p].conf /\ IsLeader(p)
  <2>1. PICK progress : progress = [match EXCEPT ![m.from] = Max({match[m.from], m.upto})]
    OBVIOUS
  <2>2. Advance(p, progress) /\ mailbox' = Without(p)
    BY <1>1, <1>2, <1>5, <1>7, <2>1 DEF HandleResponse, Types
  <2>3. progress \in [Id -> 0 .. Len(log)]
    <3>1. PICK T : T = {match[m.from], m.upto}
      OBVIOUS
    <3>2. Len(log) \in Nat /\ match[m.from] \in 0 .. Len(log) /\ match \in [Id -> 0 .. Len(log)]
      BY <1>1, <1>5 DEF Types
    <3>3. T \in SUBSET Nat /\ T # {} /\ \A x \in T : x <= Len(log)
      BY <1>5, <3>1, <3>2
    <3>4. Max(T) \in T
      BY <3>2, <3>3, MaxOfBounded
    <3>5. Max(T) \in 0 .. Len(log)
      <4>1. \A x \in T : x \in Nat /\ x <= Len(log)
        BY <3>3
      <4>2. \A x \in T : x \in 0 .. Len(log)
        BY <3>2, <4>1
      <4>3. QED BY <3>4, <4>2, Zenon
    <3>6. QED BY <2>1, <3>1, <3>2, <3>5
  <2>4. Read(p)
    BY <2>2 DEF Read
  <2>5. UNCHANGED <<log, listening, countVars>>
    BY <1>4
  <2>6. QED BY <1>7, <2>2, <2>3, <2>4, <2>5, AdvanceStep
<1>8. CASE m.from \in node[p].conf /\ ~ IsLeader(p)
  <2>1. mailbox' = Without(p) /\ UNCHANGED <<node, commit, match, task, join>>
    BY <1>2, <1>8 DEF HandleResponse
  <2>2. Read(p) /\ Alive(p)
    BY <2>1 DEF Read, Alive, Running
  <2>3. UNCHANGED <<raftVars, task, listening, faults, blind, early>> /\ join' \in JoinType
    BY <1>1, <1>4, <2>1 DEF raftVars, Types, JoinType
  <2>4. QED BY <2>1, <2>2, <2>3, SameNode
<1>9. QED BY <1>6, <1>7, <1>8

\* No entries are applied by applying none.
LEMMA ApplyNothing ==
    ASSUME NEW n, n.applied \in Nat
    PROVE  ApplyUpTo(n, n.applied) = n
<1>1. PICK k \in Nat : k = n.applied
  OBVIOUS
<1>2. PICK f : Applies(f, n, k) /\ ApplyUpTo(n, k) = f[k]
  BY <1>1, ApplyUpToDefined
<1>3. f[k] = n
  BY <1>1, <1>2 DEF Applies
<1>4. QED BY <1>1, <1>2, <1>3

\* What the founder's message makes of node p before entries are applied.
Heard(p, n) ==
    /\ n \in NodeRecord /\ n.role = "follower" /\ n.lead = 1 /\ n.state = node[p].state
    /\ n.id = node[p].id /\ n.peers = node[p].peers /\ n.conf = node[p].conf
    /\ n.cache = node[p].cache /\ n.applied = node[p].applied

\* r is a, but for its state.
SameButState(a, r) ==
    /\ r.id = a.id /\ r.peers = a.peers /\ r.conf = a.conf /\ r.role = a.role
    /\ r.lead = a.lead /\ r.cache = a.cache /\ r.have = a.have /\ r.applied = a.applied

\* A follower applies entries up to x: what is left to show.
LEMMA FollowerApplies ==
    ASSUME Inv, NEW p \in Process, Running(p), p # Founder, Member(p), NEW n, Heard(p, n),
           NEW x \in Nat, node[p].applied <= x, x <= commit, x <= n.have, n.have <= Len(log),
           NEW r \in NodeRecord, SameButState(ApplyUpTo(n, x), r),
           r.state \in {"running", "halted", "stuck"},
           r.state = "halted" => HaltsForAReason(p), r.state = "stuck" => Hangs(p),
           p \in blind => x = node[p].applied /\ r.state = "halted",
           node' = [node EXCEPT ![p] = r], Complete(p, x),
           mailbox' \in [Process -> Seq(Message)], NewMessagesSound, NewMessagesWithin,
           \A c \in Command : MailKept(c),
           UNCHANGED <<raftVars, listening, faults, blind, early>>
    PROVE  Inv'
<1>1. Types /\ Group /\ node[p] \in NodeRecord /\ Sound(p, node[p]) /\ Within(node[p])
      /\ Ids /\ log \in Seq(Entry) /\ Len(log) \in Nat /\ commit \in Nat
      /\ commit <= Len(log) /\ node[p].applied \in Nat
  BY NodeFacts, RecordFields DEF Inv, Types, Group
<1>2. PICK a : a = ApplyUpTo(n, x)
  OBVIOUS
<1>3. n \in NodeRecord /\ n.have \in Nat /\ n.applied = node[p].applied /\ x <= Len(log)
  BY <1>1, RecordFields DEF Heard
<1>4. Reached(n, a, x)
  <2>1. \A j \in DOMAIN log : SoundEntry(log[j])
    BY <1>1 DEF Group
  <2>2. QED BY <1>1, <1>2, <1>3, <2>1, ApplyUpToReaches
<1>5. /\ r.applied = x /\ r.role = "follower" /\ r.lead = 1 /\ r.have = n.have
      /\ r.id = node[p].id /\ r.cache = node[p].cache /\ r.peers = a.peers
  BY <1>2, <1>4 DEF Reached, Heard, SameButState
<1>6. Changed(p, r)
  BY <1>5 DEF Changed, Alive, Running
<1>7. p \in blind => r.peers = node[p].peers
  <2>1. ApplyUpTo(n, n.applied) = n
    BY <1>1, <1>3, ApplyNothing
  <2>2. QED BY <1>2, <1>3, <1>5, <2>1 DEF Heard
<1>8. Sound(p, r)'
  <2>1. \A i \in Id : r.peers[i] # None => r.peers[i] \in Process /\ node[r.peers[i]].id = i
    <3>1. \A i \in Id : r.peers[i] # None => r.peers[i] \in Process
      BY RecordFields
    <3>2. QED BY <1>1, <1>4, <1>5, <3>1 DEF Reached, Heard, Sound
  <2>2. \A q \in Process : node'[q].id = node[q].id
    BY <1>1, <1>5 DEF Types
  <2>3. \A i \in Id : r.peers[i] # None => node'[r.peers[i]].id = i
    BY <2>1, <2>2
  <2>4. p \notin blind => r.peers[1] = Founder
    BY <1>1, <1>4, <1>5 DEF Reached, Heard, Sound, Running
  <2>5. p \in blind => r.peers[1] = None
    BY <1>1, <1>7 DEF Sound
  <2>6. QED BY <1>1, <1>5, <2>3, <2>4, <2>5 DEF Sound
<1>9. Member(p)'
  BY <1>1, <1>5 DEF Member, Trouble, Types
<1>10. Within(r)'
  BY <1>1, <1>3, <1>5 DEF Within, raftVars
<1>11. /\ UNCHANGED <<log, listening, faults, early>> /\ commit <= commit' /\ commit' \in Nat
       /\ commit' <= Len(log) /\ match' \in [Id -> 0 .. Len(log)]
  BY <1>1 DEF raftVars, Types
<1>12. QED
  BY <1>3, <1>5, <1>6, <1>8, <1>9, <1>10, <1>11, ApplyStep

\* Another state leaves the rest.
LEMMA OtherState ==
    ASSUME NEW a \in NodeRecord, NEW st \in {"halted", "stuck"}
    PROVE  LET r == [a EXCEPT !.state = st] IN
           r \in NodeRecord /\ r.state = st /\ SameButState(a, r)
  BY DEF NodeRecord, SameButState

\* A follower gets entries and answers, or cannot, or waits for ever.
LEMMA HandleAppendStep ==
    ASSUME Inv, NEW p \in Process, Running(p), mailbox[p] # <<>>,
           HandleAppend(p, Head(mailbox[p])), UNCHANGED <<listening, countVars>>
    PROVE  Inv'
<1>1. Types /\ Group /\ Proposals /\ node[p] \in NodeRecord /\ Sound(p, node[p])
      /\ Within(node[p]) /\ Ids /\ log \in Seq(Entry) /\ Len(log) \in Nat /\ commit \in Nat
      /\ commit <= Len(log) /\ mailbox \in [Process -> Seq(Message)] /\ Founder \in Process
  BY NodeFacts, Constants DEF Inv, Types, Group
<1>2. PICK m : m = Head(mailbox[p])
  OBVIOUS
<1>3. m \in Message /\ SoundMessage(p, m) /\ MessageWithin(m)
  BY <1>2, HeadFacts
<1>4. m.type = "append" /\ UNCHANGED <<raftVars, listening, faults, blind, early>>
  BY <1>2 DEF HandleAppend, countVars
<1>5. /\ p # Founder /\ m.from = 1 /\ m.upto \in Nat /\ m.commit \in Nat /\ Member(p)
      /\ m.upto <= Len(log) /\ m.commit <= m.upto /\ m.commit <= commit
  BY <1>3, <1>4, MessageFields DEF SoundMessage, MessageWithin
<1>6. PICK n : n = [node[p] EXCEPT !.role = "follower", !.lead = 1,
                                   !.have = IF node[p].have < m.upto THEN m.upto
                                            ELSE node[p].have]
  OBVIOUS
<1>7. Heard(p, n) /\ n.have = IF node[p].have < m.upto THEN m.upto ELSE node[p].have
  BY <1>1, <1>5, <1>6, Constants DEF NodeRecord, Heard
<1>8. PICK k : k = IF n.applied < m.commit THEN m.commit ELSE n.applied
  OBVIOUS
<1>9. PICK j : j = IF k < node[p].have THEN k ELSE node[p].have
  OBVIOUS
<1>10. /\ k \in Nat /\ n.have \in Nat /\ node[p].applied <= k
       /\ k <= commit /\ k <= n.have /\ n.have <= Len(log)
       /\ j \in Nat /\ node[p].applied <= j /\ j <= commit /\ j <= n.have
       /\ node[p].have = 0 => j = node[p].applied
  <2>1. /\ node[p].applied \in Nat /\ node[p].have \in Nat
        /\ node[p].applied <= node[p].have /\ node[p].have <= Len(log)
        /\ node[p].applied <= commit /\ n.applied = node[p].applied
    BY <1>1, <1>7, RecordFields DEF Within, Heard
  <2>2. /\ k \in Nat /\ n.have \in Nat /\ node[p].applied <= k
        /\ k <= commit /\ k <= n.have /\ n.have <= Len(log) /\ node[p].have <= n.have
    BY <1>1, <1>5, <1>7, <1>8, <2>1
  <2>3. QED BY <1>1, <1>9, <2>1, <2>2
<1>11. n = [node[p] EXCEPT !.role = "follower", !.lead = m.from,
                           !.have = IF @ < m.upto THEN m.upto ELSE @]
  BY <1>1, <1>5, <1>6
<1>12. p \in blind => node[p].have = 0 /\ node[p].peers[1] = None
  BY <1>1 DEF Sound, Running
<1>13. ASSUME NEW x \in {k, j} PROVE Reached(n, ApplyUpTo(n, x), x)
  <2>1. \A i \in DOMAIN log : SoundEntry(log[i])
    BY <1>1 DEF Group
  <2>2. n \in NodeRecord /\ x \in Nat /\ n.applied <= x /\ x <= Len(log)
    BY <1>1, <1>7, <1>10 DEF Heard
  <2>3. QED BY <1>1, <2>1, <2>2, ApplyUpToReaches
<1>14. /\ Emptied(p) \in [Process -> Seq(Message)]
       /\ mailbox' = Emptied(p) => /\ NewMessagesSound /\ NewMessagesWithin
                                   /\ \A c \in Command : MailKept(c)
  <2>1. Emptied(p) \in [Process -> Seq(Message)]
    BY <1>1 DEF Emptied
  <2>2. mailbox' = Emptied(p) => Read(p)
    BY DEF Read, Emptied
  <2>3. \A c \in Command : OnePlace(c)
    BY <1>1 DEF Proposals
  <2>4. QED BY <1>1, <2>1, <2>2, <2>3, ReadNothingNew
<1>15. \/ Reachable(p, 1) /\ node' = [node EXCEPT ![p] = ApplyUpTo(n, k)]
          /\ Complete(p, k)
          /\ mailbox' = With(Without(p), node[p].peers[1], ResponseMsg(node[p].id, n.have))
       \/ ~ Reachable(p, 1) /\ mailbox' = Emptied(p) /\ Complete(p, j)
          /\ node' = [node EXCEPT ![p] = [ApplyUpTo(n, j) EXCEPT !.state = "halted"]]
       \/ Reachable(p, 1) /\ ~ Running(node[p].peers[1]) /\ mailbox' = Emptied(p)
          /\ node' = [node EXCEPT ![p] = [ApplyUpTo(n, j) EXCEPT !.state = "stuck"]]
          /\ Complete(p, j)
  BY <1>2, <1>5, <1>8, <1>9, <1>11 DEF HandleAppend
<1>16. Reachable(p, 1) => node[p].peers[1] = Founder /\ p \notin blind
  <2>1. Reachable(p, 1) => node[p].peers[1] # None /\ 1 \in Id
    BY <1>1, Constants DEF Reachable, Types
  <2>2. Reachable(p, 1) => node[p].peers[1] \in Process /\ node[node[p].peers[1]].id = 1
    BY <1>1, <2>1, RecordFields DEF Sound
  <2>3. QED BY <1>1, <2>1, <2>2 DEF Ids, Sound
<1>17. CASE ~ Reachable(p, 1)
  <2>1. PICK r : r = [ApplyUpTo(n, j) EXCEPT !.state = "halted"]
    OBVIOUS
  <2>2. r \in NodeRecord /\ r.state = "halted" /\ SameButState(ApplyUpTo(n, j), r)
    BY <1>13, <2>1, OtherState DEF Reached
  <2>3. "crash" \in faults \/ p \in blind
    <3>1. CASE p \notin blind
      <4>1. node[p].peers[1] = Founder /\ 1 \in Id
        BY <1>1, <3>1, Constants DEF Sound, Running
      <4>2. Founder \notin listening
        BY <1>17, <4>1 DEF Reachable
      <4>3. node[Founder].state = "crashed"
        BY <1>1, <4>2 DEF Group, Leadership
      <4>4. QED BY <1>1, <4>3 DEF Group, Sound
    <3>2. QED BY <3>1
  <2>4. HaltsForAReason(p)
    BY <1>4, <2>3 DEF HaltsForAReason
  <2>5. node' = [node EXCEPT ![p] = r] /\ Complete(p, j) /\ mailbox' = Emptied(p)
    BY <1>15, <1>17, <2>1
  <2>6. QED
    BY <1>4, <1>5, <1>7, <1>10, <1>12, <1>14, <2>2, <2>4, <2>5, FollowerApplies
<1>18. CASE Reachable(p, 1) /\ ~ Running(Founder) /\ mailbox' = Emptied(p) /\ Complete(p, j)
            /\ node' = [node EXCEPT ![p] = [ApplyUpTo(n, j) EXCEPT !.state = "stuck"]]
  <2>1. PICK r : r = [ApplyUpTo(n, j) EXCEPT !.state = "stuck"]
    OBVIOUS
  <2>2. r \in NodeRecord /\ r.state = "stuck" /\ SameButState(ApplyUpTo(n, j), r)
    BY <1>13, <2>1, OtherState DEF Reached
  <2>3. Founder \in listening
    BY <1>16, <1>18 DEF Reachable
  <2>4. Hangs(p)
    BY <1>1, <1>5, <1>18, <2>3 DEF Hangs, Types, Alive, Running
  <2>5. node' = [node EXCEPT ![p] = r]
    BY <1>18, <2>1
  <2>6. QED
    BY <1>4, <1>5, <1>7, <1>10, <1>14, <1>16, <1>18, <2>2, <2>4, <2>5, FollowerApplies
<1>19. CASE Reachable(p, 1) /\ node' = [node EXCEPT ![p] = ApplyUpTo(n, k)] /\ Complete(p, k)
            /\ mailbox' = With(Without(p), Founder, ResponseMsg(node[p].id, n.have))
  <2>1. PICK r : r = ApplyUpTo(n, k)
    OBVIOUS
  <2>2. r \in NodeRecord /\ r.state = "running" /\ SameButState(ApplyUpTo(n, k), r)
    BY <1>7, <1>13, <2>1 DEF Reached, SameButState, Heard, Running
  <2>3. PICK a : a = ResponseMsg(node[p].id, n.have)
    OBVIOUS
  <2>4. node[p].id \in Id /\ a \in Message /\ a.type = "response" /\ a.from = node[p].id
        /\ a.upto = n.have
    <3>1. node[p].id \in Id
      BY <1>1, RecordFields DEF Ids, Running
    <3>2. QED BY <1>10, <2>3, <3>1 DEF ResponseMsg, Message
  <2>5. /\ Without(p) \in Boxes /\ Without(p)[Founder] = mailbox[Founder]
        /\ \A x \in Process : \A i \in DOMAIN Without(p)[x] : Has(mailbox, x, Without(p)[x][i])
    BY <1>1, <1>5, Received DEF Boxes, Without
  <2>6. mailbox' \in Boxes /\ OneMore(Without(p), mailbox', Founder, a)
    <3>1. With(Without(p), Founder, a) \in Boxes
          /\ OneMore(Without(p), With(Without(p), Founder, a), Founder, a)
      BY <1>1, <2>4, <2>5, Sent
    <3>2. QED BY <1>19, <2>3, <3>1
  <2>7. \A x \in Process : \A i \in DOMAIN mailbox'[x] :
            Has(mailbox, x, mailbox'[x][i]) \/ (x = Founder /\ mailbox'[x][i] = a)
    BY <2>5, <2>6 DEF OneMore, Has
  <2>8. NewMessagesSound
    <3>1. SoundMessage(Founder, a)'
      <4>1. node'[Founder] = node[Founder]
        BY <1>1, <1>5, <1>19 DEF Types
      <4>2. QED BY <1>4, <1>5, <2>4, <4>1 DEF SoundMessage, Member, Trouble
    <3>2. \A x \in Process : \A i \in DOMAIN mailbox'[x] :
             (x = Founder /\ mailbox'[x][i] = a) => SoundMessage(x, mailbox[x][i])'
      BY <3>1 DEF SoundMessage
    <3>3. QED BY <2>7, <3>2 DEF NewMessagesSound
  <2>9. NewMessagesWithin
    <3>1. MessageWithin(a)'
      BY <1>4, <1>10, <2>4 DEF MessageWithin, raftVars
    <3>2. \A x \in Process : \A i \in DOMAIN mailbox'[x] :
             mailbox'[x][i] = a => MessageWithin(mailbox[x][i])'
      BY <3>1 DEF MessageWithin
    <3>3. QED BY <2>7, <3>2 DEF NewMessagesWithin
  <2>10. \A c \in Command : MailKept(c)
    <3> SUFFICES ASSUME NEW c \in Command PROVE MailKept(c)
      OBVIOUS
    <3>1. OnePlace(c) /\ a # ProposeMsg(c)
      BY <1>1, <2>4 DEF Proposals, ProposeMsg
    <3>2. PICK boxes \in [Process -> Seq(Message)] : boxes = Without(p)
      BY <2>5 DEF Boxes
    <3>3. boxes[Founder] = mailbox[Founder] /\ mailbox' = With(boxes, Founder, a)
      BY <1>19, <2>3, <2>5, <3>2
    <3>4. QED BY <1>1, <2>4, <3>1, <3>3, MailSent
  <2>11. node' = [node EXCEPT ![p] = r] /\ mailbox' \in [Process -> Seq(Message)]
    BY <1>19, <2>1, <2>6 DEF Boxes
  <2>12. QED
    BY <1>4, <1>5, <1>7, <1>10, <1>16, <1>19, <2>2, <2>8, <2>9, <2>10, <2>11, FollowerApplies
<1>20. QED
  BY <1>15, <1>16, <1>17, <1>18, <1>19

\* Whatever the event loop handles.
LEMMA HandleStep ==
    ASSUME Inv, NEW p \in Process, Handle(p)
    PROVE  Inv'
  BY HandleAppendStep, HandleResponseStep, HandleProposeStep DEF Handle


-----------------------------------------------------------------------------
\* A forwarded proposal: the command leaves its caller, for the founder or for
\* nowhere.  l is the leader p knows of.
LEMMA ForwardStep ==
    ASSUME Inv, NEW c \in Command, NEW p \in Process, Alive(p), NEW l \in {0, 1},
           task[c].pc \in {"none", "retry"},
           node' = [node EXCEPT ![p].cache = l] \/ (l = 0 /\ node' = node),
           \/ (l # 0 /\ forward_to_leader(c, p, l))
           \/ (l = 0 /\ mailbox' = mailbox /\ \E t \in {[pc |-> "retry", at |-> p], Over("error")} :
                                                 task' = [task EXCEPT ![c] = t]),
           UNCHANGED <<listening, join, raftVars, countVars>>
    PROVE  Inv'
<1>1. Types /\ Bounded /\ Group /\ Proposals /\ node[p] \in NodeRecord /\ Sound(p, node[p])
      /\ Within(node[p]) /\ mailbox \in Boxes /\ task \in TaskType /\ Founder \in Process
      /\ p # None /\ log \in Seq(Entry)
  BY NodeFacts, Constants DEF Inv, Types, Boxes, TaskType
<1>2. PICK l1 \in {0, 1} : node' = [node EXCEPT ![p] = [node[p] EXCEPT !.cache = l1]]
  <2>1. CASE node' = [node EXCEPT ![p].cache = l]
    BY <1>1, <2>1 DEF Types
  <2>2. CASE node' = node
    <3>1. node[p].cache \in {0, 1} /\ [node[p] EXCEPT !.cache = node[p].cache] = node[p]
      BY <1>1 DEF Sound, NodeRecord
    <3>2. node = [node EXCEPT ![p] = node[p]]
      BY <1>1 DEF Types
    <3>3. QED BY <2>2, <3>1, <3>2
  <2>3. QED BY <2>1, <2>2
<1>3. PICK r : r = [node[p] EXCEPT !.cache = l1]
  OBVIOUS
<1>4. /\ r \in NodeRecord /\ r.state = node[p].state /\ r.id = node[p].id
      /\ r.peers = node[p].peers /\ r.conf = node[p].conf /\ r.role = node[p].role
      /\ r.lead = node[p].lead /\ r.cache = l1 /\ r.have = node[p].have
      /\ r.applied = node[p].applied
  BY <1>1, <1>3, Constants DEF NodeRecord
<1>5. /\ log' = log /\ commit' = commit /\ match' = match
      /\ UNCHANGED <<listening, join, faults, blind, early>>
  BY DEF raftVars, countVars
<1>6. Changed(p, r)
  BY <1>2, <1>3, <1>4, <1>5 DEF Changed, Alive
<1>7. PICK m : m = ProposeMsg(c)
  OBVIOUS
<1>8. m \in Message /\ m.type = "propose" /\ \A d \in Command : d # c => m # ProposeMsg(d)
  BY <1>7 DEF ProposeMsg, Message
<1>9. /\ mailbox' = mailbox \/ mailbox' = With(mailbox, Founder, m)
      /\ \E t : /\ task' = [task EXCEPT ![c] = t]
                /\ \/ t = [pc |-> "retry", at |-> p] /\ mailbox' = mailbox
                   \/ t = [pc |-> "wait", at |-> p]
                   \/ t = [pc |-> "error", at |-> None]
  <2>1. CASE l = 0
    BY <2>1 DEF Over
  <2>2. CASE l # 0
    <3>1. forward_to_leader(c, p, l) /\ l = 1 /\ 1 \in Id
      BY <2>2, Constants
    <3>2. Reachable(p, l) => node[p].peers[l] = Founder
      <4>1. Reachable(p, l) => node[p].peers[1] \in Process /\ node[p].peers[1] # None
        BY <1>1, <3>1, Constants DEF Reachable, Types
      <4>2. Reachable(p, l) => node[node[p].peers[1]].id = 1
        BY <1>1, <3>1, <4>1 DEF Sound
      <4>3. QED BY <1>1, <3>1, <4>1, <4>2 DEF Group, Ids
    <3>3. mailbox' = mailbox \/ mailbox' = With(mailbox, Founder, m)
      BY <1>7, <3>1, <3>2 DEF forward_to_leader
    <3>4. \/ task' = [task EXCEPT ![c] = [pc |-> "wait", at |-> p]]
          \/ task' = [task EXCEPT ![c] = [pc |-> "error", at |-> None]]
      BY <3>1 DEF forward_to_leader, Failed, Over
    <3>5. QED BY <3>3, <3>4
  <2>3. QED BY <2>1, <2>2
<1>10. PICK t : /\ task' = [task EXCEPT ![c] = t]
                /\ \/ t = [pc |-> "retry", at |-> p] /\ mailbox' = mailbox
                   \/ t = [pc |-> "wait", at |-> p]
                   \/ t = [pc |-> "error", at |-> None]
  BY <1>9
<1>11. /\ task' \in TaskType
       /\ \A d \in Command : task'[d] = IF d = c THEN t ELSE task[d]
  BY <1>1, <1>10 DEF TaskType
<1>12. mailbox' \in Boxes /\ OneMore(mailbox, mailbox', Founder, m)
  <2>1. CASE mailbox' = mailbox
    BY <1>1, <2>1 DEF OneMore, Has
  <2>2. CASE mailbox' = With(mailbox, Founder, m)
    <3>1. With(mailbox, Founder, m) \in Boxes
          /\ OneMore(mailbox, With(mailbox, Founder, m), Founder, m)
      BY <1>1, <1>8, Sent
    <3>2. QED BY <2>2, <3>1
  <2>3. QED BY <1>9, <2>1, <2>2
<1>13. NewMessagesSound /\ NewMessagesWithin
  <2>1. \A x \in Process : \A k \in DOMAIN mailbox'[x] :
           (x = Founder /\ mailbox'[x][k] = m) =>
               SoundMessage(x, mailbox[x][k])' /\ MessageWithin(mailbox[x][k])'
    BY <1>8 DEF SoundMessage, MessageWithin
  <2>2. QED BY <1>12, <2>1 DEF OneMore, NewMessagesSound, NewMessagesWithin
<1>14. Types'
  <2>1. /\ listening' = listening /\ r.state \in {"running", "halted", "stuck"} /\ join' \in JoinType
        /\ log' \in Seq(Entry) /\ commit' \in Nat /\ commit' <= Len(log')
        /\ match' \in [Id -> 0 .. Len(log')] /\ early' \subseteq Process
        /\ faults' \subseteq {"crash", "delay", "removal"}
    BY <1>1, <1>4, <1>5 DEF Types, Alive, JoinType
  <2>2. QED BY <1>1, <1>6, <1>11, <1>12, <2>1, TypesStep DEF JoinType, TaskType, Boxes
<1>15. Bounded'
  <2>1. Within(r)'
    BY <1>1, <1>4, <1>5 DEF Within
  <2>2. /\ Len(log) <= Len(log') /\ Len(log') \in Nat /\ commit <= commit' /\ commit' \in Nat
    BY <1>1, <1>5 DEF Types
  <2>3. QED BY <1>1, <1>5, <1>6, <1>12, <1>13, <2>1, <2>2, BoundedStep DEF Boxes
<1>16. Group'
  <2>1. NewEntriesSound
    BY <1>5 DEF NewEntriesSound
  <2>2. \A q \in Process : node'[q].id = node[q].id
    BY <1>1, <1>4, <1>6 DEF Changed, Types
  <2>3. Sound(p, r)'
    <3>1. \A i \in Id : r.peers[i] # None => r.peers[i] \in Process
      BY <1>4, RecordFields
    <3>2. \A i \in Id : r.peers[i] # None => node'[r.peers[i]].id = i
      BY <1>1, <1>4, <2>2, <3>1 DEF Sound
    <3>3. QED BY <1>1, <1>4, <1>5, <3>2 DEF Sound
  <2>4. p = Founder => Leadership'
    <3> SUFFICES ASSUME p = Founder PROVE Leadership'
      OBVIOUS
    <3>1. node'[Founder] = r /\ (Trouble => Trouble') /\ (Excuse => Excuse')
      BY <1>1, <1>5, <1>6 DEF Changed, Types, Trouble, Excuse
    <3>2. QED BY <1>1, <1>4, <1>5, <3>1 DEF Group, Leadership
  <2>5. r.state = "halted" => HaltsForAReason(p)
    BY <1>4 DEF HaltsForAReason
  <2>6. QED BY <1>1, <1>4, <1>6, <1>13, <2>1, <2>3, <2>4, <2>5, GroupStep
<1>17. \A q \in Process : Alive(q) => Alive(q)'
  BY <1>1, <1>4, <1>6 DEF Alive, Changed, Types
<1>18. ASSUME NEW d \in Command
       PROVE  /\ task'[d].pc \in {"retry", "wait", "ok"} <=> task'[d].at # None
              /\ task'[d].at # None => Alive(task[d].at)'
  <2>1. CASE d = c
    <3>1. \/ task'[d].pc \in {"retry", "wait"} /\ task'[d].at = p
          \/ task'[d].pc = "error" /\ task'[d].at = None
      BY <1>10, <1>11, <2>1
    <3>2. Alive(p)'
      BY <1>17
    <3>3. QED BY <1>1, <3>1, <3>2 DEF Alive
  <2>2. CASE d # c
    <3>1. task'[d] = task[d]
      BY <1>11, <2>2
    <3>2. task[d].at # None => task[d].at \in Process
      BY <1>1 DEF TaskType
    <3>3. task[d].at # None => Alive(task[d].at)'
      BY <1>1, <1>17, <3>1, <3>2 DEF Proposals, Callers, Alive
    <3>4. QED BY <1>1, <3>1, <3>3 DEF Proposals, Callers
  <2>3. QED BY <2>1, <2>2
<1>19. ASSUME NEW d \in Command PROVE OnePlace(d)'
  <2>1. OnePlace(d) /\ LogKept(d)
    BY <1>1, <1>5 DEF Proposals, LogKept, InLog
  <2>2. CASE mailbox' = mailbox
    <3>1. MailKept(d)
      BY <2>1, <2>2, MailUnchanged
    <3>2. task'[d].pc \in {"none", "retry"} => task[d].pc \in {"none", "retry"}
      BY <1>11
    <3>3. QED BY <2>1, <3>1, <3>2, OnePlaceKept
  <2>3. CASE d # c /\ mailbox' = With(mailbox, Founder, m)
    <3>1. MailKept(d)
      BY <1>1, <1>8, <2>1, <2>3, MailSent DEF Boxes
    <3>2. task'[d].pc \in {"none", "retry"} => task[d].pc \in {"none", "retry"}
      BY <1>11
    <3>3. QED BY <2>1, <3>1, <3>2, OnePlaceKept
  <2>4. CASE d = c /\ mailbox' # mailbox /\ mailbox' = With(mailbox, Founder, m)
    <3>1. task'[c].pc \notin {"none", "retry"}
      BY <1>10, <1>11, <2>4
    <3>2. /\ \A k \in DOMAIN log : ~ InLog(c, k)
          /\ \A k \in DOMAIN mailbox[Founder] : ~ OnItsWay(c, k)
      BY <2>1, <2>4 DEF OnePlace
    <3>3. PICK s \in Seq(Message) : s = mailbox[Founder]
      BY <1>1 DEF Boxes
    <3>4. mailbox'[Founder] = s \/ mailbox'[Founder] = Append(s, m)
      BY <1>1, <2>4, <3>3 DEF With, Boxes
    <3>5. \A k \in DOMAIN mailbox'[Founder] : \/ (k \in DOMAIN s /\ mailbox'[Founder][k] = s[k])
                                               \/ k = Len(s) + 1
      BY <1>8, <3>3, <3>4
    <3>6. \A k \in DOMAIN mailbox'[Founder] : OnItsWay(c, k)' => k = Len(s) + 1
      BY <3>2, <3>3, <3>5 DEF OnItsWay
    <3>7. \A k \in DOMAIN log' : ~ InLog(c, k)'
      BY <1>5, <3>2 DEF InLog
    <3>8. OnePlace(c)'
      BY <3>1, <3>6, <3>7 DEF OnePlace
    <3>9. QED BY <2>4, <3>8
  <2>5. QED BY <1>9, <2>2, <2>3, <2>4
<1>20. ASSUME NEW d \in Command PROVE Honoured(d)'
  <2>1. Honoured(d) /\ Callers
    BY <1>1 DEF Proposals
  <2>2. task'[d].pc = "ok" => task'[d] = task[d]
    BY <1>10, <1>11
  <2>3. node[p].applied <= r.applied
    BY <1>4, RecordFields
  <2>4. QED BY <1>1, <1>5, <1>6, <2>1, <2>2, <2>3, HonouredKept
<1>21. QED BY <1>14, <1>15, <1>16, <1>18, <1>19, <1>20 DEF Inv, Proposals, Callers

\* A proposal at a node that does not lead.
LEMMA ProposeStep ==
    ASSUME Inv, NEW c \in Command, NEW p \in Process, propose(c, p)
    PROVE  Inv'
<1>1. Sound(p, node[p])
  BY NodeFacts
<1>2. PICK l : l = IF node[p].cache # 0 THEN node[p].cache ELSE node[p].lead
  OBVIOUS
<1>3. l \in {0, 1}
  BY <1>1, <1>2 DEF Sound
<1>4. /\ Alive(p) /\ task[c].pc \in {"none", "retry"}
      /\ node' = [node EXCEPT ![p].cache = l]
      /\ UNCHANGED <<listening, join, raftVars, countVars>>
  BY <1>2 DEF propose, Alive, Free
<1>5. \/ (l # 0 /\ forward_to_leader(c, p, l))
      \/ (l = 0 /\ mailbox' = mailbox /\ task' = [task EXCEPT ![c] = [pc |-> "retry", at |-> p]])
  BY <1>2 DEF propose
<1>6. QED BY <1>3, <1>4, <1>5, ForwardStep

\* The end of the back-off.
LEMMA RetryStep ==
    ASSUME Inv, NEW c \in Command, Retry(c)
    PROVE  Inv'
<1>1. PICK p : p = task[c].at
  OBVIOUS
<1>2. task[c].pc = "retry"
  BY DEF Retry
<1>3. p \in Process /\ Alive(p)
  <2>1. p # None /\ Alive(task[c].at)
    BY <1>1, <1>2 DEF Inv, Proposals, Callers
  <2>2. task[c].at \in Process \cup {None}
    BY DEF Inv, Types
  <2>3. QED BY <1>1, <2>1, <2>2
<1>4. PICK l : l = node[p].lead
  OBVIOUS
<1>5. l \in {0, 1} /\ node[p] \in NodeRecord
  BY <1>3, <1>4, NodeFacts DEF Sound
<1>6. node' = [node EXCEPT ![p].cache = l] \/ (l = 0 /\ node' = node)
  <2>1. node' = [node EXCEPT ![p].cache = IF l # 0 THEN l ELSE @]
    BY <1>1, <1>4 DEF Retry
  <2>2. CASE l # 0
    BY <2>1, <2>2
  <2>3. CASE l = 0
    <3>1. node' = [node EXCEPT ![p] = [node[p] EXCEPT !.cache = node[p].cache]]
      BY <2>1, <2>3
    <3>2. [node[p] EXCEPT !.cache = node[p].cache] = node[p]
      BY <1>5 DEF NodeRecord
    <3>3. [node EXCEPT ![p] = node[p]] = node
      BY DEF Inv, Types
    <3>4. QED BY <2>3, <3>1, <3>2, <3>3
  <2>4. QED BY <2>2, <2>3
<1>7. \/ (l # 0 /\ forward_to_leader(c, p, l))
      \/ (l = 0 /\ mailbox' = mailbox /\ task' = [task EXCEPT ![c] = Over("error")])
  BY <1>1, <1>4 DEF Retry
<1>8. UNCHANGED <<listening, join, raftVars, countVars>>
  BY DEF Retry
<1>9. QED BY <1>2, <1>3, <1>5, <1>6, <1>7, <1>8, ForwardStep

\* A process stops.
LEMMA CrashStep ==
    ASSUME Inv, NEW p \in Process, Crash(p)
    PROVE  Inv'
<1>1. Types /\ Bounded /\ Group /\ Proposals /\ node[p] \in NodeRecord /\ Sound(p, node[p])
      /\ mailbox \in Boxes /\ task \in TaskType /\ Founder \in Process /\ p # None
  BY NodeFacts, Constants DEF Inv, Types, Boxes, TaskType
<1>2. PICK r : r = [Off EXCEPT !.state = "crashed", !.id = node[p].id]
  OBVIOUS
<1>3. /\ r \in NodeRecord /\ r.state = "crashed" /\ r.id = node[p].id
      /\ r.peers = NoPeers /\ r.conf = {} /\ r.role = "follower" /\ r.lead = 0
      /\ r.cache = 0 /\ r.have = 0 /\ r.applied = 0
  <2>1. NoPeers \in [Id -> Process \cup {None}] /\ node[p].id \in Id \cup {0}
    BY <1>1, RecordFields DEF NoPeers
  <2>2. QED BY <1>2, <2>1 DEF NodeRecord, Off
<1>4. /\ node' = [node EXCEPT ![p] = r] /\ Alive(p) /\ listening' = listening \ {p}
      /\ mailbox' = [mailbox EXCEPT ![p] = <<>>]
      /\ task' = [c \in Command |-> IF task[c].at = p THEN Over("gone") ELSE task[c]]
      /\ faults' = faults \cup {"crash"}
      /\ join' = join /\ log' = log /\ commit' = commit /\ match' = match
      /\ blind' = blind /\ early' = early
  BY <1>2 DEF Crash, Fault, Emptied, raftVars
<1>5. Changed(p, r) /\ Read(p) /\ Trouble' /\ Excuse'
  BY <1>3, <1>4 DEF Changed, Read, Trouble, Excuse
<1>6. /\ mailbox' \in [Process -> Seq(Message)] /\ NewMessagesSound /\ NewMessagesWithin
      /\ \A c \in Command : OnePlace(c) => MailKept(c)
  BY <1>1, <1>5, ReadNothingNew DEF Boxes
<1>7. task' \in TaskType /\ \A c \in Command :
          task'[c] = IF task[c].at = p THEN [pc |-> "gone", at |-> None] ELSE task[c]
  BY <1>1, <1>4 DEF TaskType, Over
<1>8. Types'
  <2>1. /\ join' \in JoinType /\ log' \in Seq(Entry) /\ commit' \in Nat
        /\ commit' <= Len(log') /\ match' \in [Id -> 0 .. Len(log')]
        /\ early' \subseteq Process /\ faults' \subseteq {"crash", "delay", "removal"}
    BY <1>1, <1>4 DEF Types, JoinType
  <2>2. QED BY <1>1, <1>4, <1>5, <1>6, <1>7, <2>1, TypesStep DEF JoinType, TaskType
<1>9. Bounded'
  <2>1. Len(log) \in Nat /\ commit \in Nat
    BY <1>1 DEF Types
  <2>2. Within(r)'
    BY <1>3, <1>4, <2>1 DEF Within
  <2>3. Len(log) <= Len(log') /\ Len(log') \in Nat /\ commit <= commit' /\ commit' \in Nat
    BY <1>4, <2>1
  <2>4. QED BY <1>1, <1>4, <1>5, <1>6, <2>2, <2>3, BoundedStep
<1>10. Group'
  <2>1. NewEntriesSound
    BY <1>4 DEF NewEntriesSound
  <2>2. \A i \in Id : r.peers[i] = None
    BY <1>3 DEF NoPeers
  <2>3. 1 \in Id
    BY Constants
  <2>4. Sound(p, r)'
    BY <1>1, <1>3, <1>4, <2>2, <2>3 DEF Sound
  <2>5. p = Founder => Leadership'
    BY <1>1, <1>3, <1>4, <1>5 DEF Leadership, Types
  <2>6. r.lead = 0 /\ r.state # "halted"
    BY <1>3
  <2>7. QED BY <1>1, <1>5, <1>6, <2>1, <2>4, <2>5, <2>6, GroupStep
<1>11. ASSUME NEW c \in Command
       PROVE  /\ task'[c].pc \in {"retry", "wait", "ok"} <=> task'[c].at # None
              /\ task'[c].at # None => Alive(task[c].at)'
  <2>1. CASE task[c].at = p
    BY <1>7, <2>1
  <2>2. CASE task[c].at # p
    <3>1. task'[c] = task[c]
      BY <1>7, <2>2
    <3>2. task[c].at # None => task[c].at \in Process
      BY <1>1 DEF TaskType
    <3>3. \A q \in Process \ {p} : node'[q] = node[q]
      BY <1>1, <1>4 DEF Types
    <3>4. task[c].at # None => Alive(task[c].at)'
      BY <1>1, <2>2, <3>1, <3>2, <3>3 DEF Proposals, Callers, Alive
    <3>5. QED BY <1>1, <3>1, <3>4 DEF Proposals, Callers
  <2>3. QED BY <2>1, <2>2
<1>12. ASSUME NEW c \in Command PROVE OnePlace(c)' /\ Honoured(c)'
  <2>1. OnePlace(c) /\ Honoured(c) /\ Callers /\ MailKept(c)
    BY <1>1, <1>6 DEF Proposals
  <2>2. LogKept(c)
    BY <1>4 DEF LogKept, InLog
  <2>3. OnePlace(c)'
    BY <1>7, <2>1, <2>2, OnePlaceKept
  <2>4. Honoured(c)'
    <3>1. CASE task[c].at = p
      BY <1>7, <3>1 DEF Honoured
    <3>2. CASE task[c].at # p
      <4>1. task'[c] = task[c]
        BY <1>7, <3>2
      <4>2. QED BY <1>1, <1>4, <1>5, <2>1, <3>2, <4>1, HonouredKept
    <3>3. QED BY <3>1, <3>2
  <2>5. QED BY <2>3, <2>4
<1>13. QED BY <1>8, <1>9, <1>10, <1>11, <1>12 DEF Inv, Proposals, Callers

\* What a joining process p starts with, after the answers of S.
LEMMA JoinRecord ==
    ASSUME Inv, NEW p \in Process, NEW S, NEW q, S \in Discoveries, Join(p, S, q)
    PROVE  \E r \in NodeRecord :
              /\ node' = [node EXCEPT ![p] = r]
              /\ r.state = "running" /\ r.id \in Id \ {1} /\ r.role = "follower"
              /\ r.lead = 0 /\ r.cache = 0 /\ r.have = 0 /\ r.applied = 0
              /\ \A x \in S : node[x].id < r.id
              /\ \A i \in Id : r.peers[i] # None => r.peers[i] \in S /\ node[r.peers[i]].id = i
              /\ r.peers[1] = IF Founder \in S THEN Founder ELSE None
<1>1. Types /\ Group /\ S \subseteq Process /\ S # {} /\ None \notin S /\ 1 \in Id
  BY Constants DEF Inv, Types, Discoveries
<1>2. \A x \in S : node[x].id \in Id
  <2> SUFFICES ASSUME NEW x \in S PROVE node[x].id \in Id
    OBVIOUS
  <2>1. x \in Process /\ Alive(x)
    BY <1>1 DEF Discoveries, Types
  <2>2. node[x].id # 0
    BY <1>1, <2>1 DEF Group, Ids, Alive
  <2>3. QED BY <2>1, <2>2, NodeFacts
<1>3. PICK T : T = {node[x].id : x \in S}
  OBVIOUS
<1>4. T \subseteq Id /\ T # {}
  BY <1>1, <1>2, <1>3
<1>5. Max(T) \in T /\ \A i \in T : i <= Max(T)
  <2>1. T \in SUBSET Nat /\ MaxId \in Nat /\ \A i \in T : i <= MaxId
    BY <1>4, Constants
  <2>2. QED BY <1>4, <2>1, MaxOfBounded
<1>6. PICK n : n = next_node_id(S)
  OBVIOUS
<1>7. n \in Id \ {1} /\ \A x \in S : node[x].id < n
  <2>1. n = 1 + Max(T) /\ n \in Id
    BY <1>3, <1>6 DEF Join, next_node_id
  <2>2. Max(T) \in Nat /\ Max(T) # 0 /\ \A i \in T : i \in Nat
    BY <1>4, <1>5, Constants
  <2>3. \A i \in T : i < n
    BY <1>5, <2>1, <2>2
  <2>4. n # 1
    BY <2>1, <2>2
  <2>5. QED BY <1>3, <2>1, <2>3, <2>4
<1>8. PICK peers \in DiscoveredPeers(S) :
         node' = [node EXCEPT ![p] =
                    [Off EXCEPT !.state = "running", !.id = n, !.conf = T, !.peers = peers]]
  BY <1>3, <1>6 DEF Join, InitialVoters
<1>9. PICK r : r = [Off EXCEPT !.state = "running", !.id = n, !.conf = T, !.peers = peers]
  OBVIOUS
<1>10. /\ peers \in [Id -> S \cup {None}]
       /\ \A i \in Id : IF {x \in S : node[x].id = i} = {} THEN peers[i] = None
                        ELSE peers[i] \in {x \in S : node[x].id = i}
  BY <1>8 DEF DiscoveredPeers
<1>11. peers \in [Id -> Process \cup {None}]
  BY <1>1, <1>10
<1>12. /\ r \in NodeRecord /\ r.state = "running" /\ r.id = n /\ r.role = "follower"
       /\ r.lead = 0 /\ r.cache = 0 /\ r.have = 0 /\ r.applied = 0 /\ r.peers = peers
  BY <1>4, <1>7, <1>9, <1>11 DEF Off, NodeRecord
<1>13. \A i \in Id : peers[i] # None => peers[i] \in S /\ node[peers[i]].id = i
  BY <1>1, <1>10
<1>14. peers[1] = IF Founder \in S THEN Founder ELSE None
  <2>1. \A x \in S : node[x].id = 1 <=> x = Founder
    BY <1>1 DEF Group, Ids
  <2>2. CASE Founder \in S
    <3>1. Founder \in {x \in S : node[x].id = 1}
      BY <2>1, <2>2
    <3>2. peers[1] \in {x \in S : node[x].id = 1}
      BY <1>1, <1>10, <3>1
    <3>3. QED BY <2>1, <2>2, <3>2
  <2>3. CASE Founder \notin S
    <3>1. {x \in S : node[x].id = 1} = {}
      BY <2>1, <2>3
    <3>2. QED BY <1>1, <1>10, <2>3, <3>1
  <2>4. QED BY <2>2, <2>3
<1>15. node' = [node EXCEPT ![p] = r]
  BY <1>8, <1>9
<1>16. QED BY <1>7, <1>12, <1>13, <1>14, <1>15

\* A process joins.
LEMMA JoinStep ==
    ASSUME Inv, NEW p \in Process, NEW S, NEW q, S \in Discoveries, Join(p, S, q)
    PROVE  Inv'
<1>1. Types /\ Bounded /\ Group /\ Proposals /\ Founder \in Process /\ None \notin Process
      /\ 1 \in Id /\ 0 \notin Id
  BY Constants DEF Inv
<1>2. PICK r \in NodeRecord :
              /\ node' = [node EXCEPT ![p] = r]
              /\ r.state = "running" /\ r.id \in Id \ {1} /\ r.role = "follower"
              /\ r.lead = 0 /\ r.cache = 0 /\ r.have = 0 /\ r.applied = 0
              /\ \A x \in S : node[x].id < r.id
              /\ \A i \in Id : r.peers[i] # None => r.peers[i] \in S /\ node[r.peers[i]].id = i
              /\ r.peers[1] = IF Founder \in S THEN Founder ELSE None
  BY JoinRecord
<1>3. /\ node[p].state = "off" /\ q \in S /\ ReportedLeader(q) # 0
      /\ join' = [join EXCEPT ![p] = [pc |-> "call", at |-> ReportedAddress(q)]]
      /\ blind' = IF Founder \in S THEN blind ELSE blind \cup {p}
      /\ listening' = listening /\ mailbox' = mailbox /\ log' = log /\ commit' = commit
      /\ match' = match /\ task' = task /\ faults' = faults /\ early' = early
  BY DEF Join, raftVars
<1>4. /\ node[p].id = 0 /\ p # Founder /\ p \notin blind /\ p \notin listening
      /\ S \subseteq listening /\ S \subseteq Process
  BY <1>1, <1>3 DEF Group, Ids, Discoveries, Types, Alive
<1>5. /\ \A x \in Process : node'[x] = IF x = p THEN r ELSE node[x]
      /\ \A x \in Process : node[x].id # 0 => node'[x].id = node[x].id
      /\ node'[Founder] = node[Founder]
  BY <1>1, <1>2, <1>4 DEF Types
<1>6. /\ Trouble' <=> Trouble
      /\ Excuse => Excuse'
  BY <1>3 DEF Trouble, Excuse
<1>7. Types'
  <2>1. node' \in [Process -> NodeRecord] /\ blind' \subseteq Process
    BY <1>1, <1>2, <1>3 DEF Types
  <2>2. \A x \in listening' : Alive(x)'
    BY <1>1, <1>3, <1>4, <1>5 DEF Types, Alive
  <2>3. ReportedAddress(q) \in Process \cup {None}
    <3>1. q \in Process /\ node[q] \in NodeRecord
      BY <1>1, <1>3, <1>4 DEF Types
    <3>2. QED BY <3>1, RecordFields DEF ReportedAddress
  <2>4. join' \in JoinType
    BY <1>1, <1>3, <2>3 DEF Types, JoinType
  <2>5. QED BY <1>1, <1>3, <2>1, <2>2, <2>4 DEF Types, JoinType
<1>8. Bounded'
  <2>1. Len(log) \in Nat /\ commit \in Nat
    BY <1>1 DEF Types
  <2>2. \A x \in Process : Within(node[x])'
    BY <1>1, <1>2, <1>3, <1>5, <2>1 DEF Bounded, Within
  <2>3. \A x \in Process : \A k \in DOMAIN mailbox'[x] : MessageWithin(mailbox[x][k])'
    BY <1>1, <1>3 DEF Bounded, MessageWithin
  <2>4. QED BY <2>2, <2>3 DEF Bounded
<1>9. Ids'
  BY <1>1, <1>2, <1>3, <1>4, <1>5 DEF Group, Ids
<1>10. ASSUME NEW x \in Process PROVE Sound(x, node[x])'
  <2>1. CASE x = p
    <3>1. \A i \in Id : r.peers[i] # None => node'[r.peers[i]].id = i
      BY <1>1, <1>2, <1>4, <1>5
    <3>2. node'[x] = r
      BY <1>5, <2>1
    <3>3. p \in blind' <=> Founder \notin S
      BY <1>3, <1>4
    <3>4. QED BY <1>2, <1>4, <2>1, <3>1, <3>2, <3>3 DEF Sound
  <2>2. CASE x # p
    <3>1. node'[x] = node[x] /\ Sound(x, node[x]) /\ node[x] \in NodeRecord
      BY <1>1, <1>5, <2>2 DEF Group, Types
    <3>2. \A i \in Id : node[x].peers[i] # None =>
             node[x].peers[i] \in Process /\ node[node[x].peers[i]].id = i
      BY <3>1, RecordFields DEF Sound
    <3>3. \A i \in Id : node[x].peers[i] # None => node'[node[x].peers[i]].id = i
      BY <1>1, <1>5, <3>2
    <3>4. x \in blind' <=> x \in blind
      BY <1>3, <2>2
    <3>5. QED BY <1>3, <3>1, <3>3, <3>4 DEF Sound
  <2>3. QED BY <2>1, <2>2
<1>11. ASSUME NEW k \in DOMAIN log' PROVE SoundEntry(log[k])'
  <2>1. SoundEntry(log[k]) /\ log[k] \in Entry /\ log'[k] = log[k]
    BY <1>1, <1>3 DEF Group, Types
  <2>2. log[k].type = "add" => log[k].addr \in Process /\ log[k].id \in Id
    BY <2>1, EntryFields
  <2>3. QED BY <1>1, <1>3, <1>5, <2>1, <2>2 DEF SoundEntry
<1>12. \A x \in Process : Member(x) => Member(x)'
  <2>1. 0 \notin node[Founder].conf
    BY <1>1, RecordFields DEF Types
  <2>2. QED BY <1>4, <1>5, <1>6, <2>1 DEF Member
<1>13. \A x \in Process : \A k \in DOMAIN mailbox'[x] : SoundMessage(x, mailbox[x][k])'
  <2> SUFFICES ASSUME NEW x \in Process, NEW k \in DOMAIN mailbox'[x]
               PROVE  SoundMessage(x, mailbox[x][k])'
    OBVIOUS
  <2>1. SoundMessage(x, mailbox[x][k]) /\ mailbox'[x][k] = mailbox[x][k]
    BY <1>1, <1>3 DEF Group
  <2>2. QED BY <1>5, <1>6, <1>12, <2>1 DEF SoundMessage
<1>14. Leadership'
  BY <1>1, <1>3, <1>5, <1>6 DEF Group, Leadership
<1>15. Membership'
  <2>1. \A x \in Process : node'[x].lead # 0 => Member(x)'
    BY <1>1, <1>2, <1>5, <1>12 DEF Group, Membership
  <2>2. ASSUME NEW x \in blind'
        PROVE  (Trouble \/ \E i \in node[Founder].conf : i \notin {1, node[x].id})'
    <3>1. CASE x \in blind
      <4>1. x \in Process /\ node[x].id # 0
        BY <1>1, <3>1 DEF Types, Group, Ids
      <4>2. QED BY <1>1, <1>5, <1>6, <3>1, <4>1 DEF Group, Membership
    <3>2. CASE x \notin blind
      <4>1. x = p /\ Founder \notin S
        BY <1>3, <3>2
      <4>2. q \in Process /\ q # Founder /\ node[q].id # 1 /\ Sound(q, node[q])
        BY <1>1, <1>3, <1>4, <4>1 DEF Group, Ids
      <4>3. node[q].lead # 0
        BY <1>3, <4>2 DEF ReportedLeader, IsLeader, Sound
      <4>4. Trouble \/ node[q].id \in node[Founder].conf
        BY <1>1, <4>2, <4>3 DEF Group, Membership, Member
      <4>5. node[q].id \in Nat /\ r.id \in Nat /\ node[q].id < r.id
        BY <1>2, <1>3, <4>2, NodeFacts, Constants
      <4>6. node[q].id \notin {1, r.id} /\ node'[x].id = r.id
        BY <1>5, <4>1, <4>2, <4>5
      <4>7. QED BY <1>5, <1>6, <4>4, <4>6
    <3>3. QED BY <3>1, <3>2
  <2>3. QED BY <2>1, <2>2 DEF Membership
<1>16. ASSUME NEW x \in Process, node'[x].state = "halted"
       PROVE  "crash" \in faults' \/ x \in blind' \/ (x = Founder /\ Excuse')
  <2>1. node[x].state = "halted"
    BY <1>2, <1>5, <1>16
  <2>2. "crash" \in faults \/ x \in blind \/ (x = Founder /\ Excuse)
    BY <1>1, <2>1 DEF Group, LoopsEndForAReason, Excuse
  <2>3. QED BY <1>3, <1>6, <2>2
<1>17. Group'
  <2>1. Hung'
    <3> SUFFICES ASSUME NEW x \in Process, node'[x].state = "stuck" PROVE Hangs(x)'
      BY DEF Hung
    <3>1. Hangs(x)
      BY <1>1, <1>2, <1>5 DEF Group, Hung
    <3>2. \A y \in Process : node[y].state = "halted" => node'[y].state = "halted"
      BY <1>3, <1>5
    <3>3. QED BY <1>3, <1>5, <3>1, <3>2 DEF Hangs
  <2>2. LoopsEndForAReason'
    BY <1>1, <1>10, <1>16, <2>1, StuckForAReason
  <2>3. QED BY <1>9, <1>10, <1>11, <1>13, <1>14, <1>15, <2>1, <2>2 DEF Group
<1>18. ASSUME NEW c \in Command
       PROVE  /\ task'[c].pc \in {"retry", "wait", "ok"} <=> task'[c].at # None
              /\ task'[c].at # None => task[c].at \in Process \ {p} /\ Alive(task[c].at)'
  <2>1. task[c].at # None => task[c].at \in Process /\ Alive(task[c].at)
    BY <1>1 DEF Proposals, Callers, Types
  <2>2. task[c].at # None => task[c].at # p
    BY <1>3, <2>1 DEF Alive
  <2>3. task'[c] = task[c]
    BY <1>3
  <2>4. QED BY <1>1, <1>5, <2>1, <2>2, <2>3 DEF Proposals, Callers, Alive
<1>19. ASSUME NEW c \in Command PROVE OnePlace(c)' /\ Honoured(c)'
  <2>1. OnePlace(c) /\ Honoured(c) /\ Callers
    BY <1>1 DEF Proposals
  <2>2. LogKept(c) /\ MailKept(c)
    BY <1>3, <2>1, MailUnchanged DEF LogKept, InLog
  <2>3. OnePlace(c)'
    BY <1>3, <2>1, <2>2, OnePlaceKept
  <2>4. Honoured(c)'
    <3>1. task[c].pc = "ok" => task[c].at # None
      BY <2>1 DEF Callers
    <3>2. task[c].pc = "ok" => node'[task[c].at] = node[task[c].at]
      BY <1>3, <1>5, <1>18, <3>1
    <3>3. QED BY <1>3, <2>1, <3>2 DEF Honoured, InLog
  <2>5. QED BY <2>3, <2>4
<1>20. QED BY <1>7, <1>8, <1>17, <1>18, <1>19 DEF Inv, Proposals, Callers

-----------------------------------------------------------------------------
\* The founder, alone.
LEMMA InitInv ==
    ASSUME Init
    PROVE  Inv
<1>1. Founder \in Process /\ None \notin Process /\ 1 \in Id /\ 0 \notin Id
  BY Constants
<1>2. PICK r : r = [state |-> "running", id |-> 1, conf |-> {1},
                    peers |-> [NoPeers EXCEPT ![1] = Founder],
                    role |-> "leader", lead |-> 1, cache |-> 1,
                    have |-> 1, applied |-> 1]
  OBVIOUS
<1>3. node = [p \in Process |-> IF p # Founder THEN Off ELSE r]
  BY <1>2 DEF Init
<1>4. /\ NoPeers \in [Id -> Process \cup {None}] /\ \A i \in Id : NoPeers[i] = None
  BY DEF NoPeers
<1>5. PICK P : P = [NoPeers EXCEPT ![1] = Founder]
  OBVIOUS
<1>6. /\ P \in [Id -> Process \cup {None}]
      /\ \A i \in Id : P[i] = IF i = 1 THEN Founder ELSE None
  BY <1>1, <1>4, <1>5
<1>7. /\ r \in NodeRecord /\ r.state = "running" /\ r.id = 1 /\ r.conf = {1} /\ r.peers = P
      /\ r.role = "leader" /\ r.lead = 1 /\ r.cache = 1 /\ r.have = 1 /\ r.applied = 1
  BY <1>1, <1>2, <1>5, <1>6 DEF NodeRecord
<1>8. /\ Off \in NodeRecord /\ Off.state = "off" /\ Off.id = 0 /\ Off.conf = {}
      /\ Off.peers = NoPeers /\ Off.role = "follower" /\ Off.lead = 0 /\ Off.cache = 0
      /\ Off.have = 0 /\ Off.applied = 0
  BY <1>4 DEF NodeRecord, Off
<1>9. \A p \in Process : node[p] = IF p # Founder THEN Off ELSE r
  BY <1>3
<1>10. PICK e : e = AddEntry(1, Founder)
  OBVIOUS
<1>11. /\ e \in Entry /\ e.type = "add" /\ e.id = 1 /\ e.addr = Founder
       /\ \A c \in Command : e # CommandEntry(c)
  BY <1>1, <1>10, EntryTypes DEF AddEntry, CommandEntry
<1>12. log = <<e>> /\ log \in Seq(Entry) /\ Len(log) = 1 /\ DOMAIN log = {1} /\ log[1] = e
  BY <1>10, <1>11 DEF Init
<1>13. /\ listening = {Founder} /\ mailbox = [p \in Process |-> <<>>] /\ commit = 1
       /\ join = [p \in Process |-> [pc |-> "none", at |-> None]]
       /\ match = [i \in Id |-> 0] /\ task = [c \in Command |-> [pc |-> "none", at |-> None]]
       /\ faults = {} /\ blind = {} /\ early = {}
  BY DEF Init, Over
<1>14. Types
  <2>1. node \in [Process -> NodeRecord] /\ mailbox \in [Process -> Seq(Message)]
    BY <1>3, <1>7, <1>8, <1>13
  <2>2. listening \subseteq Process /\ \A p \in listening : Alive(p)
    BY <1>1, <1>7, <1>9, <1>13 DEF Alive
  <2>3. QED BY <1>12, <1>13, <2>1, <2>2 DEF Types
<1>15. \A p \in Process : DOMAIN mailbox[p] = {}
  BY <1>13
<1>16. Bounded
  BY <1>7, <1>8, <1>9, <1>12, <1>13, <1>15 DEF Bounded, Within
<1>17. Group
  <2>1. Ids
    BY <1>1, <1>7, <1>8, <1>9, <1>13 DEF Ids
  <2>2. \A p \in Process : Sound(p, node[p])
    BY <1>1, <1>4, <1>6, <1>7, <1>8, <1>9, <1>13 DEF Sound
  <2>3. \A k \in DOMAIN log : SoundEntry(log[k])
    BY <1>1, <1>7, <1>9, <1>11, <1>12 DEF SoundEntry
  <2>4. \A p \in Process : \A k \in DOMAIN mailbox[p] : SoundMessage(p, mailbox[p][k])
    BY <1>15
  <2>5. Leadership
    BY <1>1, <1>6, <1>7, <1>9, <1>13 DEF Leadership
  <2>6. Membership
    BY <1>1, <1>7, <1>8, <1>9, <1>13 DEF Membership, Member
  <2>7. LoopsEndForAReason /\ Hung
    BY <1>7, <1>8, <1>9 DEF LoopsEndForAReason, Hung
  <2>8. QED BY <2>1, <2>2, <2>3, <2>4, <2>5, <2>6, <2>7 DEF Group
<1>18. Proposals
  <2>1. \A c \in Command : task[c].pc = "none" /\ task[c].at = None
    BY <1>13
  <2>2. Callers
    BY <2>1 DEF Callers
  <2>3. \A c \in Command : \A k \in DOMAIN log : ~ InLog(c, k)
    BY <1>11, <1>12 DEF InLog
  <2>4. \A c \in Command : OnePlace(c) /\ Honoured(c)
    BY <1>1, <1>15, <2>1, <2>3 DEF OnePlace, Honoured
  <2>5. QED BY <2>2, <2>4 DEF Proposals
<1>19. QED BY <1>14, <1>16, <1>17, <1>18 DEF Inv

\* Nothing happens to anybody.
LEMMA StutterStep ==
    ASSUME Inv, UNCHANGED vars
    PROVE  Inv'
<1>1. /\ node' = node /\ listening' = listening /\ join' = join /\ mailbox' = mailbox
      /\ log' = log /\ commit' = commit /\ match' = match /\ task' = task
      /\ faults' = faults /\ blind' = blind /\ early' = early
  BY DEF vars, raftVars, countVars
<1>2. Types'
  BY <1>1 DEF Inv, Types, Alive
<1>3. Bounded'
  BY <1>1 DEF Inv, Bounded, Within, MessageWithin
<1>4. Group'
  BY <1>1 DEF Inv, Group, Ids, Sound, SoundEntry, SoundMessage, Leadership, Membership,
              Member, Trouble, Excuse, LoopsEndForAReason, Hung, Hangs
<1>5. Proposals'
  BY <1>1 DEF Inv, Proposals, Callers, OnePlace, Honoured, InLog, OnItsWay, Alive
<1>6. QED BY <1>2, <1>3, <1>4, <1>5 DEF Inv

\* Every step of the group preserves the invariant.
LEMMA NextInv ==
    ASSUME Inv, [Next]_vars
    PROVE  Inv'
<1>1. CASE UNCHANGED vars
  BY <1>1, StutterStep
<1>2. CASE \E p \in Process : \E S \in Discoveries : \E q \in S : Join(p, S, q)
  BY <1>2, JoinStep
<1>3. CASE \E p \in Process : Listen(p) \/ add_node(p) \/ Commit(p) \/ Handle(p)
  BY <1>3, ListenStep, AddNodeStep, CommitStep, HandleStep
<1>4. CASE \E p \in Process : Timeout(p) \/ StepDown(p) \/ Crash(p) \/ TrackLeader(p)
  BY <1>4, TimeoutStep, StepDownStep, CrashStep, TrackLeaderStep
<1>5. CASE \E p \in Process, i \in Id : Send(p, i) \/ remove_node(p, i)
  BY <1>5, SendStep, RemoveNodeStep
<1>6. CASE \E c \in Command, p \in Process : propose_locally(c, p) \/ propose(c, p)
  BY <1>6, ProposeLocallyStep, ProposeStep
<1>7. CASE \E c \in Command : Retry(c)
  BY <1>7, RetryStep
<1>8. QED BY <1>1, <1>2, <1>3, <1>4, <1>5, <1>6, <1>7 DEF Next

\* It holds always.
LEMMA InvAlways == Spec => []Inv
<1>1. Init => Inv
  BY InitInv
<1>2. Inv /\ [Next]_vars => Inv'
  BY NextInv
<1>3. QED BY <1>1, <1>2, PTL DEF Spec

(***************************************************************************)
(* Indices stay within the leader's log and its commit index, for every    *)
(* node and every message on its way; whoever listens is alive.            *)
(***************************************************************************)
THEOREM GroupTypeCorrect == Spec => []TypeOK
<1>1. Inv => TypeOK
  <2> SUFFICES ASSUME Inv PROVE TypeOK
    OBVIOUS
  <2>1. Types /\ Bounded /\ Len(log) \in Nat /\ commit \in Nat
    BY DEF Inv, Types
  <2>2. ASSUME NEW p \in Process
        PROVE  /\ node[p] \in [state : {"off", "running", "halted", "stuck", "crashed"},
                     id : Id \cup {0}, peers : [Id -> Process \cup {None}],
                     conf : SUBSET Id, role : {"follower", "precandidate", "leader"},
                     lead : Id \cup {0}, cache : Id \cup {0}, have : 0..Len(log),
                     applied : 0..commit]
               /\ node[p].applied <= node[p].have
    <3>1. node[p] \in NodeRecord /\ Within(node[p])
      BY NodeFacts
    <3>2. node[p].have \in 0 .. Len(log) /\ node[p].applied \in 0 .. commit
      BY <2>1, <3>1, RecordFields DEF Within
    <3>3. QED BY <3>1, <3>2 DEF NodeRecord, Within
  <2>3. ASSUME NEW p \in Process, NEW k \in DOMAIN mailbox[p]
        PROVE  mailbox[p][k] \in
                  [type : {"propose"}, cmd : Command]
                  \cup [type : {"response"}, from : Id, upto : 0..Len(log)]
                  \cup [type : {"append"}, from : Id, upto : 0..Len(log),
                        commit : 0..commit]
    <3>1. PICK m : m = mailbox[p][k] /\ m \in Message /\ MessageWithin(m)
      BY <2>1 DEF Types, Bounded
    <3>2. CASE m \in [type : {"propose"}, cmd : Command]
      BY <3>1, <3>2
    <3>3. CASE m \in [type : {"response"}, from : Id, upto : Nat]
      <4>1. m.upto \in 0 .. Len(log)
        BY <2>1, <3>1, <3>3 DEF MessageWithin
      <4>2. QED BY <3>1, <3>3, <4>1
    <3>4. CASE m \in [type : {"append"}, from : Id, upto : Nat, commit : Nat]
      <4>1. m.upto \in 0 .. Len(log) /\ m.commit \in 0 .. commit
        BY <2>1, <3>1, <3>4 DEF MessageWithin
      <4>2. QED BY <3>1, <3>4, <4>1
    <3>5. QED BY <3>1, <3>2, <3>3, <3>4 DEF Message
  <2>4. node \in [Process ->
           [state : {"off", "running", "halted", "stuck", "crashed"}, id : Id \cup {0},
            peers : [Id -> Process \cup {None}], conf : SUBSET Id,
            role : {"follower", "precandidate", "leader"},
            lead : Id \cup {0}, cache : Id \cup {0}, have : 0..Len(log),
            applied : 0..commit]]
    BY <2>1, <2>2 DEF Types
  <2>5. listening \subseteq {p \in Process : Alive(p)}
    BY <2>1 DEF Types
  <2>6. commit \in 0 .. Len(log)
    BY <2>1 DEF Types
  <2>7. QED BY <2>1, <2>2, <2>3, <2>4, <2>5, <2>6 DEF Types, TypeOK
<1>2. QED BY <1>1, InvAlways, PTL

(***************************************************************************)
(* Event loops end for the listed reasons only, however many processes     *)
(* join, in whatever order they discover each other, and with equal ids.   *)
(***************************************************************************)
THEOREM LoopsEndOnlyForAReason == Spec => []LoopsEndForAReason
<1>1. Inv => LoopsEndForAReason
  BY DEF Inv, Group
<1>2. QED BY <1>1, InvAlways, PTL

(***************************************************************************)
(* No command gets into the log twice, and success is reported only after  *)
(* the caller's own node has applied it: for any number of callers, of     *)
(* nodes and of forwards that fail although the leader got the message.    *)
(***************************************************************************)
THEOREM ProposalsHaveOneOutcome == Spec => []ProposalOutcome
<1>1. Inv => ProposalOutcome
  <2> SUFFICES ASSUME Inv, NEW c \in Command, NEW at,
                      at = {k \in DOMAIN log : log[k] = CommandEntry(c)}
               PROVE  /\ Cardinality(at) <= 1
                      /\ task[c].pc = "ok" => \E k \in at : k <= node[task[c].at].applied
    BY DEF ProposalOutcome
  <2>1. OnePlace(c) /\ Honoured(c)
    BY DEF Inv, Proposals
  <2>2. \A j, k \in at : j = k
    BY <2>1 DEF OnePlace, InLog
  <2>3. Cardinality(at) <= 1
    <3>1. CASE at = {}
      BY <3>1, FS_EmptySet
    <3>2. CASE at # {}
      <4>1. PICK k \in at : TRUE
        BY <3>2
      <4>2. at = {k}
        BY <2>2, <4>1
      <4>3. Cardinality({k}) = 1
        BY FS_Singleton
      <4>4. QED BY <4>2, <4>3
    <3>3. QED BY <3>1, <3>2
  <2>4. task[c].pc = "ok" => \E k \in at : k <= node[task[c].at].applied
    BY <2>1 DEF Honoured, InLog
  <2>5. QED BY <2>3, <2>4
<1>2. QED BY <1>1, InvAlways, PTL
=============================================================================
