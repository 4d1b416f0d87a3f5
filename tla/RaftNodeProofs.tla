--------------------------- MODULE RaftNodeProofs ---------------------------
(***************************************************************************)
(* Proofs about RaftNode: what a crash between any two writes leaves.      *)
(*                                                                         *)
(* The inductive invariant has three parts: Types; Votes, on the hard      *)
(* state; and Configured, on the configuration that opening reads.         *)
(***************************************************************************)
EXTENDS RaftNode, SequenceTheorems, FiniteSetTheorems, WellFoundedInduction, TLAPS

Fields == {"node_id", "hard_state", "conf_state", "first_index", "last_index",
           "entries", "snapshot"}

EntriesOK(f) == \A i \in DOMAIN f : f[i] \in Entry /\ f[i].index = i

IsLog(log) == log \in Seq(Entry) /\ EntriesOK(log) /\ Len(log) <= MaxIndex

\* Of the hard state, while n entries are chosen.
HardStateOK(hs, n) == hs \in HardState /\ hs.commit <= n

Image(img, n) ==
    /\ DOMAIN img = Fields
    /\ img.hard_state # None => HardStateOK(img.hard_state, n)
    /\ img.conf_state # None => img.conf_state \subseteq 1 .. MaxIndex
    /\ img.first_index \in Nat \cup {None}
    /\ img.last_index \in 0 .. MaxIndex \cup {None}
    /\ EntriesOK(img.entries)
    /\ img.snapshot # None => img.snapshot \in SnapshotMetadata

KeysOK(keys, n) ==
    /\ "hard_state" \in DOMAIN keys => HardStateOK(keys.hard_state, n)
    /\ "conf_state" \in DOMAIN keys => keys.conf_state \subseteq 1 .. MaxIndex
    /\ "first_index" \in DOMAIN keys => keys.first_index \in Nat
    /\ "last_index" \in DOMAIN keys => keys.last_index \in 0 .. MaxIndex
    /\ "entries" \in DOMAIN keys => EntriesOK(keys.entries)
    /\ "snapshot" \in DOMAIN keys => keys.snapshot \in SnapshotMetadata

\* An instruction that makes sense while that much is applied and committed.
InstructionOK(x, applied, commit, n) ==
    \/ /\ x.op = "put" /\ KeysOK(x.keys, n)
       /\ x.sync # "sync" => "hard_state" \notin DOMAIN x.keys
    \/ /\ x.op = "restore" /\ x.snap \in SnapshotMetadata
       /\ x.snap.conf \subseteq 1 .. MaxIndex
    \/ x.op = "apply" /\ x.upto \in applied .. commit
    \/ x.op = "commit" /\ x.index \in 0 .. n
    \/ x.op \in {"send", "snapshot"}

\* code is a sequence of instructions that make sense; those that apply do so in
\* order, and a snapshot is taken last.
CodeOK ==
    /\ code \in Seq(Range(code))
    /\ \A k \in DOMAIN code : InstructionOK(code[k], raft.applied, raft.commit, Len(chosen))
    /\ \A j, k \in DOMAIN code :
          j < k /\ code[j].op = "apply" /\ code[k].op = "apply" => code[j].upto <= code[k].upto
    /\ \A k \in DOMAIN code : code[k].op = "snapshot" => k = Len(code)
    /\ mode = "opening" => \A k \in DOMAIN code : code[k].op = "put"
    /\ mode \notin {"opening", "running"} => code = <<>>

RaftOK ==
    /\ raft \in [term : Nat, vote : Nat, commit : Nat, applied : Nat,
                 conf : SUBSET (1 .. MaxIndex), log : Seq(Entry)]
    /\ IsLog(raft.log)
    /\ raft.applied <= raft.commit /\ raft.commit <= Len(raft.log)
    /\ raft.commit <= Len(chosen)

NodeOK == node \in [sm : Seq(Entry), committed_index : Nat, last_snapshot : Nat,
                    conf : SUBSET (1 .. MaxIndex)]

\* TypeOK, with the types it does not name.
Types ==
    /\ disk \in past /\ \A img \in past : Image(img, Len(chosen))
    /\ cache \in [first : Nat, last : Nat]
    /\ mode \in {"down", "opening", "running", "refused", "ended"}
    /\ mode = "down" => past = {disk}
    /\ CodeOK
    /\ RaftOK
    /\ NodeOK
    /\ IsLog(chosen)
    /\ IsLog(acked)
    /\ promised \in [term : Nat, vote : Nat]
    /\ met \subseteq {"install", "restart", "again"}
    /\ faults \in Nat

-----------------------------------------------------------------------------
\* The puts of on_ready that store entries, and those that store a hard state.
IsAppend(x) == x.op = "put" /\ "entries" \in DOMAIN x.keys

IsHard(x) == x.op = "put" /\ "hard_state" \in DOMAIN x.keys

\* A node with term and vote of x keeps what y has promised.
Covers(x, y) ==
    \/ x.term > y.term
    \/ x.term = y.term /\ (y.vote # 0 => x.vote = y.vote)

VoteStored == disk.hard_state.term = raft.term /\ disk.hard_state.vote = raft.vote

HardBefore(k) == \E j \in DOMAIN code : j < k /\ IsHard(code[j])

\* When instruction k is reached, term and vote are stored.
VoteDue(k) == VoteStored \/ HardBefore(k)

(***************************************************************************)
(* Every image has the same hard state, which keeps what was promised; a   *)
(* pending one is that of raft-rs, and every message waits for it.         *)
(***************************************************************************)
VotesStored ==
    /\ \A img \in past : img.hard_state = disk.hard_state
    /\ promised.term > 0 => disk.hard_state # None /\ Covers(disk.hard_state, promised)

VotesPending ==
    /\ mode = "opening" =>
          /\ disk.hard_state # None \/ HardBefore(Len(code) + 1)
          /\ \A k \in DOMAIN code : IsHard(code[k]) => promised.term = 0
    /\ mode = "running" =>
          /\ disk.hard_state # None
          /\ Covers(raft, disk.hard_state)
          /\ \A k \in DOMAIN code : IsHard(code[k]) =>
                /\ code[k].keys.hard_state.term = raft.term
                /\ code[k].keys.hard_state.vote = raft.vote
          /\ \A k \in DOMAIN code : code[k].op = "send" => VoteDue(k)
          /\ VoteDue(Len(code) + 1)

Votes == VotesStored /\ VotesPending

ConfStored(img) == img.conf_state \subseteq 1 .. MaxIndex

\* An image with a first index has a configuration.
Configured ==
    /\ \A img \in past : img.first_index # None => ConfStored(img)
    /\ mode = "running" => ConfStored(disk)
    /\ mode = "opening" =>
          \A k \in DOMAIN code : "first_index" \in DOMAIN code[k].keys =>
             \/ \E j \in DOMAIN code : j < k /\ "conf_state" \in DOMAIN code[j].keys
             \/ ConfStored(disk)

-----------------------------------------------------------------------------
(* Operators *)

\* What remains of a code after its first instruction.
LEMMA TailOfCode ==
    ASSUME NEW s, s \in Seq(Range(s)), s # <<>>
    PROVE  /\ Tail(s) \in Seq(Range(Tail(s)))
           /\ Len(s) \in Nat \ {0} /\ DOMAIN s = 1 .. Len(s)
           /\ Head(s) = s[1] /\ 1 \in DOMAIN s
           /\ Len(Tail(s)) = Len(s) - 1 /\ DOMAIN Tail(s) = 1 .. Len(s) - 1
           /\ \A k \in 1 .. Len(s) - 1 : k + 1 \in DOMAIN s /\ Tail(s)[k] = s[k + 1]
<1> DEFINE S == Range(s)
<1> HIDE DEF S
<1>1. s \in Seq(S)
  BY DEF S
<1>2. Tail(s) \in Seq(S)
  BY <1>1
<1>3. Len(s) \in Nat \ {0} /\ DOMAIN s = 1 .. Len(s) /\ Head(s) = s[1] /\ 1 \in DOMAIN s
  BY <1>1
<1>4. Len(Tail(s)) = Len(s) - 1 /\ DOMAIN Tail(s) = 1 .. Len(s) - 1
  BY <1>1, <1>3
<1>5. \A k \in 1 .. Len(s) - 1 : k + 1 \in DOMAIN s /\ Tail(s)[k] = s[k + 1]
  BY <1>1, <1>3, <1>4
<1>6. QED BY <1>2, <1>3, <1>4, <1>5, SeqOfRange

\* The larger and the smaller of two numbers.
LEMMA MaxMinOfTwo ==
    ASSUME NEW a \in Nat, NEW b \in Nat
    PROVE  /\ Max({a, b}) = IF a <= b THEN b ELSE a
           /\ Min({a, b}) = IF a <= b THEN a ELSE b
<1>1. Max({a, b}) = IF a <= b THEN b ELSE a
  BY DEF Max
<1>2. Min({a, b}) = IF a <= b THEN a ELSE b
  BY DEF Min
<1>3. QED BY <1>1, <1>2

\* A write changes the keys it names and leaves the others.
LEMMA PutProperties ==
    ASSUME NEW img, NEW keys, DOMAIN img = Fields
    PROVE  /\ DOMAIN Put(img, keys) = Fields
           /\ Put(img, keys).hard_state
                 = IF "hard_state" \in DOMAIN keys THEN keys.hard_state ELSE img.hard_state
           /\ Put(img, keys).conf_state
                 = IF "conf_state" \in DOMAIN keys THEN keys.conf_state ELSE img.conf_state
           /\ Put(img, keys).first_index
                 = IF "first_index" \in DOMAIN keys THEN keys.first_index ELSE img.first_index
           /\ Put(img, keys).last_index
                 = IF "last_index" \in DOMAIN keys THEN keys.last_index ELSE img.last_index
           /\ Put(img, keys).entries
                 = IF "entries" \in DOMAIN keys THEN keys.entries ELSE img.entries
           /\ Put(img, keys).snapshot
                 = IF "snapshot" \in DOMAIN keys THEN keys.snapshot ELSE img.snapshot
BY DEF Put, Fields

\* A well-formed write leads to a well-formed image.
LEMMA PutImage ==
    ASSUME NEW img, NEW keys, NEW n, Image(img, n), KeysOK(keys, n)
    PROVE  Image(Put(img, keys), n)
<1>1. DOMAIN img = Fields
  BY DEF Image
<1> DEFINE new == Put(img, keys)
<1>2. /\ DOMAIN new = Fields
      /\ new.hard_state
            = IF "hard_state" \in DOMAIN keys THEN keys.hard_state ELSE img.hard_state
      /\ new.conf_state
            = IF "conf_state" \in DOMAIN keys THEN keys.conf_state ELSE img.conf_state
      /\ new.first_index
            = IF "first_index" \in DOMAIN keys THEN keys.first_index ELSE img.first_index
      /\ new.last_index
            = IF "last_index" \in DOMAIN keys THEN keys.last_index ELSE img.last_index
      /\ new.entries = IF "entries" \in DOMAIN keys THEN keys.entries ELSE img.entries
      /\ new.snapshot = IF "snapshot" \in DOMAIN keys THEN keys.snapshot ELSE img.snapshot
  BY <1>1, PutProperties
<1> HIDE DEF new
<1>3. Image(new, n)
  BY <1>2 DEF Image, KeysOK
<1>4. QED BY <1>3 DEF new

\* A set of natural numbers has a least one: the form of induction used here.
LEMMA LeastNumber ==
    ASSUME NEW T \in SUBSET Nat, T # {}
    PROVE  \E x \in T : \A y \in T : x <= y
<1>1. IsWellFoundedOn(OpToRel(<, Nat), Nat)
  BY NatLessThanWellFounded
<1>2. PICK x \in T : \A y \in T : ~ (<<y, x>> \in OpToRel(<, Nat))
  BY <1>1, WFMin
<1>3. \A y \in T : ~ (y < x)
  BY <1>2 DEF OpToRel
<1>4. QED BY <1>3

\* The functions that satisfy the recursion of Commands.
Collects(f, log, from, upto) ==
    f = [i \in from .. upto |->
            IF i = from THEN <<>>
            ELSE IF IsNormal(log[i]) THEN Append(f[i - 1], log[i]) ELSE f[i - 1]]

\* There is one.
LEMMA CollectsExists ==
    ASSUME NEW log, NEW from \in Nat, NEW upto \in Nat
    PROVE  \E f : Collects(f, log, from, upto)
<1> DEFINE Bad == {k \in Nat : ~ \E f : Collects(f, log, from, k)}
<1>1. SUFFICES ASSUME Bad # {} PROVE FALSE
  OBVIOUS
<1>2. PICK k \in Bad : \A y \in Bad : k <= y
  BY <1>1, LeastNumber
<1>3. k > from
  <2>1. CASE k < from
    <3>1. Collects([i \in from .. k |-> 0], log, from, k)
      BY <2>1 DEF Collects
    <3>2. QED BY <3>1
  <2>2. CASE k = from
    <3>1. Collects([i \in from .. k |-> <<>>], log, from, k)
      BY <2>2 DEF Collects
    <3>2. QED BY <3>1
  <2>3. QED BY <2>1, <2>2
<1>4. k - 1 \in Nat /\ k - 1 \notin Bad
  BY <1>2, <1>3
<1>5. PICK f : Collects(f, log, from, k - 1)
  BY <1>4
<1> DEFINE g == [i \in from .. k |->
                    IF i = k THEN IF IsNormal(log[i]) THEN Append(f[i - 1], log[i]) ELSE f[i - 1]
                             ELSE f[i]]
<1>6. \A i \in from .. k :
         g[i] = IF i = from THEN <<>>
                ELSE IF IsNormal(log[i]) THEN Append(g[i - 1], log[i]) ELSE g[i - 1]
  <2> SUFFICES ASSUME NEW i \in from .. k
               PROVE  g[i] = IF i = from THEN <<>>
                             ELSE IF IsNormal(log[i]) THEN Append(g[i - 1], log[i]) ELSE g[i - 1]
    OBVIOUS
  <2>1. i # from => i - 1 \in from .. k /\ i - 1 # k /\ g[i - 1] = f[i - 1]
    BY <1>2, <1>3
  <2>2. CASE i = k
    BY <1>3, <2>1, <2>2
  <2>3. CASE i # k
    <3>1. i \in from .. k - 1 /\ g[i] = f[i]
      BY <1>2, <2>3
    <3>2. f[i] = IF i = from THEN <<>>
                 ELSE IF IsNormal(log[i]) THEN Append(f[i - 1], log[i]) ELSE f[i - 1]
      BY <1>5, <3>1 DEF Collects
    <3>3. QED BY <2>1, <3>1, <3>2
  <2>4. QED BY <2>2, <2>3
<1>7. Collects(g, log, from, k)
  BY <1>6 DEF Collects
<1>8. QED BY <1>2, <1>7

\* Commands is what such a function has for the last entry.
LEMMA CommandsDefined ==
    ASSUME NEW log, NEW from \in Nat, NEW upto \in Nat
    PROVE  \E f : Collects(f, log, from, upto) /\ Commands(log, from, upto) = f[upto]
<1> DEFINE some[i \in from .. upto] ==
               IF i = from THEN <<>>
               ELSE IF IsNormal(log[i]) THEN Append(some[i - 1], log[i]) ELSE some[i - 1]
<1>1. Commands(log, from, upto) = some[upto]
  BY DEF Commands
<1>2. \E g : g = [i \in from .. upto |->
                     IF i = from THEN <<>>
                     ELSE IF IsNormal(log[i]) THEN Append(g[i - 1], log[i]) ELSE g[i - 1]]
  <2>1. PICK g : Collects(g, log, from, upto)
    BY CollectsExists
  <2>2. QED BY <2>1, Zenon DEF Collects
<1>3. some = [i \in from .. upto |->
                 IF i = from THEN <<>>
                 ELSE IF IsNormal(log[i]) THEN Append(some[i - 1], log[i]) ELSE some[i - 1]]
  BY <1>2, Zenon
<1>4. QED BY <1>1, <1>3 DEF Collects

\* The commands up to n depend on nothing that comes later.
LEMMA CommandsAgree ==
    ASSUME NEW log1, NEW log2, NEW from \in Nat, NEW n \in Nat, from <= n,
           NEW a \in Nat, NEW b \in Nat, n <= a, n <= b,
           NEW f, NEW g, Collects(f, log1, from, a), Collects(g, log2, from, b),
           \A i \in from + 1 .. n : log1[i] = log2[i]
    PROVE  f[n] = g[n]
<1> DEFINE Bad == {k \in from .. n : f[k] # g[k]}
<1>1. SUFFICES ASSUME Bad # {} PROVE FALSE
  OBVIOUS
<1>2. Bad \in SUBSET Nat
  OBVIOUS
<1>3. PICK k \in Bad : \A y \in Bad : k <= y
  BY <1>1, <1>2, LeastNumber
<1>4. k \in from .. a /\ k \in from .. b
  BY <1>3
<1>5. /\ f[k] = IF k = from THEN <<>>
                ELSE IF IsNormal(log1[k]) THEN Append(f[k - 1], log1[k]) ELSE f[k - 1]
      /\ g[k] = IF k = from THEN <<>>
                ELSE IF IsNormal(log2[k]) THEN Append(g[k - 1], log2[k]) ELSE g[k - 1]
  BY <1>4 DEF Collects
<1>6. k # from => k - 1 \in from .. n /\ k - 1 \notin Bad /\ k \in from + 1 .. n
  BY <1>3
<1>7. k # from => f[k - 1] = g[k - 1] /\ log1[k] = log2[k]
  BY <1>6
<1>8. QED BY <1>3, <1>5, <1>7

\* The recursion, as equations.
LEMMA CommandsStep ==
    ASSUME NEW log, NEW from \in Nat, NEW n \in Nat, from <= n
    PROVE  /\ Commands(log, from, from) = <<>>
           /\ Commands(log, from, n + 1)
                 = IF IsNormal(log[n + 1]) THEN Append(Commands(log, from, n), log[n + 1])
                   ELSE Commands(log, from, n)
<1>1. PICK f : Collects(f, log, from, from) /\ Commands(log, from, from) = f[from]
  BY CommandsDefined
<1>2. PICK g : Collects(g, log, from, n) /\ Commands(log, from, n) = g[n]
  BY CommandsDefined
<1>3. PICK h : Collects(h, log, from, n + 1) /\ Commands(log, from, n + 1) = h[n + 1]
  BY CommandsDefined
<1>4. h[n] = g[n]
  BY <1>2, <1>3, CommandsAgree, SMTT(30)
<1>5. f[from] = <<>>
  BY <1>1 DEF Collects
<1>6. h[n + 1] = IF IsNormal(log[n + 1]) THEN Append(h[n], log[n + 1]) ELSE h[n]
  <2>1. n + 1 \in from .. n + 1 /\ n + 1 # from /\ (n + 1) - 1 = n
    OBVIOUS
  <2>2. h[n + 1] = IF IsNormal(log[n + 1]) THEN Append(h[(n + 1) - 1], log[n + 1])
                   ELSE h[(n + 1) - 1]
    BY <1>3, <2>1 DEF Collects
  <2>3. QED BY <2>1, <2>2
<1>7. QED BY <1>1, <1>2, <1>3, <1>4, <1>5, <1>6

\* Logs that agree up to n have the same commands up to n.
LEMMA CommandsOfPrefix ==
    ASSUME NEW log1, NEW log2, NEW from \in Nat, NEW n \in Nat, from <= n,
           \A i \in from + 1 .. n : log1[i] = log2[i]
    PROVE  Commands(log1, from, n) = Commands(log2, from, n)
<1>1. PICK f : Collects(f, log1, from, n) /\ Commands(log1, from, n) = f[n]
  BY CommandsDefined
<1>2. PICK g : Collects(g, log2, from, n) /\ Commands(log2, from, n) = g[n]
  BY CommandsDefined
<1>3. f[n] = g[n]
  BY <1>1, <1>2, CommandsAgree
<1>4. QED BY <1>1, <1>2, <1>3

\* The commands of a log are entries of it, and the last one is at the index it has.
LEMMA CommandsType ==
    ASSUME NEW log, IsLog(log), NEW from \in Nat, NEW n \in Nat, from <= n, n <= Len(log)
    PROVE  /\ Commands(log, from, n) \in Seq(Entry)
           /\ LET cmds == Commands(log, from, n)
              IN  cmds # <<>> => cmds[Len(cmds)].index \in from + 1 .. n
<1> DEFINE Good(k) == LET cmds == Commands(log, from, k)
                      IN  /\ cmds \in Seq(Entry)
                          /\ cmds # <<>> => cmds[Len(cmds)].index \in from + 1 .. k
           Bad == {k \in from .. n : ~ Good(k)}
<1>1. SUFFICES ASSUME Bad # {} PROVE FALSE
  OBVIOUS
<1>2. Bad \in SUBSET Nat
  OBVIOUS
<1>3. PICK k \in Bad : \A y \in Bad : k <= y
  BY <1>1, <1>2, LeastNumber
<1>4. CASE k = from
  <2>1. Commands(log, from, k) = <<>>
    BY <1>4, CommandsStep
  <2>2. Good(k)
    BY <2>1
  <2>3. QED BY <1>3, <2>2
<1>5. CASE k # from
  <2> DEFINE old == Commands(log, from, k - 1)
             new == Commands(log, from, k)
  <2>1. k \in from + 1 .. n /\ k - 1 \in from .. n /\ k - 1 \notin Bad
    BY <1>3, <1>5
  <2>2. Good(k - 1)
    BY <2>1
  <2>3. old \in Seq(Entry) /\ (old # <<>> => old[Len(old)].index \in from + 1 .. k - 1)
    BY <2>2
  <2>4. new = IF IsNormal(log[k]) THEN Append(old, log[k]) ELSE old
    <3>1. k - 1 \in Nat /\ from <= k - 1 /\ (k - 1) + 1 = k
      BY <2>1
    <3>2. QED BY <3>1, CommandsStep, ZenonT(30)
  <2>5. log[k] \in Entry /\ log[k].index = k
    BY <2>1 DEF IsLog, EntriesOK
  <2> HIDE DEF old, new
  <2>6. CASE IsNormal(log[k])
    <3>1. new \in Seq(Entry) /\ Len(new) = Len(old) + 1 /\ new[Len(old) + 1] = log[k]
      BY <2>3, <2>4, <2>5, <2>6
    <3>2. new \in Seq(Entry) /\ (new # <<>> => new[Len(new)].index \in from + 1 .. k)
      BY <2>1, <2>5, <3>1
    <3>3. QED BY <1>3, <3>2 DEF new
  <2>7. CASE ~ IsNormal(log[k])
    <3>1. new \in Seq(Entry) /\ (new # <<>> => new[Len(new)].index \in from + 1 .. k)
      BY <2>1, <2>3, <2>4, <2>7
    <3>2. QED BY <1>3, <3>1 DEF new
  <2>8. QED BY <2>6, <2>7
<1>6. QED BY <1>4, <1>5

\* The commands up to n are those up to m and then those after m.
Split(log, m, n) == Commands(log, 0, n) = Commands(log, 0, m) \o Commands(log, m, n)

\* One step of it.
LEMMA CommandsSplitStep ==
    ASSUME NEW log, IsLog(log), NEW m \in Nat, NEW n \in Nat, m <= n, n + 1 <= Len(log),
           Split(log, m, n)
    PROVE  Split(log, m, n + 1)
<1> DEFINE base == Commands(log, 0, m)
           old  == Commands(log, m, n)
           all  == Commands(log, 0, n)
           x    == log[n + 1]
<1>1. base \in Seq(Entry) /\ old \in Seq(Entry)
  BY CommandsType DEF IsLog
<1>2. x \in Entry
  BY DEF IsLog, EntriesOK
<1>3. Commands(log, m, n + 1) = IF IsNormal(x) THEN Append(old, x) ELSE old
  BY CommandsStep
<1>4. Commands(log, 0, n + 1) = IF IsNormal(x) THEN Append(all, x) ELSE all
  <2>1. 0 \in Nat /\ 0 <= n
    OBVIOUS
  <2>2. QED BY <2>1, CommandsStep
<1> HIDE DEF base, old, all, x
<1>5. Append(base \o old, x) = base \o Append(old, x)
  BY <1>1, <1>2
<1>6. all = base \o old
  BY DEF all, base, old, Split
<1>7. Append(all, x) = base \o Append(old, x)
  BY <1>5, <1>6, Zenon
<1>8. Commands(log, 0, n + 1) = base \o Commands(log, m, n + 1)
  BY <1>3, <1>4, <1>6, <1>7, Zenon
<1>9. QED BY <1>8 DEF base, Split

\* The commands up to n are those up to m and then those after m.
LEMMA CommandsSplit ==
    ASSUME NEW log, IsLog(log), NEW m \in Nat, NEW n \in Nat, m <= n, n <= Len(log)
    PROVE  Split(log, m, n)
<1> DEFINE Bad == {k \in m .. n : ~ Split(log, m, k)}
<1>1. SUFFICES ASSUME Bad # {} PROVE FALSE
  OBVIOUS
<1>2. Bad \in SUBSET Nat
  OBVIOUS
<1>3. PICK k \in Bad : \A y \in Bad : k <= y
  BY <1>1, <1>2, LeastNumber
<1>4. CASE k = m
  <2> DEFINE base == Commands(log, 0, m)
  <2>1. base \in Seq(Entry)
    BY CommandsType
  <2>2. Commands(log, m, k) = <<>>
    BY <1>4, CommandsStep
  <2> HIDE DEF base
  <2>3. base \o <<>> = base
    BY <2>1
  <2>4. QED BY <1>3, <1>4, <2>2, <2>3 DEF base, Split
<1>5. CASE k # m
  <2>1. k - 1 \in m .. n /\ k - 1 \notin Bad
    BY <1>3, <1>5
  <2>2. PICK j \in Nat : j = k - 1
    BY <2>1
  <2>3. Split(log, m, j) /\ m <= j /\ j + 1 <= Len(log) /\ k = j + 1
    BY <1>3, <2>1, <2>2 DEF IsLog
  <2>4. Split(log, m, j + 1)
    BY <2>2, <2>3, CommandsSplitStep
  <2>5. QED BY <1>3, <2>3, <2>4
<1>6. QED BY <1>4, <1>5

-----------------------------------------------------------------------------
(* Code *)

AppendI(es) == Head(append(disk, cache, es))

\* append is one put, in one batch with last_index and, the first time, first_index.
LEMMA AppendShape ==
    ASSUME NEW es, es # <<>>
    PROVE  /\ append(disk, cache, es) = <<AppendI(es)>>
           /\ AppendI(es).op = "put" /\ AppendI(es).sync = "sync"
           /\ AppendI(es).keys.entries = WithEntries(disk, es)
           /\ AppendI(es).keys.last_index = es[Len(es)].index
           /\ cache.last = 0 => AppendI(es).keys.first_index = es[1].index
           /\ DOMAIN AppendI(es).keys = {"entries", "last_index"}
                    \cup (IF cache.last = 0 THEN {"first_index"} ELSE {})
<1> DEFINE w == WithEntries(disk, es)
           l == es[Len(es)].index
           a == Sync([entries |-> w, last_index |-> l])
           b == Sync([entries |-> w, last_index |-> l, first_index |-> es[1].index])
<1>1. append(disk, cache, es) = IF cache.last # 0 THEN <<a>> ELSE <<b>>
  BY DEF append
<1>2. /\ a.op = "put" /\ a.sync = "sync" /\ a.keys.entries = w /\ a.keys.last_index = l
      /\ DOMAIN a.keys = {"entries", "last_index"}
  BY DEF Sync
<1>3. /\ b.op = "put" /\ b.sync = "sync" /\ b.keys.entries = w /\ b.keys.last_index = l
      /\ b.keys.first_index = es[1].index
      /\ DOMAIN b.keys = {"entries", "last_index", "first_index"}
  BY DEF Sync
<1> HIDE DEF a, b
<1>4. Head(<<a>>) = a /\ Head(<<b>>) = b
  OBVIOUS
<1>5. AppendI(es) = IF cache.last # 0 THEN a ELSE b
  BY <1>1, <1>4 DEF AppendI
<1>6. append(disk, cache, es) = <<AppendI(es)>>
  BY <1>1, <1>5
<1>7. CASE cache.last # 0
  BY <1>2, <1>5, <1>6, <1>7
<1>8. CASE cache.last = 0
  BY <1>3, <1>5, <1>6, <1>8
<1>9. QED BY <1>7, <1>8

\* The parts of a Ready without a snapshot.
Joined(now, A, H, s, C, later, t) ==
    <<>> \o <<now>> \o A \o H \o <<s>> \o C \o <<later, t>>

\* Concatenations of the parts of a Ready, as tuples.
LEMMA ReadyTuples ==
    ASSUME NEW now, NEW a, NEW h, NEW s, NEW c, NEW later, NEW t
    PROVE  /\ Joined(now, <<>>, <<>>, s, <<>>, later, t) = <<now, s, later, t>>
           /\ Joined(now, <<>>, <<h>>, s, <<>>, later, t) = <<now, h, s, later, t>>
           /\ Joined(now, <<>>, <<>>, s, <<c, s>>, later, t) = <<now, s, c, s, later, t>>
           /\ Joined(now, <<a>>, <<>>, s, <<>>, later, t) = <<now, a, s, later, t>>
           /\ Joined(now, <<a>>, <<h>>, s, <<>>, later, t) = <<now, a, h, s, later, t>>
           /\ Joined(now, <<a>>, <<>>, s, <<c, s>>, later, t) = <<now, a, s, c, s, later, t>>
<1> DEFINE S == {now, a, h, s, c, later, t}
<1>1. Joined(now, <<>>, <<>>, s, <<>>, later, t) = <<now, s, later, t>>
  <2> DEFINE x == Joined(now, <<>>, <<>>, s, <<>>, later, t)
             z == <<now, s, later, t>>
  <2>1. x \in Seq(S) /\ z \in Seq(S) /\ Len(x) = 4 /\ Len(z) = 4
    BY DEF Joined
  <2>2. \A i \in 1 .. 4 : x[i] = z[i]
    BY DEF Joined
  <2> HIDE DEF x, z, S
  <2>3. x = z
    BY <2>1, <2>2, SeqEqual
  <2>4. QED BY <2>3 DEF x, z
<1>2. Joined(now, <<>>, <<h>>, s, <<>>, later, t) = <<now, h, s, later, t>>
  <2> DEFINE x == Joined(now, <<>>, <<h>>, s, <<>>, later, t)
             z == <<now, h, s, later, t>>
  <2>1. x \in Seq(S) /\ z \in Seq(S) /\ Len(x) = 5 /\ Len(z) = 5
    BY DEF Joined
  <2>2. \A i \in 1 .. 5 : x[i] = z[i]
    BY DEF Joined
  <2> HIDE DEF x, z, S
  <2>3. x = z
    BY <2>1, <2>2, SeqEqual
  <2>4. QED BY <2>3 DEF x, z
<1>3. Joined(now, <<>>, <<>>, s, <<c, s>>, later, t) = <<now, s, c, s, later, t>>
  <2> DEFINE x == Joined(now, <<>>, <<>>, s, <<c, s>>, later, t)
             z == <<now, s, c, s, later, t>>
  <2>1. x \in Seq(S) /\ z \in Seq(S) /\ Len(x) = 6 /\ Len(z) = 6
    BY DEF Joined
  <2>2. \A i \in 1 .. 6 : x[i] = z[i]
    BY DEF Joined
  <2> HIDE DEF x, z, S
  <2>3. x = z
    BY <2>1, <2>2, SeqEqual
  <2>4. QED BY <2>3 DEF x, z
<1>4. Joined(now, <<a>>, <<>>, s, <<>>, later, t) = <<now, a, s, later, t>>
  <2> DEFINE x == Joined(now, <<a>>, <<>>, s, <<>>, later, t)
             z == <<now, a, s, later, t>>
  <2>1. x \in Seq(S) /\ z \in Seq(S) /\ Len(x) = 5 /\ Len(z) = 5
    BY DEF Joined
  <2>2. \A i \in 1 .. 5 : x[i] = z[i]
    BY DEF Joined
  <2> HIDE DEF x, z, S
  <2>3. x = z
    BY <2>1, <2>2, SeqEqual
  <2>4. QED BY <2>3 DEF x, z
<1>5. Joined(now, <<a>>, <<h>>, s, <<>>, later, t) = <<now, a, h, s, later, t>>
  <2> DEFINE x == Joined(now, <<a>>, <<h>>, s, <<>>, later, t)
             z == <<now, a, h, s, later, t>>
  <2>1. x \in Seq(S) /\ z \in Seq(S) /\ Len(x) = 6 /\ Len(z) = 6
    BY DEF Joined
  <2>2. \A i \in 1 .. 6 : x[i] = z[i]
    BY DEF Joined
  <2> HIDE DEF x, z, S
  <2>3. x = z
    BY <2>1, <2>2, SeqEqual
  <2>4. QED BY <2>3 DEF x, z
<1>6. Joined(now, <<a>>, <<>>, s, <<c, s>>, later, t) = <<now, a, s, c, s, later, t>>
  <2> DEFINE x == Joined(now, <<a>>, <<>>, s, <<c, s>>, later, t)
             z == <<now, a, s, c, s, later, t>>
  <2>1. x \in Seq(S) /\ z \in Seq(S) /\ Len(x) = 7 /\ Len(z) = 7
    BY DEF Joined
  <2>2. \A i \in 1 .. 7 : x[i] = z[i]
    BY DEF Joined
  <2> HIDE DEF x, z, S
  <2>3. x = z
    BY <2>1, <2>2, SeqEqual
  <2>4. QED BY <2>3 DEF x, z
<1>7. QED BY <1>1, <1>2, <1>3, <1>4, <1>5, <1>6

\* The parts of one with a snapshot.
JoinedInstall(p, x, y, z, now, h, s, later, t) ==
    (<<p>> \o <<x, y, z>>) \o <<now>> \o <<>> \o <<h>> \o <<s>> \o <<>> \o <<later, t>>

\* The same of a Ready with a snapshot.
LEMMA InstallTuple ==
    ASSUME NEW p, NEW x, NEW y, NEW z, NEW now, NEW h, NEW s, NEW later, NEW t
    PROVE  JoinedInstall(p, x, y, z, now, h, s, later, t)
              = <<p, x, y, z, now, h, s, later, t>>
<1> DEFINE S == {p, x, y, z, now, h, s, later, t}
           l == JoinedInstall(p, x, y, z, now, h, s, later, t)
           r == <<p, x, y, z, now, h, s, later, t>>
<1>1. l \in Seq(S) /\ r \in Seq(S) /\ Len(l) = 9 /\ Len(r) = 9
  BY DEF JoinedInstall
<1>2. \A i \in 1 .. 9 : l[i] = r[i]
  BY DEF JoinedInstall
<1> HIDE DEF l, r, S
<1>3. l = r
  BY <1>1, <1>2, SeqEqual
<1>4. QED BY <1>3 DEF l, r

\* The code of a Ready without a snapshot, whose parts may be missing.
LEMMA ReadyShape ==
    ASSUME NEW r, r.snap = None, r.hs = None \/ r.commit = None
    PROVE  LET a == AppendI(r.entries)
               h == Sync([hard_state |-> r.hs])
               c == CommitI(r.commit)
               now == ApplyI(r.now)
               later == ApplyI(r.later)
           IN  OnReady(r) =
                 IF r.commit # None
                 THEN IF r.entries = <<>> THEN <<now, SendI, c, SendI, later, SnapshotI>>
                      ELSE <<now, a, SendI, c, SendI, later, SnapshotI>>
                 ELSE IF r.hs # None
                 THEN IF r.entries = <<>> THEN <<now, h, SendI, later, SnapshotI>>
                      ELSE <<now, a, h, SendI, later, SnapshotI>>
                 ELSE IF r.entries = <<>> THEN <<now, SendI, later, SnapshotI>>
                      ELSE <<now, a, SendI, later, SnapshotI>>
<1> DEFINE a == AppendI(r.entries)
           h == Sync([hard_state |-> r.hs])
           c == CommitI(r.commit)
           now == ApplyI(r.now)
           later == ApplyI(r.later)
           A == append(disk, cache, r.entries)
           H == If(r.hs, set_hardstate(r.hs))
           C == If(r.commit, <<CommitI(r.commit), SendI>>)
<1>1. A = IF r.entries = <<>> THEN <<>> ELSE <<a>>
  BY AppendShape DEF append
<1>2. H = IF r.hs = None THEN <<>> ELSE <<h>>
  BY DEF If, set_hardstate
<1>3. C = IF r.commit = None THEN <<>> ELSE <<c, SendI>>
  BY DEF If
<1>4. OnReady(r) = Joined(now, A, H, SendI, C, later, SnapshotI)
  BY DEF OnReady, If, Joined
<1> HIDE DEF a, h, c, now, later, A, H, C
<1>tuples. /\ Joined(now, <<>>, <<>>, SendI, <<>>, later, SnapshotI) = <<now, SendI, later, SnapshotI>>
      /\ Joined(now, <<>>, <<h>>, SendI, <<>>, later, SnapshotI) = <<now, h, SendI, later, SnapshotI>>
      /\ Joined(now, <<>>, <<>>, SendI, <<c, SendI>>, later, SnapshotI) = <<now, SendI, c, SendI, later, SnapshotI>>
      /\ Joined(now, <<a>>, <<>>, SendI, <<>>, later, SnapshotI) = <<now, a, SendI, later, SnapshotI>>
      /\ Joined(now, <<a>>, <<h>>, SendI, <<>>, later, SnapshotI) = <<now, a, h, SendI, later, SnapshotI>>
      /\ Joined(now, <<a>>, <<>>, SendI, <<c, SendI>>, later, SnapshotI) = <<now, a, SendI, c, SendI, later, SnapshotI>>
  BY ReadyTuples
<1>5. CASE r.entries = <<>>
  <2>1. A = <<>>
    BY <1>1, <1>5
  <2>2. CASE r.hs # None
    <3>1. H = <<h>> /\ C = <<>>
      BY <1>2, <1>3, <2>2
    <3>2. OnReady(r) = Joined(now, <<>>, <<h>>, SendI, <<>>, later, SnapshotI)
      BY <1>4, <2>1, <3>1, Zenon
    <3>3. OnReady(r) = <<now, h, SendI, later, SnapshotI>>
      BY <3>2, <1>tuples, Zenon
    <3>4. QED BY <1>5, <2>2, <3>3 DEF a, h, c, now, later
  <2>3. CASE r.commit # None
    <3>1. H = <<>> /\ C = <<c, SendI>>
      BY <1>2, <1>3, <2>3
    <3>2. OnReady(r) = Joined(now, <<>>, <<>>, SendI, <<c, SendI>>, later, SnapshotI)
      BY <1>4, <2>1, <3>1, Zenon
    <3>3. OnReady(r) = <<now, SendI, c, SendI, later, SnapshotI>>
      BY <3>2, <1>tuples, Zenon
    <3>4. QED BY <1>5, <2>3, <3>3 DEF a, h, c, now, later
  <2>4. CASE r.hs = None /\ r.commit = None
    <3>1. H = <<>> /\ C = <<>>
      BY <1>2, <1>3, <2>4
    <3>2. OnReady(r) = Joined(now, <<>>, <<>>, SendI, <<>>, later, SnapshotI)
      BY <1>4, <2>1, <3>1, Zenon
    <3>3. OnReady(r) = <<now, SendI, later, SnapshotI>>
      BY <3>2, <1>tuples, Zenon
    <3>4. QED BY <1>5, <2>4, <3>3 DEF a, h, c, now, later
  <2>5. QED BY <2>2, <2>3, <2>4
<1>6. CASE r.entries # <<>>
  <2>1. A = <<a>>
    BY <1>1, <1>6
  <2>2. CASE r.hs # None
    <3>1. H = <<h>> /\ C = <<>>
      BY <1>2, <1>3, <2>2
    <3>2. OnReady(r) = Joined(now, <<a>>, <<h>>, SendI, <<>>, later, SnapshotI)
      BY <1>4, <2>1, <3>1, Zenon
    <3>3. OnReady(r) = <<now, a, h, SendI, later, SnapshotI>>
      BY <3>2, <1>tuples, Zenon
    <3>4. QED BY <1>6, <2>2, <3>3 DEF a, h, c, now, later
  <2>3. CASE r.commit # None
    <3>1. H = <<>> /\ C = <<c, SendI>>
      BY <1>2, <1>3, <2>3
    <3>2. OnReady(r) = Joined(now, <<a>>, <<>>, SendI, <<c, SendI>>, later, SnapshotI)
      BY <1>4, <2>1, <3>1, Zenon
    <3>3. OnReady(r) = <<now, a, SendI, c, SendI, later, SnapshotI>>
      BY <3>2, <1>tuples, Zenon
    <3>4. QED BY <1>6, <2>3, <3>3 DEF a, h, c, now, later
  <2>4. CASE r.hs = None /\ r.commit = None
    <3>1. H = <<>> /\ C = <<>>
      BY <1>2, <1>3, <2>4
    <3>2. OnReady(r) = Joined(now, <<a>>, <<>>, SendI, <<>>, later, SnapshotI)
      BY <1>4, <2>1, <3>1, Zenon
    <3>3. OnReady(r) = <<now, a, SendI, later, SnapshotI>>
      BY <3>2, <1>tuples, Zenon
    <3>4. QED BY <1>6, <2>4, <3>3 DEF a, h, c, now, later
  <2>5. QED BY <2>2, <2>3, <2>4
<1>7. QED BY <1>5, <1>6

\* The code of a Ready with a snapshot.
LEMMA InstallShape ==
    ASSUME NEW r, r.snap # None, r.entries = <<>>, r.hs # None, r.commit = None
    PROVE  OnReady(r) = <<RestoreI(r.snap), Lazy([snapshot |-> r.snap]),
                          Lazy([conf_state |-> r.snap.conf]),
                          Lazy([first_index |-> r.snap.index + 1]), ApplyI(r.now),
                          Sync([hard_state |-> r.hs]), SendI, ApplyI(r.later), SnapshotI>>
<1> DEFINE h == Sync([hard_state |-> r.hs])
           now == ApplyI(r.now)
           later == ApplyI(r.later)
           p == RestoreI(r.snap)
           x == Lazy([snapshot |-> r.snap])
           y == Lazy([conf_state |-> r.snap.conf])
           z == Lazy([first_index |-> r.snap.index + 1])
<1>1. OnReady(r) = JoinedInstall(p, x, y, z, now, h, SendI, later, SnapshotI)
  BY DEF JoinedInstall, OnReady, If, append, set_hardstate, apply_snapshot
<1> HIDE DEF h, now, later, p, x, y, z
<1>2. OnReady(r) = <<p, x, y, z, now, h, SendI, later, SnapshotI>>
  BY <1>1, InstallTuple
<1>3. QED BY <1>2 DEF h, now, later, p, x, y, z

-----------------------------------------------------------------------------
(* Types *)

\* The first instruction has been executed; the others make sense in the new state.
LEMMA TailOK ==
    ASSUME CodeOK, code # <<>>, code' = Tail(code), mode' = mode,
           mode \in {"opening", "running"},
           \A k \in DOMAIN code : k > 1 =>
              InstructionOK(code[k], raft'.applied, raft'.commit, Len(chosen'))
    PROVE  CodeOK'
<1>1. /\ Tail(code) \in Seq(Range(Tail(code)))
      /\ Len(code) \in Nat \ {0} /\ DOMAIN code = 1 .. Len(code)
      /\ Len(Tail(code)) = Len(code) - 1 /\ DOMAIN Tail(code) = 1 .. Len(code) - 1
      /\ \A k \in 1 .. Len(code) - 1 : k + 1 \in DOMAIN code /\ Tail(code)[k] = code[k + 1]
  BY TailOfCode DEF CodeOK
<1>2. PICK new : new = Tail(code)
  OBVIOUS
<1>3. /\ code' = new /\ new \in Seq(Range(new)) /\ Len(new) = Len(code) - 1
      /\ DOMAIN new = 1 .. Len(code) - 1
      /\ \A k \in DOMAIN new : k + 1 \in DOMAIN code /\ new[k] = code[k + 1]
  BY <1>1, <1>2
<1>4. \A k \in DOMAIN new : InstructionOK(new[k], raft'.applied, raft'.commit, Len(chosen'))
  <2> SUFFICES ASSUME NEW k \in DOMAIN new
               PROVE  InstructionOK(new[k], raft'.applied, raft'.commit, Len(chosen'))
    OBVIOUS
  <2>1. k + 1 \in DOMAIN code /\ k + 1 > 1 /\ new[k] = code[k + 1]
    BY <1>1, <1>3
  <2>2. QED BY <2>1
<1>5. \A j, k \in DOMAIN new :
         j < k /\ new[j].op = "apply" /\ new[k].op = "apply" => new[j].upto <= new[k].upto
  <2> SUFFICES ASSUME NEW j \in DOMAIN new, NEW k \in DOMAIN new, j < k,
                      new[j].op = "apply", new[k].op = "apply"
               PROVE  new[j].upto <= new[k].upto
    OBVIOUS
  <2>1. j + 1 < k + 1 /\ j + 1 \in DOMAIN code /\ k + 1 \in DOMAIN code
    BY <1>1, <1>3
  <2>2. QED BY <1>3, <2>1 DEF CodeOK
<1>6. \A k \in DOMAIN new : new[k].op = "snapshot" => k = Len(new)
  BY <1>1, <1>3 DEF CodeOK
<1>7. mode = "opening" => \A k \in DOMAIN new : new[k].op = "put"
  BY <1>3 DEF CodeOK
<1>8. QED BY <1>3, <1>4, <1>5, <1>6, <1>7 DEF CodeOK

\* An image stays well formed while more is chosen.
LEMMA ImageStays ==
    ASSUME NEW img, NEW n \in Nat, NEW m \in Nat, n <= m, Image(img, n)
    PROVE  Image(img, m)
BY DEF Image, HardStateOK, HardState

\* Initially.
LEMMA TypesInit == Init => Types
<1> SUFFICES ASSUME Init PROVE Types
  OBVIOUS
<1> USE NodeAssumption, NoneIsNoValue
<1>1. Image(EmptyImage, 0)
  BY DEF Image, EmptyImage, Fields, EntriesOK
<1>2. IsLog(<<>>)
  BY DEF IsLog, EntriesOK
<1>3. CodeOK
  <2>1. code = <<>> /\ mode = "down"
    BY DEF Init
  <2>2. <<>> \in Seq(Range(<<>>)) /\ DOMAIN <<>> = {}
    OBVIOUS
  <2>3. QED BY <2>1, <2>2 DEF CodeOK
<1>4. RaftOK
  BY <1>2 DEF Init, RaftOK, NewRaft, IsLog
<1>5. NodeOK
  BY DEF Init, NodeOK, NewNode
<1>6. QED BY <1>1, <1>2, <1>3, <1>4, <1>5 DEF Init, Types

\* Start: the code of initialize_if_needed is well formed.
LEMMA TypesStart ==
    ASSUME Types, Start
    PROVE  Types'
<1> USE NodeAssumption
<1> DEFINE init == <<Lazy([node_id |-> NodeId]), Sync([hard_state |-> DefaultHardState]),
                     Lazy([conf_state |-> {}]), Lazy([first_index |-> 1]),
                     Lazy([last_index |-> 0])>>
<1>1. code' = <<>> \/ code' = init
  BY DEF Start, InitializeIfNeeded
<1>2. mode' = "opening"
  BY DEF Start
<1>3. UNCHANGED <<disk, past, cache, raft, node, chosen, acked, promised, met, faults>>
  BY DEF Start, diskVars, ghostVars
<1>4. CodeOK'
  <2>1. CASE code' = <<>>
    <3>1. <<>> \in Seq(Range(<<>>)) /\ DOMAIN <<>> = {}
      OBVIOUS
    <3>2. QED BY <1>2, <2>1, <3>1 DEF CodeOK
  <2>2. CASE code' = init
    <3>1. DOMAIN init = 1 .. 5 /\ Len(init) = 5 /\ init \in Seq({init[1], init[2], init[3], init[4], init[5]})
      OBVIOUS
    <3>2. init \in Seq(Range(init))
      BY <3>1, SeqOfRange
    <3>3. Len(chosen) \in Nat
      BY DEF Types, IsLog
    <3>4. \A k \in 1 .. 5 : /\ InstructionOK(init[k], raft.applied, raft.commit, Len(chosen))
                            /\ init[k].op = "put"
      BY <3>3 DEF InstructionOK, KeysOK, Lazy, Sync, HardStateOK, HardState, DefaultHardState
    <3>5. QED BY <1>2, <1>3, <2>2, <3>1, <3>2, <3>4 DEF CodeOK
  <2>3. QED BY <1>1, <2>1, <2>2
<1>5. RaftOK' /\ NodeOK'
  BY <1>3 DEF Types, RaftOK, NodeOK
<1>6. QED BY <1>2, <1>3, <1>4, <1>5 DEF Types

\* The empty code makes sense at any time.
LEMMA EmptyCodeOK ==
    ASSUME code' = <<>>
    PROVE  CodeOK'
<1>1. <<>> \in Seq(Range(<<>>)) /\ DOMAIN <<>> = {}
  OBVIOUS
<1>2. QED BY <1>1 DEF CodeOK

\* What raft-rs accepts is a log and a commit index within it.
LEMMA AcceptedLog ==
    ASSUME Types, disk.hard_state # None, RaftAccepts(disk)
    PROVE  /\ disk.first_index \in Nat \ {0} /\ disk.hard_state \in HardState
           /\ disk.first_index - 1 <= disk.hard_state.commit
           /\ disk.hard_state.commit <= LoadIndex(disk.last_index)
           /\ disk.hard_state.commit <= Len(chosen)
           /\ IsLog(ReadLog(disk)) /\ Len(ReadLog(disk)) = LoadIndex(disk.last_index)
<1> USE NodeAssumption, NoneIsNoValue
<1> DEFINE last == LoadIndex(disk.last_index)
           hs == disk.hard_state
<1>1. Image(disk, Len(chosen)) /\ Len(chosen) \in Nat /\ IsLog(chosen)
  BY DEF Types, IsLog
<1>2. last \in 0 .. MaxIndex
  BY <1>1 DEF Image, LoadIndex
<1>3. hs \in HardState /\ hs.commit \in Nat /\ hs.commit <= Len(chosen)
  BY <1>1 DEF Image, HardStateOK, HardState
<1>4. LoadIndex(disk.first_index) > 0 /\ disk.first_index \in Nat \cup {None}
  BY <1>1 DEF RaftAccepts, LoadCaches, Image
<1>5. disk.first_index \in Nat \ {0} /\ LoadIndex(disk.first_index) = disk.first_index
  BY <1>4 DEF LoadIndex
<1>6. hs.commit \in disk.first_index - 1 .. last /\ disk.first_index .. last \subseteq DOMAIN disk.entries
  BY <1>5 DEF RaftAccepts, LoadCaches
<1>7. disk.first_index - 1 <= hs.commit /\ hs.commit <= last
  BY <1>2, <1>3, <1>5, <1>6
<1> HIDE DEF hs
<1>8. \A i \in 1 .. last : ReadLog(disk)[i] \in Entry /\ ReadLog(disk)[i].index = i
  <2> SUFFICES ASSUME NEW i \in 1 .. last
               PROVE  ReadLog(disk)[i] \in Entry /\ ReadLog(disk)[i].index = i
    OBVIOUS
  <2>1. ReadLog(disk)[i] = IF i < disk.first_index THEN chosen[i] ELSE disk.entries[i]
    BY DEF ReadLog
  <2>2. CASE i < disk.first_index
    <3>1. i \in DOMAIN chosen
      BY <1>1, <1>2, <1>3, <1>5, <1>7, <2>2 DEF IsLog
    <3>2. QED BY <1>1, <2>1, <2>2, <3>1 DEF IsLog, EntriesOK
  <2>3. CASE ~ (i < disk.first_index)
    <3>1. i \in DOMAIN disk.entries
      BY <1>2, <1>5, <1>6, <2>3
    <3>2. QED BY <1>1, <2>1, <2>3, <3>1 DEF Image, EntriesOK
  <2>4. QED BY <2>2, <2>3
<1>9. ReadLog(disk) = [i \in 1 .. last |-> ReadLog(disk)[i]]
  BY DEF ReadLog
<1> HIDE DEF last
<1>10. PICK l : l = ReadLog(disk)
  OBVIOUS
<1>11. DOMAIN l = 1 .. last /\ \A i \in 1 .. last : l[i] \in Entry /\ l[i].index = i
  BY <1>8, <1>9, <1>10
<1>12. l \in Seq(Entry) /\ Len(l) = last
  <2>1. l = [i \in 1 .. last |-> l[i]]
    BY <1>9, <1>10
  <2>2. last \in Nat
    BY <1>2
  <2>3. QED BY <1>11, <2>1, <2>2
<1>13. IsLog(l)
  BY <1>2, <1>11, <1>12 DEF IsLog, EntriesOK
<1>14. QED BY <1>3, <1>5, <1>7, <1>10, <1>12, <1>13 DEF last, hs

\* Opened: raft-rs takes up what is stored, or refuses it.
LEMMA TypesOpened ==
    ASSUME Types, Votes, Configured, Opened
    PROVE  Types'
<1> USE NodeAssumption, NoneIsNoValue
<1>1. mode = "opening" /\ code = <<>> /\ code' = <<>>
  BY DEF Opened
<1>2. UNCHANGED <<disk, past, chosen, acked, promised, faults>> /\ cache' = LoadCaches(disk)
  BY DEF Opened
<1>3. disk.hard_state # None
  BY <1>1 DEF Votes, VotesPending, HardBefore
<1>4. CodeOK'
  BY <1>1, EmptyCodeOK
<1>5. cache' \in [first : Nat, last : Nat]
  <2>1. disk.first_index \in Nat \cup {None} /\ disk.last_index \in 0 .. MaxIndex \cup {None}
    BY DEF Types, Image
  <2>2. LoadIndex(disk.first_index) \in Nat /\ LoadIndex(disk.last_index) \in Nat
    BY <2>1 DEF LoadIndex
  <2>3. QED BY <1>2, <2>2 DEF LoadCaches
<1>6. RaftOK' /\ NodeOK' /\ met' \subseteq {"install", "restart", "again"}
      /\ mode' \in {"running", "refused"}
  <2>1. CASE RaftAccepts(disk)
    <3>1. /\ disk.first_index \in Nat \ {0} /\ disk.hard_state \in HardState
          /\ disk.first_index - 1 <= disk.hard_state.commit
          /\ disk.hard_state.commit <= LoadIndex(disk.last_index)
          /\ disk.hard_state.commit <= Len(chosen)
          /\ IsLog(ReadLog(disk)) /\ Len(ReadLog(disk)) = LoadIndex(disk.last_index)
      BY <1>3, <2>1, AcceptedLog
    <3>2. disk.conf_state \subseteq 1 .. MaxIndex
      BY <3>1 DEF Configured, ConfStored, Types
    <3>3. raft' = [term |-> disk.hard_state.term, vote |-> disk.hard_state.vote,
                   commit |-> disk.hard_state.commit, applied |-> disk.first_index - 1,
                   conf |-> disk.conf_state, log |-> ReadLog(disk)]
      BY <2>1 DEF Opened
    <3>4. PICK l : l = ReadLog(disk)
      OBVIOUS
    <3>5. RaftOK'
      <4>1. raft'.log = l /\ raft'.commit = disk.hard_state.commit
            /\ raft'.applied = disk.first_index - 1
        BY <3>3, <3>4
      <4>2. l \in Seq(Entry) /\ IsLog(l)
        BY <3>1, <3>4 DEF IsLog
      <4>3. raft' \in [term : Nat, vote : Nat, commit : Nat, applied : Nat,
                       conf : SUBSET (1 .. MaxIndex), log : Seq(Entry)]
        BY <3>1, <3>2, <3>3, <3>4, <4>2, SMTT(30) DEF HardState
      <4>4. QED BY <1>2, <3>1, <3>4, <4>1, <4>2, <4>3 DEF RaftOK
    <3>6. NodeOK'
      <4>1. node' = NewNode
        BY <2>1 DEF Opened
      <4>2. QED BY <4>1 DEF NodeOK, NewNode
    <3>7. met' \subseteq {"install", "restart", "again"} /\ mode' = "running"
      BY <2>1 DEF Opened, Types
    <3>8. QED BY <3>5, <3>6, <3>7
  <2>2. CASE ~ RaftAccepts(disk)
    BY <1>2, <2>2 DEF Opened, Types, RaftOK, NodeOK
  <2>3. QED BY <2>1, <2>2
<1>7. QED BY <1>2, <1>4, <1>5, <1>6 DEF Types

\* Crash: one of the images is left.
LEMMA TypesCrash ==
    ASSUME Types, Crash
    PROVE  Types'
<1> USE NodeAssumption
<1>1. CodeOK'
  BY EmptyCodeOK DEF Crash
<1>2. UNCHANGED <<chosen, acked, promised, met>>
  BY DEF Crash, ghostVars
<1>3. disk' \in past /\ past' = {disk'} /\ mode' = "down" /\ faults' \in Nat
      /\ cache' = [first |-> 0, last |-> 0]
  BY DEF Crash, Types
<1>4. IsLog(<<>>)
  BY DEF IsLog, EntriesOK
<1>5. RaftOK'
  BY <1>2, <1>4 DEF Crash, RaftOK, NewRaft, IsLog, Types
<1>6. NodeOK'
  BY DEF Crash, NodeOK, NewNode
<1>7. cache' \in [first : Nat, last : Nat]
  BY <1>3
<1>8. QED BY <1>1, <1>2, <1>3, <1>5, <1>6, <1>7 DEF Types

\* MessageRefused: the event loop ends.
LEMMA TypesMessageRefused ==
    ASSUME Types, MessageRefused
    PROVE  Types'
<1>1. mode' = "ended" /\ code' = <<>>
      /\ UNCHANGED <<disk, past, cache, raft, node, chosen, acked, promised, met, faults>>
  BY DEF MessageRefused, Idle, diskVars, ghostVars
<1>2. CodeOK'
  BY <1>1, EmptyCodeOK
<1>3. RaftOK' /\ NodeOK'
  BY <1>1 DEF Types, RaftOK, NodeOK
<1>4. QED BY <1>1, <1>2, <1>3 DEF Types

\* The code of a Ready without a snapshot makes sense.
LEMMA ReadyCodeOK ==
    ASSUME NEW r, NEW applied \in Nat, NEW commit \in Nat, NEW n \in Nat,
           r.snap = None, r.hs = None \/ r.commit = None,
           r.now \in applied .. commit, r.later \in applied .. commit, r.now <= r.later,
           r.entries # <<>> => KeysOK(AppendI(r.entries).keys, n),
           r.hs # None => HardStateOK(r.hs, n),
           r.commit # None => r.commit \in 0 .. n,
           NEW s, s = OnReady(r)
    PROVE  /\ s \in Seq(Range(s)) /\ DOMAIN s = 1 .. Len(s) /\ Len(s) \in Nat
           /\ \A k \in DOMAIN s : InstructionOK(s[k], applied, commit, n)
           /\ \A j, k \in DOMAIN s :
                 j < k /\ s[j].op = "apply" /\ s[k].op = "apply" => s[j].upto <= s[k].upto
           /\ \A k \in DOMAIN s : s[k].op = "snapshot" => k = Len(s)
<1> DEFINE a == AppendI(r.entries)
           h == Sync([hard_state |-> r.hs])
           c == CommitI(r.commit)
           now == ApplyI(r.now)
           later == ApplyI(r.later)
<1>1. s = IF r.commit # None
          THEN IF r.entries = <<>> THEN <<now, SendI, c, SendI, later, SnapshotI>>
               ELSE <<now, a, SendI, c, SendI, later, SnapshotI>>
          ELSE IF r.hs # None
          THEN IF r.entries = <<>> THEN <<now, h, SendI, later, SnapshotI>>
               ELSE <<now, a, h, SendI, later, SnapshotI>>
          ELSE IF r.entries = <<>> THEN <<now, SendI, later, SnapshotI>>
               ELSE <<now, a, SendI, later, SnapshotI>>
  BY ReadyShape
<1> DEFINE OK(x) == InstructionOK(x, applied, commit, n)
<1>2. /\ OK(now) /\ OK(later) /\ now.op = "apply" /\ later.op = "apply"
      /\ now.upto <= later.upto
  BY DEF InstructionOK, ApplyI
<1>3. OK(SendI) /\ OK(SnapshotI) /\ SendI.op = "send" /\ SnapshotI.op = "snapshot"
  BY DEF InstructionOK, SendI, SnapshotI
<1>4. c.op = "commit" /\ (r.commit # None => OK(c))
  BY DEF InstructionOK, CommitI
<1>5. h.op = "put" /\ (r.hs # None => OK(h))
  BY DEF InstructionOK, KeysOK, Sync
<1>6. r.entries # <<>> => a.op = "put" /\ OK(a)
  <2>1. r.entries # <<>> => a.op = "put" /\ a.sync = "sync"
    BY AppendShape
  <2>2. QED BY <2>1 DEF InstructionOK
<1> HIDE DEF a, h, c, now, later, OK
<1> DEFINE Good(z) ==
             /\ z \in Seq(Range(z)) /\ DOMAIN z = 1 .. Len(z) /\ Len(z) \in Nat
             /\ \A k \in DOMAIN z : OK(z[k])
             /\ \A j, k \in DOMAIN z :
                   j < k /\ z[j].op = "apply" /\ z[k].op = "apply" => z[j].upto <= z[k].upto
             /\ \A k \in DOMAIN z : z[k].op = "snapshot" => k = Len(z)
<1>7. ASSUME r.commit # None, r.entries = <<>>
      PROVE  Good(<<now, SendI, c, SendI, later, SnapshotI>>)
  <2>1. PICK z : z = <<now, SendI, c, SendI, later, SnapshotI>>
    OBVIOUS
  <2>2. z \in Seq({now, SendI, c, later, SnapshotI}) /\ Len(z) = 6 /\ DOMAIN z = 1 .. 6
    BY <2>1
  <2>3. z[1] = now /\ z[2] = SendI /\ z[3] = c /\ z[4] = SendI /\ z[5] = later /\ z[6] = SnapshotI
    BY <2>1
  <2>4. z \in Seq(Range(z))
    BY <2>2, SeqOfRange
  <2>5. \A k \in 1 .. 6 : OK(z[k])
    BY <1>2, <1>3, <1>4, <1>5, <1>6, <1>7, <2>3
  <2>6. \A j, k \in 1 .. 6 :
           j < k /\ z[j].op = "apply" /\ z[k].op = "apply" => z[j].upto <= z[k].upto
    BY <1>2, <1>3, <1>4, <1>5, <1>6, <1>7, <2>3
  <2>7. \A k \in 1 .. 6 : z[k].op = "snapshot" => k = 6
    BY <1>2, <1>3, <1>4, <1>5, <1>6, <1>7, <2>3
  <2>8. Good(z)
    BY <2>2, <2>4, <2>5, <2>6, <2>7
  <2>9. QED BY <2>1, <2>8
<1>8. ASSUME r.commit # None, r.entries # <<>>
      PROVE  Good(<<now, a, SendI, c, SendI, later, SnapshotI>>)
  <2>1. PICK z : z = <<now, a, SendI, c, SendI, later, SnapshotI>>
    OBVIOUS
  <2>2. z \in Seq({now, a, SendI, c, later, SnapshotI}) /\ Len(z) = 7 /\ DOMAIN z = 1 .. 7
    BY <2>1
  <2>3. z[1] = now /\ z[2] = a /\ z[3] = SendI /\ z[4] = c /\ z[5] = SendI /\ z[6] = later /\ z[7] = SnapshotI
    BY <2>1
  <2>4. z \in Seq(Range(z))
    BY <2>2, SeqOfRange
  <2>5. \A k \in 1 .. 7 : OK(z[k])
    BY <1>2, <1>3, <1>4, <1>5, <1>6, <1>8, <2>3
  <2>6. \A j, k \in 1 .. 7 :
           j < k /\ z[j].op = "apply" /\ z[k].op = "apply" => z[j].upto <= z[k].upto
    BY <1>2, <1>3, <1>4, <1>5, <1>6, <1>8, <2>3
  <2>7. \A k \in 1 .. 7 : z[k].op = "snapshot" => k = 7
    BY <1>2, <1>3, <1>4, <1>5, <1>6, <1>8, <2>3
  <2>8. Good(z)
    BY <2>2, <2>4, <2>5, <2>6, <2>7
  <2>9. QED BY <2>1, <2>8
<1>9. ASSUME r.hs # None, r.entries = <<>>
      PROVE  Good(<<now, h, SendI, later, SnapshotI>>)
  <2>1. PICK z : z = <<now, h, SendI, later, SnapshotI>>
    OBVIOUS
  <2>2. z \in Seq({now, h, SendI, later, SnapshotI}) /\ Len(z) = 5 /\ DOMAIN z = 1 .. 5
    BY <2>1
  <2>3. z[1] = now /\ z[2] = h /\ z[3] = SendI /\ z[4] = later /\ z[5] = SnapshotI
    BY <2>1
  <2>4. z \in Seq(Range(z))
    BY <2>2, SeqOfRange
  <2>5. \A k \in 1 .. 5 : OK(z[k])
    BY <1>2, <1>3, <1>4, <1>5, <1>6, <1>9, <2>3
  <2>6. \A j, k \in 1 .. 5 :
           j < k /\ z[j].op = "apply" /\ z[k].op = "apply" => z[j].upto <= z[k].upto
    BY <1>2, <1>3, <1>4, <1>5, <1>6, <1>9, <2>3
  <2>7. \A k \in 1 .. 5 : z[k].op = "snapshot" => k = 5
    BY <1>2, <1>3, <1>4, <1>5, <1>6, <1>9, <2>3
  <2>8. Good(z)
    BY <2>2, <2>4, <2>5, <2>6, <2>7
  <2>9. QED BY <2>1, <2>8
<1>10. ASSUME r.hs # None, r.entries # <<>>
      PROVE  Good(<<now, a, h, SendI, later, SnapshotI>>)
  <2>1. PICK z : z = <<now, a, h, SendI, later, SnapshotI>>
    OBVIOUS
  <2>2. z \in Seq({now, a, h, SendI, later, SnapshotI}) /\ Len(z) = 6 /\ DOMAIN z = 1 .. 6
    BY <2>1
  <2>3. z[1] = now /\ z[2] = a /\ z[3] = h /\ z[4] = SendI /\ z[5] = later /\ z[6] = SnapshotI
    BY <2>1
  <2>4. z \in Seq(Range(z))
    BY <2>2, SeqOfRange
  <2>5. \A k \in 1 .. 6 : OK(z[k])
    BY <1>2, <1>3, <1>4, <1>5, <1>6, <1>10, <2>3
  <2>6. \A j, k \in 1 .. 6 :
           j < k /\ z[j].op = "apply" /\ z[k].op = "apply" => z[j].upto <= z[k].upto
    BY <1>2, <1>3, <1>4, <1>5, <1>6, <1>10, <2>3
  <2>7. \A k \in 1 .. 6 : z[k].op = "snapshot" => k = 6
    BY <1>2, <1>3, <1>4, <1>5, <1>6, <1>10, <2>3
  <2>8. Good(z)
    BY <2>2, <2>4, <2>5, <2>6, <2>7
  <2>9. QED BY <2>1, <2>8
<1>11. ASSUME r.entries = <<>>
      PROVE  Good(<<now, SendI, later, SnapshotI>>)
  <2>1. PICK z : z = <<now, SendI, later, SnapshotI>>
    OBVIOUS
  <2>2. z \in Seq({now, SendI, later, SnapshotI}) /\ Len(z) = 4 /\ DOMAIN z = 1 .. 4
    BY <2>1
  <2>3. z[1] = now /\ z[2] = SendI /\ z[3] = later /\ z[4] = SnapshotI
    BY <2>1
  <2>4. z \in Seq(Range(z))
    BY <2>2, SeqOfRange
  <2>5. \A k \in 1 .. 4 : OK(z[k])
    BY <1>2, <1>3, <1>4, <1>5, <1>6, <1>11, <2>3
  <2>6. \A j, k \in 1 .. 4 :
           j < k /\ z[j].op = "apply" /\ z[k].op = "apply" => z[j].upto <= z[k].upto
    BY <1>2, <1>3, <1>4, <1>5, <1>6, <1>11, <2>3
  <2>7. \A k \in 1 .. 4 : z[k].op = "snapshot" => k = 4
    BY <1>2, <1>3, <1>4, <1>5, <1>6, <1>11, <2>3
  <2>8. Good(z)
    BY <2>2, <2>4, <2>5, <2>6, <2>7
  <2>9. QED BY <2>1, <2>8
<1>12. ASSUME r.entries # <<>>
      PROVE  Good(<<now, a, SendI, later, SnapshotI>>)
  <2>1. PICK z : z = <<now, a, SendI, later, SnapshotI>>
    OBVIOUS
  <2>2. z \in Seq({now, a, SendI, later, SnapshotI}) /\ Len(z) = 5 /\ DOMAIN z = 1 .. 5
    BY <2>1
  <2>3. z[1] = now /\ z[2] = a /\ z[3] = SendI /\ z[4] = later /\ z[5] = SnapshotI
    BY <2>1
  <2>4. z \in Seq(Range(z))
    BY <2>2, SeqOfRange
  <2>5. \A k \in 1 .. 5 : OK(z[k])
    BY <1>2, <1>3, <1>4, <1>5, <1>6, <1>12, <2>3
  <2>6. \A j, k \in 1 .. 5 :
           j < k /\ z[j].op = "apply" /\ z[k].op = "apply" => z[j].upto <= z[k].upto
    BY <1>2, <1>3, <1>4, <1>5, <1>6, <1>12, <2>3
  <2>7. \A k \in 1 .. 5 : z[k].op = "snapshot" => k = 5
    BY <1>2, <1>3, <1>4, <1>5, <1>6, <1>12, <2>3
  <2>8. Good(z)
    BY <2>2, <2>4, <2>5, <2>6, <2>7
  <2>9. QED BY <2>1, <2>8
<1> HIDE DEF Good
<1>13. Good(s)
  BY <1>1, <1>7, <1>8, <1>9, <1>10, <1>11, <1>12
<1>14. QED BY <1>13 DEF Good, OK

\* A prefix of a log.
LEMMA PrefixLog ==
    ASSUME NEW l, IsLog(l), NEW m \in Nat, m <= Len(l)
    PROVE  /\ IsLog(SubSeq(l, 1, m)) /\ Len(SubSeq(l, 1, m)) = m
           /\ \A j \in 1 .. m : SubSeq(l, 1, m)[j] = l[j]
<1>1. \A j \in 1 .. m : l[j] \in Entry /\ l[j].index = j
  BY DEF IsLog, EntriesOK
<1>2. PICK p : p = SubSeq(l, 1, m)
  OBVIOUS
<1>3. p \in Seq(Entry) /\ Len(p) = m /\ \A j \in 1 .. m : p[j] = l[j]
  <2>1. /\ SubSeq(l, 1, m) \in Seq(Entry)
        /\ Len(SubSeq(l, 1, m)) = IF 1 <= m THEN m - 1 + 1 ELSE 0
        /\ \A j \in 1 .. m - 1 + 1 : SubSeq(l, 1, m)[j] = l[1 + j - 1]
    BY <1>1, SubSeqProperties
  <2>2. QED BY <1>2, <2>1
<1>4. IsLog(p)
  BY <1>1, <1>3, NodeAssumption DEF IsLog, EntriesOK
<1>5. QED BY <1>2, <1>3, <1>4

\* The log after a Ready.
LogAfter(l, i, es) == SubSeq(l, 1, i - 1) \o es

\* It is cut before i and has the new entry, if there is one.
LEMMA LogAfterProperties ==
    ASSUME NEW l, IsLog(l), NEW i \in 1 .. Len(l) + 1, NEW es,
           es # <<>> => i <= MaxIndex /\ (\E e \in Entry : e.index = i /\ es = <<e>>)
    PROVE  /\ IsLog(LogAfter(l, i, es))
           /\ Len(LogAfter(l, i, es)) = IF es = <<>> THEN i - 1 ELSE i
           /\ \A j \in 1 .. i - 1 : LogAfter(l, i, es)[j] = l[j]
           /\ es # <<>> => LogAfter(l, i, es)[i] = es[1]
<1> USE NodeAssumption
<1>1. PICK p : p = SubSeq(l, 1, i - 1)
  OBVIOUS
<1>2. i - 1 \in Nat /\ i - 1 <= Len(l) /\ Len(l) \in Nat
  BY DEF IsLog
<1>3. IsLog(p) /\ Len(p) = i - 1 /\ \A j \in 1 .. i - 1 : p[j] = l[j]
  BY <1>1, <1>2, PrefixLog
<1>4. LogAfter(l, i, es) = p \o es
  BY <1>1 DEF LogAfter
<1>5. CASE es = <<>>
  <2>1. p \o <<>> = p
    BY <1>3 DEF IsLog
  <2>2. LogAfter(l, i, es) = p
    BY <1>4, <1>5, <2>1
  <2>3. QED BY <1>3, <1>5, <2>2
<1>6. CASE es # <<>>
  <2>1. PICK e \in Entry : e.index = i /\ es = <<e>>
    BY <1>6
  <2>2. es \in Seq(Entry) /\ Len(es) = 1 /\ es[1] = e
    BY <2>1
  <2>3. PICK q : q = p \o es
    OBVIOUS
  <2>4. /\ q \in Seq(Entry) /\ Len(q) = i /\ q[i] = e
        /\ \A j \in 1 .. i - 1 : q[j] = p[j]
    <3>1. p \in Seq(Entry) /\ Len(p) = i - 1 /\ i \in Nat
      BY <1>2, <1>3 DEF IsLog
    <3>2. /\ p \o es \in Seq(Entry) /\ Len(p \o es) = Len(p) + Len(es)
          /\ \A j \in 1 .. Len(p) + Len(es) :
                (p \o es)[j] = IF j <= Len(p) THEN p[j] ELSE es[j - Len(p)]
      BY <2>2, <3>1, ConcatProperties
    <3>3. Len(p) + Len(es) = i /\ i - Len(p) = 1 /\ ~ (i <= Len(p)) /\ i \in 1 .. i
      BY <1>2, <2>2, <3>1
    <3>4. q \in Seq(Entry) /\ Len(q) = i
      BY <2>3, <3>2, <3>3
    <3>5. \A j \in 1 .. i : q[j] = IF j <= Len(p) THEN p[j] ELSE es[j - Len(p)]
      BY <2>3, <3>2, <3>3
    <3>6. q[i] = e
      BY <2>2, <3>3, <3>5
    <3>7. \A j \in 1 .. i - 1 : j \in 1 .. i /\ j <= Len(p)
      BY <1>2, <3>1
    <3>8. QED BY <3>4, <3>5, <3>6, <3>7
  <2>5. \A j \in 1 .. i : q[j] \in Entry /\ q[j].index = j
    BY <1>2, <1>3, <2>1, <2>4, SMTT(30) DEF IsLog, EntriesOK
  <2>6. IsLog(q)
    BY <1>6, <2>4, <2>5 DEF IsLog, EntriesOK
  <2>7. QED BY <1>3, <1>4, <1>6, <2>2, <2>3, <2>4, <2>6
<1>7. QED BY <1>5, <1>6

\* What the append of one new entry writes.
LEMMA AppendedEntry ==
    ASSUME NEW e \in Entry, NEW es, es = <<e>>, EntriesOK(disk.entries)
    PROVE  LET keys == AppendI(es).keys
           IN  /\ EntriesOK(keys.entries)
               /\ DOMAIN keys.entries = DOMAIN disk.entries \cup {e.index}
               /\ keys.entries[e.index] = e
               /\ \A j \in DOMAIN disk.entries : j # e.index => keys.entries[j] = disk.entries[j]
               /\ keys.last_index = e.index
               /\ cache.last = 0 => keys.first_index = e.index
               /\ "entries" \in DOMAIN keys /\ "last_index" \in DOMAIN keys
               /\ DOMAIN keys \subseteq {"entries", "last_index", "first_index"}
               /\ "first_index" \in DOMAIN keys <=> cache.last = 0
<1>1. es # <<>> /\ Len(es) = 1 /\ es[1] = e /\ DOMAIN es = {1} /\ e.index \in Nat
  BY DEF Entry
<1>2. PICK keys : keys = AppendI(es).keys
  OBVIOUS
<1>3. /\ keys.entries = WithEntries(disk, es) /\ keys.last_index = es[Len(es)].index
      /\ cache.last = 0 => keys.first_index = es[1].index
      /\ DOMAIN keys = {"entries", "last_index"}
               \cup (IF cache.last = 0 THEN {"first_index"} ELSE {})
  BY <1>1, <1>2, AppendShape
<1>4. PICK w : w = WithEntries(disk, es)
  OBVIOUS
<1>5. DOMAIN w = DOMAIN disk.entries \cup {e.index}
  BY <1>1, <1>4 DEF WithEntries
<1>6. w[e.index] = e
  <2>1. e.index - es[1].index + 1 = 1
    BY <1>1
  <2>2. \E j \in DOMAIN es : es[j].index = e.index
    BY <1>1
  <2>3. e.index \in DOMAIN w
    BY <1>5
  <2>4. QED BY <1>1, <1>4, <2>1, <2>2, <2>3 DEF WithEntries
<1>7. \A j \in DOMAIN disk.entries : j # e.index => w[j] = disk.entries[j]
  BY <1>1, <1>4 DEF WithEntries
<1>8. EntriesOK(w)
  BY <1>5, <1>6, <1>7 DEF EntriesOK
<1>9. QED BY <1>1, <1>2, <1>3, <1>4, <1>5, <1>6, <1>7, <1>8

\* In which order the code of a Ready without a snapshot does things.
LEMMA ReadyOrder ==
    ASSUME NEW r, r.snap = None, r.hs = None \/ r.commit = None, NEW s, s = OnReady(r)
    PROVE  /\ \A k \in DOMAIN s :
                 \/ r.entries # <<>> /\ s[k] = AppendI(r.entries)
                 \/ r.hs # None /\ s[k] = Sync([hard_state |-> r.hs])
                 \/ r.commit # None /\ s[k] = CommitI(r.commit)
                 \/ s[k].op \in {"apply", "send", "snapshot"}
           /\ r.entries # <<>> => \E p \in DOMAIN s :
                 s[p] = AppendI(r.entries) /\ \A k \in DOMAIN s : k < p => s[k].op = "apply"
           /\ r.hs # None => \E p \in DOMAIN s :
                 /\ s[p] = Sync([hard_state |-> r.hs])
                 /\ \A k \in DOMAIN s : s[k].op \in {"send", "snapshot"} => p < k
           /\ r.commit # None => \E p \in DOMAIN s :
                 /\ s[p] = CommitI(r.commit)
                 /\ \A k \in DOMAIN s : s[k].op = "snapshot" => p < k
<1> DEFINE a == AppendI(r.entries)
           h == Sync([hard_state |-> r.hs])
           c == CommitI(r.commit)
           now == ApplyI(r.now)
           later == ApplyI(r.later)
<1>1. s = IF r.commit # None
          THEN IF r.entries = <<>> THEN <<now, SendI, c, SendI, later, SnapshotI>>
               ELSE <<now, a, SendI, c, SendI, later, SnapshotI>>
          ELSE IF r.hs # None
          THEN IF r.entries = <<>> THEN <<now, h, SendI, later, SnapshotI>>
               ELSE <<now, a, h, SendI, later, SnapshotI>>
          ELSE IF r.entries = <<>> THEN <<now, SendI, later, SnapshotI>>
               ELSE <<now, a, SendI, later, SnapshotI>>
  BY ReadyShape
<1>2. /\ now.op = "apply" /\ later.op = "apply" /\ c.op = "commit" /\ h.op = "put"
      /\ SendI.op = "send" /\ SnapshotI.op = "snapshot"
      /\ r.entries # <<>> => a.op = "put"
  BY AppendShape DEF ApplyI, CommitI, Sync, SendI, SnapshotI
<1> DEFINE Good(z) ==
             /\ \A k \in DOMAIN z :
                   \/ r.entries # <<>> /\ z[k] = a
                   \/ r.hs # None /\ z[k] = h
                   \/ r.commit # None /\ z[k] = c
                   \/ z[k].op \in {"apply", "send", "snapshot"}
             /\ r.entries # <<>> => \E p \in DOMAIN z :
                   z[p] = a /\ \A k \in DOMAIN z : k < p => z[k].op = "apply"
             /\ r.hs # None => \E p \in DOMAIN z :
                   z[p] = h /\ \A k \in DOMAIN z : z[k].op \in {"send", "snapshot"} => p < k
             /\ r.commit # None => \E p \in DOMAIN z :
                   z[p] = c /\ \A k \in DOMAIN z : z[k].op = "snapshot" => p < k
<1>3. SUFFICES Good(s)
  OBVIOUS
<1> HIDE DEF a, h, c, now, later
<1>4. ASSUME r.commit # None, r.entries = <<>>
      PROVE  Good(<<now, SendI, c, SendI, later, SnapshotI>>)
  <2>1. PICK z : z = <<now, SendI, c, SendI, later, SnapshotI>>
    OBVIOUS
  <2>2. DOMAIN z = 1 .. 6 /\ z[1] = now /\ z[2] = SendI /\ z[3] = c /\ z[4] = SendI /\ z[5] = later /\ z[6] = SnapshotI
    BY <2>1
  <2>3. \A k \in 1 .. 6 :
           \/ r.entries # <<>> /\ z[k] = a
           \/ r.hs # None /\ z[k] = h
           \/ r.commit # None /\ z[k] = c
           \/ z[k].op \in {"apply", "send", "snapshot"}
    BY <1>2, <1>4, <2>2
  <2>4. z[3] = c /\ \A k \in 1 .. 6 : z[k].op = "snapshot" => 3 < k
    BY <1>2, <1>4, <2>2
  <2>5. Good(z)
    BY <1>4, <2>2, <2>3, <2>4
  <2>6. QED BY <2>1, <2>5, Zenon
<1>5. ASSUME r.commit # None, r.entries # <<>>
      PROVE  Good(<<now, a, SendI, c, SendI, later, SnapshotI>>)
  <2>1. PICK z : z = <<now, a, SendI, c, SendI, later, SnapshotI>>
    OBVIOUS
  <2>2. DOMAIN z = 1 .. 7 /\ z[1] = now /\ z[2] = a /\ z[3] = SendI /\ z[4] = c /\ z[5] = SendI /\ z[6] = later /\ z[7] = SnapshotI
    BY <2>1
  <2>3. \A k \in 1 .. 7 :
           \/ r.entries # <<>> /\ z[k] = a
           \/ r.hs # None /\ z[k] = h
           \/ r.commit # None /\ z[k] = c
           \/ z[k].op \in {"apply", "send", "snapshot"}
    BY <1>2, <1>5, <2>2
  <2>4. z[2] = a /\ \A k \in 1 .. 7 : k < 2 => z[k].op = "apply"
    BY <1>2, <1>5, <2>2
  <2>5. z[4] = c /\ \A k \in 1 .. 7 : z[k].op = "snapshot" => 4 < k
    BY <1>2, <1>5, <2>2
  <2>6. Good(z)
    BY <1>5, <2>2, <2>3, <2>4, <2>5
  <2>7. QED BY <2>1, <2>6, ZenonT(30)
<1>6. ASSUME r.hs # None, r.entries = <<>>
      PROVE  Good(<<now, h, SendI, later, SnapshotI>>)
  <2>1. PICK z : z = <<now, h, SendI, later, SnapshotI>>
    OBVIOUS
  <2>2. DOMAIN z = 1 .. 5 /\ z[1] = now /\ z[2] = h /\ z[3] = SendI /\ z[4] = later /\ z[5] = SnapshotI
    BY <2>1
  <2>3. \A k \in 1 .. 5 :
           \/ r.entries # <<>> /\ z[k] = a
           \/ r.hs # None /\ z[k] = h
           \/ r.commit # None /\ z[k] = c
           \/ z[k].op \in {"apply", "send", "snapshot"}
    BY <1>2, <1>6, <2>2
  <2>4. z[2] = h /\ \A k \in 1 .. 5 : z[k].op \in {"send", "snapshot"} => 2 < k
    BY <1>2, <1>6, <2>2
  <2>5. Good(z)
    BY <1>6, <2>2, <2>3, <2>4
  <2>6. QED BY <2>1, <2>5, Zenon
<1>7. ASSUME r.hs # None, r.entries # <<>>
      PROVE  Good(<<now, a, h, SendI, later, SnapshotI>>)
  <2>1. PICK z : z = <<now, a, h, SendI, later, SnapshotI>>
    OBVIOUS
  <2>2. DOMAIN z = 1 .. 6 /\ z[1] = now /\ z[2] = a /\ z[3] = h /\ z[4] = SendI /\ z[5] = later /\ z[6] = SnapshotI
    BY <2>1
  <2>3. \A k \in 1 .. 6 :
           \/ r.entries # <<>> /\ z[k] = a
           \/ r.hs # None /\ z[k] = h
           \/ r.commit # None /\ z[k] = c
           \/ z[k].op \in {"apply", "send", "snapshot"}
    BY <1>2, <1>7, <2>2
  <2>4. z[2] = a /\ \A k \in 1 .. 6 : k < 2 => z[k].op = "apply"
    BY <1>2, <1>7, <2>2
  <2>5. z[3] = h /\ \A k \in 1 .. 6 : z[k].op \in {"send", "snapshot"} => 3 < k
    BY <1>2, <1>7, <2>2
  <2>6. Good(z)
    BY <1>7, <2>2, <2>3, <2>4, <2>5
  <2>7. QED BY <2>1, <2>6, Zenon
<1>8. ASSUME r.hs = None, r.commit = None, r.entries = <<>>
      PROVE  Good(<<now, SendI, later, SnapshotI>>)
  <2>1. PICK z : z = <<now, SendI, later, SnapshotI>>
    OBVIOUS
  <2>2. DOMAIN z = 1 .. 4 /\ z[1] = now /\ z[2] = SendI /\ z[3] = later /\ z[4] = SnapshotI
    BY <2>1
  <2>3. \A k \in 1 .. 4 :
           \/ r.entries # <<>> /\ z[k] = a
           \/ r.hs # None /\ z[k] = h
           \/ r.commit # None /\ z[k] = c
           \/ z[k].op \in {"apply", "send", "snapshot"}
    BY <1>2, <1>8, <2>2
  <2>4. Good(z)
    BY <1>8, <2>2, <2>3
  <2>5. QED BY <2>1, <2>4, Zenon
<1>9. ASSUME r.hs = None, r.commit = None, r.entries # <<>>
      PROVE  Good(<<now, a, SendI, later, SnapshotI>>)
  <2>1. PICK z : z = <<now, a, SendI, later, SnapshotI>>
    OBVIOUS
  <2>2. DOMAIN z = 1 .. 5 /\ z[1] = now /\ z[2] = a /\ z[3] = SendI /\ z[4] = later /\ z[5] = SnapshotI
    BY <2>1
  <2>3. \A k \in 1 .. 5 :
           \/ r.entries # <<>> /\ z[k] = a
           \/ r.hs # None /\ z[k] = h
           \/ r.commit # None /\ z[k] = c
           \/ z[k].op \in {"apply", "send", "snapshot"}
    BY <1>2, <1>9, <2>2
  <2>4. z[2] = a /\ \A k \in 1 .. 5 : k < 2 => z[k].op = "apply"
    BY <1>2, <1>9, <2>2
  <2>5. Good(z)
    BY <1>9, <2>2, <2>3, <2>4
  <2>6. QED BY <2>1, <2>5, Zenon
<1> HIDE DEF Good
<1>10. QED BY <1>1, <1>4, <1>5, <1>6, <1>7, <1>8, <1>9

\* The parts of a ready code make it well formed.
LEMMA ReadyCode ==
    ASSUME mode' = "running",
           code' \in Seq(Range(code')),
           \A k \in DOMAIN code' :
              InstructionOK(code'[k], raft'.applied, raft'.commit, Len(chosen')),
           \A j, k \in DOMAIN code' : j < k /\ code'[j].op = "apply" /\ code'[k].op = "apply"
                                        => code'[j].upto <= code'[k].upto,
           \A k \in DOMAIN code' : code'[k].op = "snapshot" => k = Len(code')
    PROVE  CodeOK'
BY DEF CodeOK

\* ReadyVote: a term begins or a vote is given.
LEMMA TypesReadyVote ==
    ASSUME Types, NEW t \in raft.term .. MaxTerm, NEW v \in Peer \cup {0}, ReadyVote(t, v)
    PROVE  Types'
<1> USE NodeAssumption, NoneIsNoValue
<1>1. mode = "running" /\ code = <<>> /\ mode' = mode
  BY DEF ReadyVote, Idle
<1>2. UNCHANGED <<disk, past, cache, node, chosen, acked, promised, met, faults>>
  BY DEF ReadyVote, diskVars, ghostVars
<1>3. PICK hs : hs = [term |-> t, vote |-> v, commit |-> raft.commit]
  OBVIOUS
<1>4. PICK r : r = [snap |-> None, now |-> raft.applied, entries |-> <<>>, hs |-> hs,
                    commit |-> None, later |-> raft.applied]
  OBVIOUS
<1>5. code' = OnReady(r)
  BY <1>3, <1>4 DEF ReadyVote
<1>6. RaftOK
  BY DEF Types
<1>7. t \in Nat /\ v \in Nat /\ raft.applied \in Nat /\ raft.commit \in Nat
  BY <1>6 DEF RaftOK
<1>8. raft' = [raft EXCEPT !.term = t, !.vote = v]
  BY DEF ReadyVote
<1>9. /\ raft'.applied = raft.applied /\ raft'.commit = raft.commit /\ raft'.log = raft.log
      /\ raft' \in [term : Nat, vote : Nat, commit : Nat, applied : Nat,
                    conf : SUBSET (1 .. MaxIndex), log : Seq(Entry)]
  BY <1>6, <1>7, <1>8 DEF RaftOK
<1>10. RaftOK'
  BY <1>2, <1>6, <1>9 DEF RaftOK
<1>11. HardStateOK(hs, Len(chosen)) /\ Len(chosen) \in Nat
  BY <1>3, <1>6, <1>7 DEF HardStateOK, HardState, RaftOK, Types, IsLog
<1>12. CodeOK'
  <2>1. /\ r.snap = None /\ r.commit = None /\ r.now = raft.applied /\ r.later = raft.applied
        /\ r.entries = <<>> /\ r.hs = hs
    BY <1>4
  <2>2. raft.applied \in raft.applied .. raft.commit
    BY <1>6, <1>7 DEF RaftOK
  <2>3. PICK s : s = code'
    OBVIOUS
  <2>4. /\ s \in Seq(Range(s))
        /\ \A k \in DOMAIN s : InstructionOK(s[k], raft.applied, raft.commit, Len(chosen))
        /\ \A j, k \in DOMAIN s :
              j < k /\ s[j].op = "apply" /\ s[k].op = "apply" => s[j].upto <= s[k].upto
        /\ \A k \in DOMAIN s : s[k].op = "snapshot" => k = Len(s)
    <3>1. PICK a, b, n : a = raft.applied /\ b = raft.commit /\ n = Len(chosen)
      OBVIOUS
    <3>2. a \in Nat /\ b \in Nat /\ n \in Nat /\ r.now \in a .. b /\ r.later \in a .. b
          /\ r.now <= r.later
      BY <1>7, <1>11, <2>1, <2>2, <3>1
    <3>3. r.entries # <<>> => KeysOK(AppendI(r.entries).keys, n)
      BY <2>1
    <3>4. (r.hs # None => HardStateOK(r.hs, n)) /\ (r.commit # None => r.commit \in 0 .. n)
      BY <1>11, <2>1, <3>1
    <3>5. r.snap = None /\ (r.hs = None \/ r.commit = None) /\ s = OnReady(r)
      BY <1>5, <2>1, <2>3
    <3>6. /\ s \in Seq(Range(s))
          /\ \A k \in DOMAIN s : InstructionOK(s[k], a, b, n)
          /\ \A j, k \in DOMAIN s :
                j < k /\ s[j].op = "apply" /\ s[k].op = "apply" => s[j].upto <= s[k].upto
          /\ \A k \in DOMAIN s : s[k].op = "snapshot" => k = Len(s)
      BY <3>2, <3>3, <3>4, <3>5, ReadyCodeOK
    <3>7. QED BY <3>1, <3>6
  <2>5. QED BY <1>1, <1>2, <1>9, <2>3, <2>4, ReadyCode
<1>13. NodeOK'
  BY <1>2 DEF Types, NodeOK
<1>14. QED BY <1>1, <1>2, <1>10, <1>12, <1>13 DEF Types

\* What the environment chooses for a Ready of the log.
ReadyLogInput(i, es, c, way) ==
    /\ i \in raft.commit + 1 .. Len(raft.log) + 1
    /\ es \in NewEntries(i)
    /\ c \in raft.commit .. MaxIndex
    /\ way \in {"hard", "light"}
    /\ es # <<>> => i <= MaxIndex
    /\ ReadyLog(i, es, c, way)

\* A new entry is an entry, at its index.
LEMMA NewEntryType ==
    ASSUME RaftOK, NEW i \in Nat, NEW es \in NewEntries(i), es # <<>>
    PROVE  \E e \in Entry : e.index = i /\ es = <<e>>
<1>1. PICK t \in 1 .. raft.term, k \in {"Normal", "Conf", "Empty"} :
         es = <<[index |-> i, term |-> t, kind |-> k]>>
  BY DEF NewEntries
<1>2. [index |-> i, term |-> t, kind |-> k] \in Entry
  BY <1>1 DEF Entry, RaftOK
<1>3. QED BY <1>1, <1>2

\* The facts about a Ready of the log that the proofs use.
LEMMA ReadyLogFacts ==
    ASSUME Types, NEW i, NEW es, NEW c, NEW way, ReadyLogInput(i, es, c, way)
    PROVE  LET log == LogAfter(raft.log, i, es) IN
           /\ mode = "running" /\ code = <<>> /\ mode' = mode
           /\ UNCHANGED <<disk, past, cache, node, promised, met, faults>>
           /\ raft' = [raft EXCEPT !.log = log, !.commit = c]
           /\ raft'.term = raft.term /\ raft'.vote = raft.vote /\ raft'.commit = c
           /\ raft'.applied = raft.applied /\ raft'.conf = raft.conf /\ raft'.log = log
           /\ i \in Nat /\ i > raft.commit /\ i <= Len(raft.log) + 1
           /\ c \in Nat /\ c >= raft.commit /\ c <= Len(log)
           /\ IsLog(log) /\ Len(log) \in Nat
           /\ Len(log) = IF es = <<>> THEN i - 1 ELSE i
           /\ es = <<>> => i = Len(raft.log) + 1
           /\ es # <<>> => i <= MaxIndex /\ \E e \in Entry : e.index = i /\ es = <<e>>
           /\ \A j \in 1 .. i - 1 : log[j] = raft.log[j]
           /\ es # <<>> => log[i] = es[1]
<1> DEFINE log == LogAfter(raft.log, i, es)
<1>1. RaftOK /\ raft.commit \in Nat /\ Len(raft.log) \in Nat /\ IsLog(raft.log)
  BY DEF Types, RaftOK, IsLog
<1>2. i \in Nat /\ i > raft.commit /\ i <= Len(raft.log) + 1 /\ c \in Nat /\ c >= raft.commit
  BY <1>1, NodeAssumption DEF ReadyLogInput
<1>3. es # <<>> => i <= MaxIndex /\ \E e \in Entry : e.index = i /\ es = <<e>>
  BY <1>1, <1>2, NewEntryType DEF ReadyLogInput
<1>4. i \in 1 .. Len(raft.log) + 1
  BY <1>1, <1>2
<1>5. /\ IsLog(log) /\ Len(log) = IF es = <<>> THEN i - 1 ELSE i
      /\ \A j \in 1 .. i - 1 : log[j] = raft.log[j]
      /\ es # <<>> => log[i] = es[1]
  <2>1. PICK l : l = raft.log
    OBVIOUS
  <2>2. IsLog(l) /\ i \in 1 .. Len(l) + 1
    BY <1>1, <1>4, <2>1
  <2>3. es # <<>> => i <= MaxIndex /\ (\E e \in Entry : e.index = i /\ es = <<e>>)
    BY <1>3
  <2>4. /\ IsLog(LogAfter(l, i, es))
        /\ Len(LogAfter(l, i, es)) = IF es = <<>> THEN i - 1 ELSE i
        /\ \A j \in 1 .. i - 1 : LogAfter(l, i, es)[j] = l[j]
        /\ es # <<>> => LogAfter(l, i, es)[i] = es[1]
    BY <2>2, <2>3, LogAfterProperties
  <2>5. QED BY <2>1, <2>4
<1>6. /\ mode = "running" /\ code = <<>> /\ mode' = mode
      /\ UNCHANGED <<disk, past, cache, node, promised, met, faults>>
      /\ raft' = [raft EXCEPT !.log = log, !.commit = c]
      /\ es = <<>> => i = Len(raft.log) + 1
      /\ c \in raft.commit .. Len(log)
  BY DEF ReadyLogInput, ReadyLog, Idle, LogAfter, diskVars
<1> HIDE DEF log
<1>7. /\ raft'.term = raft.term /\ raft'.vote = raft.vote /\ raft'.commit = c
      /\ raft'.applied = raft.applied /\ raft'.conf = raft.conf /\ raft'.log = log
  BY <1>1, <1>6 DEF RaftOK
<1>8. Len(log) \in Nat /\ c <= Len(log)
  BY <1>2, <1>5, <1>6
<1>9. QED BY <1>2, <1>3, <1>5, <1>6, <1>7, <1>8 DEF log

\* The Ready of ReadyLog.
LogReady(i, es, c, way, term, vote, commit) ==
    [snap    |-> None,
     now     |-> IF way = "hard" THEN Min({c, i - 1}) ELSE commit,
     entries |-> es,
     hs      |-> IF way = "hard" /\ c > commit
                 THEN [term |-> term, vote |-> vote, commit |-> c] ELSE None,
     commit  |-> IF way = "light" /\ c > commit THEN c ELSE None,
     later   |-> c]

\* What is chosen grows, and covers the commit index.
LEMMA ReadyLogGhosts ==
    ASSUME Types, NEW i, NEW es, NEW c, NEW way, ReadyLogInput(i, es, c, way)
    PROVE  /\ IsLog(chosen') /\ Len(chosen') \in Nat /\ Len(chosen) \in Nat
           /\ Len(chosen) <= Len(chosen') /\ c <= Len(chosen')
           /\ \A j \in 1 .. Len(chosen) : chosen'[j] = chosen[j]
           /\ \A j \in 1 .. c : chosen'[j] = raft'.log[j]
           /\ IsLog(acked') /\ Len(acked') <= Len(acked) /\ Len(acked') \in Nat
           /\ Len(acked) \in Nat
           /\ \A j \in DOMAIN acked' : acked'[j] = acked[j] /\ j \in DOMAIN acked
           /\ es # <<>> => Len(acked') < i
           /\ es = <<>> => acked' = acked
<1>1. PICK log : log = LogAfter(raft.log, i, es)
  OBVIOUS
<1>2. /\ i \in Nat /\ i > raft.commit /\ c \in Nat /\ c <= Len(log) /\ IsLog(log) /\ Len(log) \in Nat
      /\ raft'.log = log
      /\ \A j \in 1 .. c : j <= Len(chosen) => log[j] = chosen[j]
  <2>0. i \in Nat /\ i > raft.commit /\ c \in Nat
    BY ReadyLogFacts
  <2>1. c <= Len(log) /\ IsLog(log) /\ Len(log) \in Nat
    BY <1>1, ReadyLogFacts
  <2>1a. raft' = [raft EXCEPT !.log = log, !.commit = c]
    BY <1>1 DEF ReadyLogInput, ReadyLog, LogAfter
  <2>1b. raft'.log = log
    BY <2>1a DEF Types, RaftOK
  <2>2. \A j \in 1 .. c : j <= Len(chosen) => log[j] = chosen[j]
    BY <1>1 DEF ReadyLogInput, ReadyLog, LogAfter
  <2>3. QED BY <2>0, <2>1, <2>1b, <2>2
<1>2a. /\ chosen' = IF c > Len(chosen) THEN SubSeq(log, 1, c) ELSE chosen
       /\ acked' = IF es = <<>> THEN acked ELSE SubSeq(acked, 1, Min({Len(acked), i - 1}))
  BY <1>1 DEF ReadyLogInput, ReadyLog, LogAfter
<1>3. IsLog(chosen) /\ IsLog(acked) /\ Len(chosen) \in Nat /\ Len(acked) \in Nat
  BY DEF Types, IsLog
<1>4. /\ IsLog(chosen') /\ Len(chosen') \in Nat
      /\ Len(chosen) <= Len(chosen') /\ c <= Len(chosen')
      /\ \A j \in 1 .. Len(chosen) : chosen'[j] = chosen[j]
      /\ \A j \in 1 .. c : chosen'[j] = raft'.log[j]
  <2>1. CASE c > Len(chosen)
    <3>1. PICK p : p = SubSeq(log, 1, c)
      OBVIOUS
    <3>2. IsLog(p) /\ Len(p) = c /\ \A j \in 1 .. c : p[j] = log[j]
      BY <1>2, <3>1, PrefixLog
    <3>3. chosen' = p
      BY <1>2a, <2>1, <3>1
    <3>4. QED BY <1>2, <1>3, <2>1, <3>2, <3>3
  <2>2. CASE ~ (c > Len(chosen))
    BY <1>2, <1>2a, <1>3, <2>2
  <2>3. QED BY <2>1, <2>2
<1>5. /\ IsLog(acked') /\ Len(acked') <= Len(acked) /\ Len(acked') \in Nat
      /\ \A j \in DOMAIN acked' : acked'[j] = acked[j] /\ j \in DOMAIN acked
      /\ es # <<>> => Len(acked') < i
      /\ es = <<>> => acked' = acked
  <2>1. CASE es = <<>>
    BY <1>2a, <1>3, <2>1
  <2>2. CASE es # <<>>
    <3>0. raft.commit \in Nat
      BY DEF Types, RaftOK
    <3>1. PICK m : m = Min({Len(acked), i - 1})
      OBVIOUS
    <3>2. i - 1 \in Nat
      BY <1>2, <3>0
    <3>3. m \in Nat /\ m <= Len(acked) /\ m <= i - 1
      BY <1>3, <3>1, <3>2, MaxMinOfTwo
    <3>4. PICK p : p = SubSeq(acked, 1, m)
      OBVIOUS
    <3>5. IsLog(p) /\ Len(p) = m /\ \A j \in 1 .. m : p[j] = acked[j]
      BY <1>3, <3>3, <3>4, PrefixLog
    <3>6. acked' = p
      BY <1>2a, <2>2, <3>1, <3>4
    <3>7. DOMAIN p = 1 .. m /\ DOMAIN acked = 1 .. Len(acked)
      BY <1>3, <3>5 DEF IsLog
    <3>8. QED BY <1>2, <1>3, <2>2, <3>3, <3>5, <3>6, <3>7
  <2>3. QED BY <2>1, <2>2
<1>6. QED BY <1>3, <1>4, <1>5

\* The Ready of ReadyLog makes sense.
LEMMA LogReadyProperties ==
    ASSUME Types, NEW i, NEW es, NEW c, NEW way, ReadyLogInput(i, es, c, way),
           NEW r, r = LogReady(i, es, c, way, raft.term, raft.vote, raft.commit)
    PROVE  /\ code' = OnReady(r)
           /\ r.snap = None /\ (r.hs = None \/ r.commit = None) /\ r.entries = es
           /\ r.now \in raft.applied .. c /\ r.later = c /\ r.now <= c
           /\ r.hs # None => r.hs = [term |-> raft.term, vote |-> raft.vote, commit |-> c]
           /\ r.commit # None => r.commit = c
           /\ c > raft.commit => r.hs # None \/ r.commit # None
<1> USE NoneIsNoValue
<1>1. code' = OnReady(r)
  BY DEF ReadyLogInput, ReadyLog, LogReady
<1>2. /\ i \in Nat /\ i > raft.commit /\ c \in Nat /\ c >= raft.commit
  BY ReadyLogFacts
<1>3. raft.commit \in Nat /\ raft.applied \in Nat /\ raft.applied <= raft.commit
      /\ raft.term \in Nat /\ raft.vote \in Nat
  BY DEF Types, RaftOK
<1>4. i - 1 \in Nat /\ i - 1 >= raft.commit
  BY <1>2, <1>3
<1>5. PICK m : m = Min({c, i - 1})
  OBVIOUS
<1>6. m \in raft.applied .. c
  <2>1. m = IF c <= i - 1 THEN c ELSE i - 1
    BY <1>2, <1>4, <1>5, MaxMinOfTwo
  <2>2. QED BY <1>2, <1>3, <1>4, <2>1
<1>7. PICK h : h = [term |-> raft.term, vote |-> raft.vote, commit |-> c]
  OBVIOUS
<1>8. h # None
  BY <1>2, <1>3, <1>7 DEF HardState
<1>9. way \in {"hard", "light"}
  BY DEF ReadyLogInput
<1>10. /\ r.snap = None /\ r.entries = es /\ r.later = c
       /\ r.now = IF way = "hard" THEN m ELSE raft.commit
       /\ r.hs = IF way = "hard" /\ c > raft.commit THEN h ELSE None
       /\ r.commit = IF way = "light" /\ c > raft.commit THEN c ELSE None
  BY <1>5, <1>7 DEF LogReady
<1>11. r.now \in raft.applied .. c /\ r.now <= c
  BY <1>2, <1>3, <1>6, <1>10
<1>12. c # None
  BY <1>2
<1>13. /\ r.hs # None => r.hs = h
       /\ r.commit # None => r.commit = c
       /\ c > raft.commit => r.hs # None \/ r.commit # None
       /\ r.hs = None \/ r.commit = None
  BY <1>8, <1>9, <1>10, <1>12
<1>14. QED BY <1>1, <1>7, <1>10, <1>11, <1>13

\* ReadyLog: entries arrive or the commit index moves.
LEMMA TypesReadyLog ==
    ASSUME Types, NEW i, NEW es, NEW c, NEW way, ReadyLogInput(i, es, c, way)
    PROVE  Types'
<1> USE NodeAssumption
<1>1. PICK log : log = LogAfter(raft.log, i, es)
  OBVIOUS
<1>2. /\ mode = "running" /\ mode' = mode
      /\ UNCHANGED <<disk, past, cache, node, promised, met, faults>>
      /\ raft' = [raft EXCEPT !.log = log, !.commit = c]
      /\ raft'.applied = raft.applied /\ raft'.commit = c /\ raft'.log = log
      /\ c \in Nat /\ c >= raft.commit /\ c <= Len(log)
      /\ IsLog(log) /\ Len(log) \in Nat
      /\ es # <<>> => i <= MaxIndex /\ \E e \in Entry : e.index = i /\ es = <<e>>
  BY <1>1, ReadyLogFacts
<1>3. /\ IsLog(chosen') /\ Len(chosen') \in Nat /\ Len(chosen) \in Nat
      /\ Len(chosen) <= Len(chosen') /\ c <= Len(chosen') /\ IsLog(acked')
  BY ReadyLogGhosts
<1>4. RaftOK /\ raft.applied \in Nat /\ raft.commit \in Nat /\ raft.applied <= raft.commit
  BY DEF Types, RaftOK
<1>5. RaftOK'
  <2>1. raft' \in [term : Nat, vote : Nat, commit : Nat, applied : Nat,
                   conf : SUBSET (1 .. MaxIndex), log : Seq(Entry)]
    BY <1>2, <1>4 DEF RaftOK, IsLog
  <2>2. QED BY <1>2, <1>3, <1>4, <2>1, SMTT(30) DEF RaftOK
<1>6. \A img \in past' : Image(img, Len(chosen'))
  BY <1>2, <1>3, ImageStays DEF Types
<1>7. PICK r : r = LogReady(i, es, c, way, raft.term, raft.vote, raft.commit)
  OBVIOUS
<1>8. /\ code' = OnReady(r)
      /\ r.snap = None /\ (r.hs = None \/ r.commit = None) /\ r.entries = es
      /\ r.now \in raft.applied .. c /\ r.later = c /\ r.now <= c
      /\ r.hs # None => r.hs = [term |-> raft.term, vote |-> raft.vote, commit |-> c]
      /\ r.commit # None => r.commit = c
  BY <1>7, LogReadyProperties
<1>9. CodeOK'
  <2>1. PICK s, a, n : s = code' /\ a = raft.applied /\ n = Len(chosen')
    OBVIOUS
  <2>2. a \in Nat /\ n \in Nat /\ c \in Nat /\ r.now \in a .. c /\ r.later \in a .. c
        /\ r.now <= r.later
    BY <1>2, <1>3, <1>4, <1>8, <2>1
  <2>3. r.entries # <<>> => KeysOK(AppendI(r.entries).keys, n)
    <3> SUFFICES ASSUME es # <<>> PROVE KeysOK(AppendI(es).keys, n)
      BY <1>8
    <3>1. PICK e \in Entry : e.index = i /\ es = <<e>>
      BY <1>2
    <3>2. EntriesOK(disk.entries)
      BY DEF Types, Image
    <3>3. PICK keys : keys = AppendI(es).keys
      OBVIOUS
    <3>4. /\ EntriesOK(keys.entries) /\ keys.last_index = e.index
          /\ DOMAIN keys \subseteq {"entries", "last_index", "first_index"}
          /\ "first_index" \in DOMAIN keys => keys.first_index = e.index
      BY <3>1, <3>2, <3>3, AppendedEntry
    <3>5. i \in 0 .. MaxIndex /\ i \in Nat
      BY <1>2, <3>1 DEF Entry
    <3>6. KeysOK(keys, n)
      BY <3>1, <3>4, <3>5 DEF KeysOK
    <3>7. QED BY <3>3, <3>6
  <2>4. (r.hs # None => HardStateOK(r.hs, n)) /\ (r.commit # None => r.commit \in 0 .. n)
    <3>1. raft.term \in Nat /\ raft.vote \in Nat
      BY <1>4 DEF RaftOK
    <3>2. HardStateOK([term |-> raft.term, vote |-> raft.vote, commit |-> c], n)
      BY <1>2, <1>3, <2>1, <3>1 DEF HardStateOK, HardState
    <3>3. c \in 0 .. n
      BY <1>2, <1>3, <2>1
    <3>4. QED BY <1>8, <3>2, <3>3
  <2>5. r.snap = None /\ (r.hs = None \/ r.commit = None) /\ s = OnReady(r)
    BY <1>8, <2>1
  <2>6. /\ s \in Seq(Range(s))
        /\ \A k \in DOMAIN s : InstructionOK(s[k], a, c, n)
        /\ \A j, k \in DOMAIN s :
              j < k /\ s[j].op = "apply" /\ s[k].op = "apply" => s[j].upto <= s[k].upto
        /\ \A k \in DOMAIN s : s[k].op = "snapshot" => k = Len(s)
    BY <2>2, <2>3, <2>4, <2>5, ReadyCodeOK
  <2>7. QED BY <1>2, <2>1, <2>6, ReadyCode
<1>10. NodeOK'
  BY <1>2 DEF Types, NodeOK
<1>11. QED BY <1>2, <1>3, <1>5, <1>6, <1>9, <1>10 DEF Types

\* What the environment chooses for a Ready with a snapshot.
ReadySnapshotInput(more) ==
    Len(chosen) < MaxIndex /\ more \in NewEntries(Len(chosen) + 1) /\ ReadySnapshot(more)

\* A log with one more entry, if there is one.
LEMMA ExtendedLog ==
    ASSUME NEW l, IsLog(l), NEW es,
           es # <<>> => Len(l) < MaxIndex /\ (\E e \in Entry : e.index = Len(l) + 1 /\ es = <<e>>)
    PROVE  /\ IsLog(l \o es) /\ Len(l) \in Nat /\ Len(l \o es) \in Nat
           /\ Len(l \o es) = IF es = <<>> THEN Len(l) ELSE Len(l) + 1
           /\ \A j \in 1 .. Len(l) : (l \o es)[j] = l[j]
<1> USE NodeAssumption
<1>1. l \in Seq(Entry) /\ Len(l) \in Nat /\ Len(l) <= MaxIndex
  BY DEF IsLog
<1>2. CASE es = <<>>
  <2>1. l \o <<>> = l
    BY <1>1
  <2>2. l \o es = l
    BY <1>2, <2>1
  <2>3. QED BY <1>1, <1>2, <2>2
<1>3. CASE es # <<>>
  <2>1. Len(l) < MaxIndex
    BY <1>3
  <2>2. PICK e \in Entry : e.index = Len(l) + 1 /\ es = <<e>>
    BY <1>3
  <2>3. es \in Seq(Entry) /\ Len(es) = 1 /\ es[1] = e
    BY <2>2
  <2>4. PICK q : q = l \o es
    OBVIOUS
  <2>5. /\ l \o es \in Seq(Entry) /\ Len(l \o es) = Len(l) + Len(es)
        /\ \A j \in 1 .. Len(l) + Len(es) :
              (l \o es)[j] = IF j <= Len(l) THEN l[j] ELSE es[j - Len(l)]
    BY <1>1, <2>3, ConcatProperties
  <2>6. /\ q \in Seq(Entry) /\ Len(q) = Len(l) + 1
        /\ \A j \in 1 .. Len(l) + 1 : q[j] = IF j <= Len(l) THEN l[j] ELSE e
    <3>1. \A j \in 1 .. Len(l) + 1 : ~ (j <= Len(l)) => j - Len(l) = 1
      BY <1>1
    <3>2. QED BY <1>1, <2>3, <2>4, <2>5, <3>1
  <2>7. \A j \in 1 .. Len(l) : l[j] \in Entry /\ l[j].index = j
    BY <1>1 DEF IsLog, EntriesOK
  <2>8. \A j \in 1 .. Len(l) + 1 : q[j] \in Entry /\ q[j].index = j
    BY <1>1, <2>2, <2>6, <2>7
  <2>9. DOMAIN q = 1 .. Len(l) + 1
    BY <2>6
  <2>10. IsLog(q)
    BY <1>1, <2>1, <2>6, <2>8, <2>9 DEF IsLog, EntriesOK
  <2>11. \A j \in 1 .. Len(l) : q[j] = l[j]
    BY <1>1, <2>6
  <2>12. QED BY <1>1, <1>3, <2>4, <2>6, <2>10, <2>11
<1>4. QED BY <1>2, <1>3

\* The parts of a Ready with a snapshot.
SnapshotReady(snap, s, hs) ==
    [snap |-> snap, now |-> s, entries |-> <<>>, hs |-> hs, commit |-> None, later |-> s]

\* The facts about a Ready with a snapshot that the proofs use.
LEMMA ReadySnapshotFacts ==
    ASSUME Types, NEW more, ReadySnapshotInput(more)
    PROVE  /\ mode = "running" /\ code = <<>> /\ mode' = mode /\ faults' \in Nat
           /\ UNCHANGED <<disk, past, cache, node, promised>>
           /\ IsLog(chosen') /\ Len(chosen') \in Nat /\ Len(chosen) <= Len(chosen')
           /\ \A j \in 1 .. Len(chosen) : chosen'[j] = chosen[j]
           /\ raft' = [raft EXCEPT !.log = chosen', !.commit = Len(chosen'),
                                   !.applied = Len(chosen'),
                                   !.conf = Changes(chosen', Len(chosen'))]
           /\ met' = met \cup {"install"}
           /\ IsLog(acked') 
           /\ \E snap \in SnapshotMetadata :
                 /\ snap.conf \subseteq 1 .. MaxIndex
                 /\ code' = OnReady(SnapshotReady(snap, Len(chosen'),
                       [term |-> raft.term, vote |-> raft.vote, commit |-> Len(chosen')]))
<1> USE NodeAssumption
<1>1. RaftOK /\ IsLog(chosen) /\ IsLog(acked) /\ Len(chosen) \in Nat /\ Len(acked) \in Nat
  BY DEF Types, IsLog
<1>2. PICK all : all = chosen \o more
  OBVIOUS
<1>3. PICK s : s = Len(all)
  OBVIOUS
<1>4. more # <<>> => Len(chosen) < MaxIndex
                     /\ (\E e \in Entry : e.index = Len(chosen) + 1 /\ more = <<e>>)
  <2>1. Len(chosen) + 1 \in Nat /\ more \in NewEntries(Len(chosen) + 1)
    BY <1>1 DEF ReadySnapshotInput
  <2>2. Len(chosen) < MaxIndex
    BY DEF ReadySnapshotInput
  <2>3. QED BY <1>1, <2>1, <2>2, NewEntryType
<1>5. /\ IsLog(all) /\ s \in Nat /\ Len(chosen) <= s
      /\ \A j \in 1 .. Len(chosen) : all[j] = chosen[j]
  <2>1. PICK l : l = chosen
    OBVIOUS
  <2>2. IsLog(l) /\ (more # <<>> => Len(l) < MaxIndex
                     /\ (\E e \in Entry : e.index = Len(l) + 1 /\ more = <<e>>))
    BY <1>1, <1>4, <2>1
  <2>3. /\ IsLog(l \o more) /\ Len(l) \in Nat /\ Len(l \o more) \in Nat
        /\ Len(l \o more) = IF more = <<>> THEN Len(l) ELSE Len(l) + 1
        /\ \A j \in 1 .. Len(l) : (l \o more)[j] = l[j]
    BY <2>2, ExtendedLog
  <2>4. all = l \o more
    BY <1>2, <2>1
  <2>5. QED BY <1>3, <2>1, <2>3, <2>4
<1>6. chosen' = all /\ s > raft.commit /\ faults > 0 /\ faults' = faults - 1
      /\ raft' = [raft EXCEPT !.log = all, !.commit = s, !.applied = s,
                              !.conf = Changes(all, s)]
      /\ met' = met \cup {"install"}
      /\ mode = "running" /\ code = <<>> /\ mode' = mode
      /\ UNCHANGED <<disk, past, cache, node, promised>>
  BY <1>2, <1>3 DEF ReadySnapshotInput, ReadySnapshot, Idle, diskVars
<1>7. acked' = SubSeq(acked, 1, Min({Len(acked), raft.commit}))
  BY DEF ReadySnapshotInput, ReadySnapshot
<1>8. raft.commit \in Nat /\ raft.term \in Nat /\ raft.vote \in Nat
  BY <1>1 DEF RaftOK
<1>9. IsLog(acked')
  <2>1. PICK m : m = Min({Len(acked), raft.commit})
    OBVIOUS
  <2>2. m \in Nat /\ m <= Len(acked)
    <3>1. m = IF Len(acked) <= raft.commit THEN Len(acked) ELSE raft.commit
      BY <1>1, <1>8, <2>1, MaxMinOfTwo
    <3>2. QED BY <1>1, <1>8, <3>1
  <2>3. IsLog(SubSeq(acked, 1, m))
    BY <1>1, <2>2, PrefixLog
  <2>4. QED BY <1>7, <2>1, <2>3
<1>10. PICK snap : snap = [index |-> s, term |-> all[s].term, conf |-> Changes(all, s),
                           data |-> Commands(all, 0, s)]
  OBVIOUS
<1>11. s \in 1 .. Len(all) /\ s <= MaxIndex
  BY <1>3, <1>5, <1>6, <1>8 DEF IsLog
<1>12. all[s].term \in Nat
  <2>1. all[s] \in Entry
    BY <1>5, <1>11 DEF IsLog
  <2>2. QED BY <2>1 DEF Entry
<1>13. Changes(all, s) \subseteq 1 .. MaxIndex /\ Changes(all, s) \subseteq Nat
  BY <1>5, <1>11 DEF Changes
<1>14. Commands(all, 0, s) \in Seq(Entry)
  <2>1. 0 \in Nat /\ 0 <= s /\ s <= Len(all)
    BY <1>5, <1>11
  <2>2. QED BY <1>5, <2>1, CommandsType
<1>15. snap \in SnapshotMetadata /\ snap.conf \subseteq 1 .. MaxIndex
  BY <1>5, <1>10, <1>12, <1>13, <1>14 DEF SnapshotMetadata
<1>16. code' = OnReady(SnapshotReady(snap, s,
                  [term |-> raft.term, vote |-> raft.vote, commit |-> s]))
  BY <1>2, <1>3, <1>10 DEF ReadySnapshotInput, ReadySnapshot, SnapshotReady
<1>17. faults' \in Nat
  BY <1>6 DEF Types
<1>18. QED BY <1>3, <1>5, <1>6, <1>9, <1>15, <1>16, <1>17

\* What the code of a Ready with a snapshot does, and when.
IsInstall(z, snap, n, hs) ==
    /\ z \in Seq(Range(z)) /\ DOMAIN z = 1 .. 9 /\ Len(z) = 9
    /\ z[6] = Sync([hard_state |-> hs])
    /\ z[3].op = "put" /\ z[3].keys = [conf_state |-> snap.conf]
    /\ \A k \in 1 .. 9 : z[k].op = "put" => k \in {2, 3, 4, 6}
    /\ \A k \in {2, 3, 4} : /\ z[k].op = "put" /\ z[k].sync = "lazy"
                            /\ "hard_state" \notin DOMAIN z[k].keys
    /\ \A k \in 1 .. 9 : z[k].op \in {"send", "snapshot", "commit"} => k > 6
    /\ \A k \in 1 .. 9 : InstructionOK(z[k], n, n, n)
    /\ \A j, k \in 1 .. 9 :
          j < k /\ z[j].op = "apply" /\ z[k].op = "apply" => z[j].upto <= z[k].upto
    /\ \A k \in 1 .. 9 : z[k].op = "snapshot" => k = 9

\* The code of a Ready with a snapshot makes sense.
LEMMA InstallCode ==
    ASSUME NEW snap \in SnapshotMetadata, snap.conf \subseteq 1 .. MaxIndex, NEW n \in Nat,
           NEW hs, HardStateOK(hs, n), NEW r, r = SnapshotReady(snap, n, hs),
           NEW z, z = OnReady(r)
    PROVE  IsInstall(z, snap, n, hs)
<1>2. /\ r.snap = snap /\ r.entries = <<>> /\ r.hs = hs /\ r.commit = None /\ r.now = n
      /\ r.later = n
  BY DEF SnapshotReady
<1>3. snap # None /\ hs # None /\ hs \in HardState
  BY NoneIsNoValue DEF HardStateOK
<1>4. OnReady(r) = <<RestoreI(r.snap), Lazy([snapshot |-> r.snap]),
                          Lazy([conf_state |-> r.snap.conf]),
                          Lazy([first_index |-> r.snap.index + 1]), ApplyI(r.now),
                          Sync([hard_state |-> r.hs]), SendI, ApplyI(r.later), SnapshotI>>
  BY <1>2, <1>3, InstallShape
<1> DEFINE h == Sync([hard_state |-> hs])
           p == RestoreI(snap)
           x == Lazy([snapshot |-> snap])
           y == Lazy([conf_state |-> snap.conf])
           w == Lazy([first_index |-> snap.index + 1])
           a == ApplyI(n)
<1>5. z = <<p, x, y, w, a, h, SendI, a, SnapshotI>>
  BY <1>2, <1>4
<1>6. /\ p.op = "restore" /\ InstructionOK(p, n, n, n)
      /\ x.op = "put" /\ x.sync = "lazy" /\ InstructionOK(x, n, n, n)
      /\ "hard_state" \notin DOMAIN x.keys
  BY DEF RestoreI, Lazy, InstructionOK, KeysOK
<1>7. /\ y.op = "put" /\ y.sync = "lazy" /\ y.keys = [conf_state |-> snap.conf]
      /\ "hard_state" \notin DOMAIN y.keys /\ InstructionOK(y, n, n, n)
  BY DEF Lazy, InstructionOK, KeysOK
<1>8. /\ w.op = "put" /\ w.sync = "lazy" /\ InstructionOK(w, n, n, n)
      /\ "hard_state" \notin DOMAIN w.keys
  <2>1. snap.index + 1 \in Nat
    BY DEF SnapshotMetadata
  <2>2. QED BY <2>1 DEF Lazy, InstructionOK, KeysOK
<1>9. h.op = "put" /\ InstructionOK(h, n, n, n)
  BY DEF Sync, InstructionOK, KeysOK
<1>10. /\ a.op = "apply" /\ a.upto = n /\ InstructionOK(a, n, n, n)
       /\ SendI.op = "send" /\ InstructionOK(SendI, n, n, n)
       /\ SnapshotI.op = "snapshot" /\ InstructionOK(SnapshotI, n, n, n)
  BY DEF ApplyI, SendI, SnapshotI, InstructionOK
<1> DEFINE OK(u) == InstructionOK(u, n, n, n)
<1>11. z[6] = h /\ z[3].op = "put" /\ z[3].keys = [conf_state |-> snap.conf]
  BY <1>5, <1>7
<1> HIDE DEF h, p, x, y, w, a, OK
<1>12. z \in Seq({p, x, y, w, a, h, SendI, SnapshotI}) /\ Len(z) = 9 /\ DOMAIN z = 1 .. 9
  BY <1>5
<1>13. /\ z[1] = p /\ z[2] = x /\ z[3] = y /\ z[4] = w /\ z[5] = a /\ z[6] = h /\ z[7] = SendI
       /\ z[8] = a /\ z[9] = SnapshotI
  BY <1>5
<1>14. z \in Seq(Range(z))
  BY <1>12, SeqOfRange
<1>15. \A k \in 1 .. 9 : z[k].op = "put" => k \in {2, 3, 4, 6}
  BY <1>6, <1>7, <1>8, <1>9, <1>10, <1>13
<1>16. \A k \in {2, 3, 4} : /\ z[k].op = "put" /\ z[k].sync = "lazy"
                            /\ "hard_state" \notin DOMAIN z[k].keys
  BY <1>6, <1>7, <1>8, <1>13
<1>17. \A k \in 1 .. 9 : z[k].op \in {"send", "snapshot", "commit"} => k > 6
  BY <1>6, <1>7, <1>8, <1>9, <1>10, <1>13
<1>18. \A k \in 1 .. 9 : OK(z[k])
  <2>1. OK(p) /\ OK(x) /\ OK(y) /\ OK(w) /\ OK(a) /\ OK(h) /\ OK(SendI) /\ OK(SnapshotI)
    BY <1>6, <1>7, <1>8, <1>9, <1>10 DEF OK
  <2>2. QED BY <1>13, <2>1
<1>19. \A j, k \in 1 .. 9 :
          j < k /\ z[j].op = "apply" /\ z[k].op = "apply" => z[j].upto <= z[k].upto
  BY <1>6, <1>7, <1>8, <1>9, <1>10, <1>13
<1>20. \A k \in 1 .. 9 : z[k].op = "snapshot" => k = 9
  BY <1>6, <1>7, <1>8, <1>9, <1>10, <1>13
<1>21. QED BY <1>11, <1>12, <1>14, <1>15, <1>16, <1>17, <1>18, <1>19, <1>20 DEF OK, h, IsInstall

\* ReadySnapshot: the leader sends its snapshot.
LEMMA TypesReadySnapshot ==
    ASSUME Types, NEW more, ReadySnapshotInput(more)
    PROVE  Types'
<1> USE NodeAssumption
<1>1. PICK all : all = chosen'
  OBVIOUS
<1>2. PICK n : n = Len(all)
  OBVIOUS
<1>3. /\ mode = "running" /\ mode' = mode /\ faults' \in Nat
      /\ UNCHANGED <<disk, past, cache, node, promised>>
      /\ IsLog(all) /\ n \in Nat /\ Len(chosen) <= n
      /\ met' = met \cup {"install"} /\ IsLog(acked')
  BY <1>1, <1>2, ReadySnapshotFacts
<1>4. raft' = [raft EXCEPT !.log = all, !.commit = n, !.applied = n, !.conf = Changes(all, n)]
  BY <1>1, <1>2, ReadySnapshotFacts
<1>5. PICK snap \in SnapshotMetadata :
         /\ snap.conf \subseteq 1 .. MaxIndex
         /\ code' = OnReady(SnapshotReady(snap, n,
                       [term |-> raft.term, vote |-> raft.vote, commit |-> n]))
  BY <1>1, <1>2, ReadySnapshotFacts
<1>6. RaftOK /\ IsLog(chosen) /\ Len(chosen) \in Nat
  BY DEF Types, IsLog
<1>7. /\ raft'.log = all /\ raft'.commit = n /\ raft'.applied = n
      /\ raft' \in [term : Nat, vote : Nat, commit : Nat, applied : Nat,
                    conf : SUBSET (1 .. MaxIndex), log : Seq(Entry)]
  <2>1. Changes(all, n) \subseteq 1 .. MaxIndex
    BY <1>2, <1>3 DEF IsLog, Changes
  <2>2. PICK ch : ch = Changes(all, n)
    OBVIOUS
  <2>3. all \in Seq(Entry)
    BY <1>3 DEF IsLog
  <2>4. QED BY <1>3, <1>4, <1>6, <2>1, <2>2, <2>3 DEF RaftOK
<1>8. RaftOK'
  BY <1>1, <1>2, <1>3, <1>7 DEF RaftOK
<1>9. \A img \in past' : Image(img, Len(chosen'))
  BY <1>1, <1>2, <1>3, <1>6, ImageStays DEF Types
<1>10. CodeOK'
  <2>1. PICK hs : hs = [term |-> raft.term, vote |-> raft.vote, commit |-> n]
    OBVIOUS
  <2>2. HardStateOK(hs, n)
    BY <1>3, <1>6, <2>1 DEF HardStateOK, HardState, RaftOK
  <2>3. PICK z : z = code'
    OBVIOUS
  <2>4. PICK r : r = SnapshotReady(snap, n, hs) /\ z = OnReady(r)
    BY <1>5, <2>1, <2>3
  <2>5. /\ z \in Seq(Range(z)) /\ DOMAIN z = 1 .. 9 /\ Len(z) = 9
        /\ \A k \in 1 .. 9 : InstructionOK(z[k], n, n, n)
        /\ \A j, k \in 1 .. 9 :
              j < k /\ z[j].op = "apply" /\ z[k].op = "apply" => z[j].upto <= z[k].upto
        /\ \A k \in 1 .. 9 : z[k].op = "snapshot" => k = 9
    <3>1. snap \in SnapshotMetadata /\ snap.conf \subseteq 1 .. MaxIndex /\ n \in Nat
      BY <1>3, <1>5
    <3>2. IsInstall(z, snap, n, hs)
      BY <2>2, <2>4, <3>1, InstallCode
    <3>3. QED BY <3>2 DEF IsInstall
  <2>6. QED BY <1>1, <1>2, <1>3, <1>7, <2>3, <2>5, ReadyCode
<1>11. NodeOK'
  BY <1>3 DEF Types, NodeOK
<1>12. met' \subseteq {"install", "restart", "again"}
  BY <1>3 DEF Types
<1>13. QED BY <1>1, <1>3, <1>8, <1>9, <1>10, <1>11, <1>12 DEF Types

\* Of Ready, each disjunct.
LEMMA TypesReady ==
    ASSUME Types, Ready
    PROVE  Types'
<1>1. CASE \E t \in raft.term .. MaxTerm, v \in Peer \cup {0} : ReadyVote(t, v)
  BY <1>1, TypesReadyVote
<1>2. CASE \E i, es, c, way : ReadyLogInput(i, es, c, way)
  BY <1>2, TypesReadyLog
<1>3. CASE \E more : ReadySnapshotInput(more)
  BY <1>3, TypesReadySnapshot
<1>4. QED BY <1>1, <1>2, <1>3 DEF Ready, ReadyLogInput, ReadySnapshotInput

\* What is known while an instruction is at hand.
LEMMA AtFacts ==
    ASSUME Types, NEW op, At(op)
    PROVE  /\ code # <<>> /\ Head(code) = code[1] /\ 1 \in DOMAIN code /\ code[1].op = op
           /\ mode \in {"opening", "running"}
           /\ mode = "opening" => op = "put"
           /\ InstructionOK(code[1], raft.applied, raft.commit, Len(chosen))
<1>1. code # <<>> /\ Head(code).op = op
  BY DEF At
<1>2. CodeOK /\ code \in Seq(Range(code))
  BY DEF Types, CodeOK
<1>3. Head(code) = code[1] /\ 1 \in DOMAIN code
  BY <1>1, <1>2, TailOfCode
<1>4. mode \in {"opening", "running"}
  BY <1>1, <1>2 DEF CodeOK
<1>5. QED BY <1>1, <1>2, <1>3, <1>4 DEF CodeOK

\* DoPut: a write.
LEMMA TypesPut ==
    ASSUME Types, DoPut
    PROVE  Types'
<1> USE NodeAssumption
<1>1. At("put")
  BY DEF DoPut
<1>2. /\ code # <<>> /\ Head(code) = code[1] /\ code[1].op = "put"
      /\ mode \in {"opening", "running"}
      /\ InstructionOK(code[1], raft.applied, raft.commit, Len(chosen))
  BY <1>1, AtFacts
<1>3. UNCHANGED <<mode, raft, node, chosen, acked, promised, met, faults>> /\ code' = Tail(code)
  BY DEF DoPut, ghostVars
<1>4. PICK keys : keys = code[1].keys
  OBVIOUS
<1>5. KeysOK(keys, Len(chosen))
  BY <1>2, <1>4 DEF InstructionOK
<1>6. /\ disk' = Put(disk, keys) /\ cache' = CacheAfter(cache, keys)
      /\ past' = {disk'} \/ past' = past \cup {disk'}
  BY <1>2, <1>4 DEF DoPut
<1>7. CodeOK'
  BY <1>2, <1>3, TailOK DEF Types, CodeOK
<1>8. Image(disk', Len(chosen))
  BY <1>5, <1>6, PutImage DEF Types
<1>9. cache' \in [first : Nat, last : Nat]
  BY <1>5, <1>6 DEF CacheAfter, KeysOK, Types
<1>10. RaftOK' /\ NodeOK'
  BY <1>3 DEF Types, RaftOK, NodeOK
<1>11. disk' \in past' /\ \A img \in past' : Image(img, Len(chosen'))
  BY <1>3, <1>6, <1>8 DEF Types
<1>12. mode' # "down"
  BY <1>2, <1>3
<1>13. QED BY <1>3, <1>7, <1>9, <1>10, <1>11, <1>12 DEF Types

\* DoRestore: the state machine takes up a snapshot.
LEMMA TypesRestore ==
    ASSUME Types, DoRestore
    PROVE  Types'
<1> USE NodeAssumption
<1>1. At("restore")
  BY DEF DoRestore
<1>2. /\ code # <<>> /\ Head(code) = code[1] /\ code[1].op = "restore"
      /\ mode \in {"opening", "running"}
      /\ InstructionOK(code[1], raft.applied, raft.commit, Len(chosen))
  BY <1>1, AtFacts
<1>3. UNCHANGED <<disk, past, cache, mode, raft, chosen, acked, promised, met, faults>>
      /\ code' = Tail(code)
  BY DEF DoRestore, diskVars, ghostVars
<1>4. PICK s : s = code[1].snap
  OBVIOUS
<1>5. s \in SnapshotMetadata /\ s.conf \subseteq 1 .. MaxIndex
  BY <1>2, <1>4 DEF InstructionOK
<1>6. node' = [node EXCEPT !.sm = s.data, !.conf = s.conf, !.last_snapshot = s.index]
  BY <1>2, <1>4 DEF DoRestore
<1>7. NodeOK'
  BY <1>5, <1>6 DEF NodeOK, Types, SnapshotMetadata
<1>8. CodeOK'
  BY <1>2, <1>3, TailOK DEF Types, CodeOK
<1>9. RaftOK'
  BY <1>3 DEF Types, RaftOK
<1>10. QED BY <1>3, <1>7, <1>8, <1>9 DEF Types

\* What DoApply does to raft-rs and to the node.
LEMMA ApplyFacts ==
    ASSUME Types, DoApply
    PROVE  LET c    == code[1].upto
               cmds == Commands(raft.log, raft.applied, c)
               new  == {i \in raft.applied + 1 .. c : raft.log[i].kind = "Conf"}
           IN  /\ c \in raft.applied .. raft.commit /\ c \in Nat
               /\ mode = "running"
               /\ node' = [node EXCEPT
                     !.sm = node.sm \o cmds,
                     !.committed_index = IF cmds = <<>> THEN node.committed_index
                                         ELSE cmds[Len(cmds)].index,
                     !.conf = IF new = {} THEN node.conf ELSE raft.conf \cup new]
               /\ raft' = [raft EXCEPT !.applied = c, !.conf = raft.conf \cup new]
               /\ cmds \in Seq(Entry)
               /\ cmds # <<>> => cmds[Len(cmds)].index \in raft.applied + 1 .. c
               /\ new \subseteq 1 .. MaxIndex
               /\ code # <<>> /\ code' = Tail(code) /\ code[1].op = "apply" /\ 1 \in DOMAIN code
               /\ UNCHANGED <<disk, past, cache, mode, chosen, acked, promised, met, faults>>
<1> USE NodeAssumption
<1>1. At("apply")
  BY DEF DoApply
<1>2. /\ code # <<>> /\ Head(code) = code[1] /\ code[1].op = "apply" /\ 1 \in DOMAIN code
      /\ mode = "running"
      /\ InstructionOK(code[1], raft.applied, raft.commit, Len(chosen))
  BY <1>1, AtFacts
<1>3. UNCHANGED <<disk, past, cache, mode, chosen, acked, promised, met, faults>>
      /\ code' = Tail(code)
  BY DEF DoApply, diskVars, ghostVars
<1>4. RaftOK /\ raft.applied \in Nat /\ raft.commit \in Nat /\ IsLog(raft.log)
      /\ raft.commit <= Len(raft.log) /\ Len(raft.log) \in Nat /\ Len(raft.log) <= MaxIndex
  BY DEF Types, RaftOK, IsLog
<1>5. PICK c : c = code[1].upto
  OBVIOUS
<1>6. c \in raft.applied .. raft.commit /\ c \in Nat
  BY <1>2, <1>4, <1>5 DEF InstructionOK
<1>7. PICK cmds : cmds = Commands(raft.log, raft.applied, c)
  OBVIOUS
<1>8. PICK new : new = {i \in raft.applied + 1 .. c : raft.log[i].kind = "Conf"}
  OBVIOUS
<1>9. cmds \in Seq(Entry) /\ (cmds # <<>> => cmds[Len(cmds)].index \in raft.applied + 1 .. c)
  <2>1. PICK l, a : l = raft.log /\ a = raft.applied
    OBVIOUS
  <2>2. IsLog(l) /\ a \in Nat /\ a <= c /\ c <= Len(l)
    BY <1>4, <1>6, <2>1
  <2>3. cmds = Commands(l, a, c)
    BY <1>7, <2>1
  <2>4. QED BY <1>6, <2>1, <2>2, <2>3, CommandsType
<1>10. new \subseteq 1 .. MaxIndex
  BY <1>4, <1>6, <1>8
<1>11. Max({raft.applied, c}) = c
  <2>1. Max({raft.applied, c}) = IF raft.applied <= c THEN c ELSE raft.applied
    BY <1>4, <1>6, MaxMinOfTwo
  <2>2. QED BY <1>4, <1>6, <2>1
<1>12. node' = [node EXCEPT
                  !.sm = node.sm \o cmds,
                  !.committed_index = IF cmds = <<>> THEN node.committed_index
                                      ELSE cmds[Len(cmds)].index,
                  !.conf = IF new = {} THEN node.conf ELSE raft.conf \cup new]
  BY <1>2, <1>5, <1>7, <1>8 DEF DoApply
<1>13. raft' = [raft EXCEPT !.applied = Max({raft.applied, c}), !.conf = raft.conf \cup new]
  BY <1>2, <1>5, <1>7, <1>8 DEF DoApply
<1>14. QED BY <1>2, <1>3, <1>5, <1>6, <1>7, <1>8, <1>9, <1>10, <1>11, <1>12, <1>13

\* DoApply: committed entries are applied.
LEMMA TypesApply ==
    ASSUME Types, DoApply
    PROVE  Types'
<1> USE NodeAssumption
<1>1. PICK c : c = code[1].upto
  OBVIOUS
<1>2. PICK cmds : cmds = Commands(raft.log, raft.applied, c)
  OBVIOUS
<1>3. PICK new : new = {i \in raft.applied + 1 .. c : raft.log[i].kind = "Conf"}
  OBVIOUS
<1>4. /\ c \in raft.applied .. raft.commit /\ c \in Nat /\ mode = "running"
      /\ node' = [node EXCEPT
            !.sm = node.sm \o cmds,
            !.committed_index = IF cmds = <<>> THEN node.committed_index
                                ELSE cmds[Len(cmds)].index,
            !.conf = IF new = {} THEN node.conf ELSE raft.conf \cup new]
      /\ raft' = [raft EXCEPT !.applied = c, !.conf = raft.conf \cup new]
  BY <1>1, <1>2, <1>3, ApplyFacts
<1>5. /\ cmds \in Seq(Entry)
      /\ cmds # <<>> => cmds[Len(cmds)].index \in raft.applied + 1 .. c
      /\ new \subseteq 1 .. MaxIndex
  BY <1>1, <1>2, <1>3, ApplyFacts
<1>6. /\ code # <<>> /\ code' = Tail(code) /\ code[1].op = "apply" /\ 1 \in DOMAIN code
      /\ UNCHANGED <<disk, past, cache, mode, chosen, acked, promised, met, faults>>
  BY ApplyFacts
<1>7. RaftOK /\ NodeOK /\ CodeOK /\ raft.applied \in Nat /\ raft.commit \in Nat
  BY DEF Types, RaftOK
<1>8. /\ raft'.applied = c /\ raft'.commit = raft.commit /\ raft'.log = raft.log
      /\ raft' \in [term : Nat, vote : Nat, commit : Nat, applied : Nat,
                    conf : SUBSET (1 .. MaxIndex), log : Seq(Entry)]
  BY <1>4, <1>5, <1>7 DEF RaftOK
<1>9. RaftOK'
  BY <1>4, <1>6, <1>7, <1>8 DEF RaftOK
<1>10. NodeOK'
  <2>1. PICK sm : sm = node.sm \o cmds
    OBVIOUS
  <2>2. sm \in Seq(Entry)
    BY <1>5, <1>7, <2>1 DEF NodeOK
  <2>3. PICK m : m = IF cmds = <<>> THEN node.committed_index ELSE cmds[Len(cmds)].index
    OBVIOUS
  <2>4. m \in Nat
    BY <1>5, <1>7, <2>3 DEF NodeOK
  <2>5. PICK cf : cf = IF new = {} THEN node.conf ELSE raft.conf \cup new
    OBVIOUS
  <2>6. cf \in SUBSET (1 .. MaxIndex)
    BY <1>5, <1>7, <2>5 DEF NodeOK, RaftOK
  <2>7. node' = [node EXCEPT !.sm = sm, !.committed_index = m, !.conf = cf]
    BY <1>4, <2>1, <2>3, <2>5
  <2>8. QED BY <1>7, <2>2, <2>4, <2>6, <2>7 DEF NodeOK
<1>11. \A k \in DOMAIN code : k > 1 =>
          InstructionOK(code[k], raft'.applied, raft'.commit, Len(chosen'))
  <2> SUFFICES ASSUME NEW k \in DOMAIN code, k > 1
               PROVE  InstructionOK(code[k], c, raft.commit, Len(chosen))
    BY <1>6, <1>8
  <2>1. InstructionOK(code[k], raft.applied, raft.commit, Len(chosen))
    BY <1>7 DEF CodeOK
  <2>2. code[k].op = "apply" => c <= code[k].upto
    BY <1>1, <1>6, <1>7 DEF CodeOK
  <2>3. QED BY <1>4, <1>7, <2>1, <2>2 DEF InstructionOK
<1>12. CodeOK'
  BY <1>4, <1>6, <1>7, <1>11, TailOK
<1>13. QED BY <1>6, <1>9, <1>10, <1>12 DEF Types

\* DoSend: messages leave, or the event loop ends.
LEMMA TypesSend ==
    ASSUME Types, DoSend
    PROVE  Types'
<1>1. /\ code # <<>> /\ mode \in {"opening", "running"}
  BY AtFacts DEF DoSend
<1>2. UNCHANGED <<disk, past, cache, raft, node, chosen, met, faults>>
      /\ acked' = raft.log /\ promised' = [term |-> raft.term, vote |-> raft.vote]
  BY DEF DoSend, diskVars
<1>3. RaftOK' /\ NodeOK' /\ IsLog(acked') /\ promised' \in [term : Nat, vote : Nat]
  BY <1>2 DEF Types, RaftOK, NodeOK
<1>4. CodeOK' /\ mode' \in {"opening", "running", "ended"}
  <2>1. CASE code' = Tail(code) /\ mode' = mode
    BY <1>1, <1>2, <2>1, TailOK DEF Types, CodeOK
  <2>2. CASE code' = <<>> /\ mode' = "ended"
    BY <2>2, EmptyCodeOK
  <2>3. QED BY <2>1, <2>2 DEF DoSend
<1>5. QED BY <1>2, <1>3, <1>4 DEF Types

\* What the commit instruction writes.
LEMMA CommitFacts ==
    ASSUME Types, Votes, DoCommit
    PROVE  /\ mode = "running" /\ disk.hard_state # None /\ disk.hard_state \in HardState
           /\ code # <<>> /\ code[1].op = "commit" /\ code[1].index \in 0 .. Len(chosen)
           /\ disk' = Put(disk, [hard_state |->
                              [disk.hard_state EXCEPT !.commit = code[1].index]])
           /\ Image(disk', Len(chosen))
           /\ disk'.hard_state = [disk.hard_state EXCEPT !.commit = code[1].index]
           /\ \A f \in Fields : f # "hard_state" => disk'[f] = disk[f]
           /\ past' = {disk'} /\ code' = Tail(code)
           /\ UNCHANGED <<cache, mode, raft, node, chosen, acked, promised, met, faults>>
<1>1. /\ code # <<>> /\ Head(code) = code[1] /\ code[1].op = "commit" /\ mode = "running"
      /\ InstructionOK(code[1], raft.applied, raft.commit, Len(chosen))
  BY AtFacts DEF DoCommit
<1>2. PICK c : c = code[1].index
  OBVIOUS
<1>3. c \in 0 .. Len(chosen)
  BY <1>1, <1>2 DEF InstructionOK
<1>4. disk.hard_state # None
  BY <1>1 DEF Votes, VotesPending
<1>5. Image(disk, Len(chosen)) /\ disk.hard_state \in HardState /\ Len(chosen) \in Nat
  BY <1>4 DEF Types, Image, HardStateOK, IsLog
<1>6. PICK hs : hs = [disk.hard_state EXCEPT !.commit = c]
  OBVIOUS
<1>7. PICK keys : keys = [hard_state |-> hs]
  OBVIOUS
<1>8. HardStateOK(hs, Len(chosen))
  BY <1>3, <1>5, <1>6 DEF HardStateOK, HardState
<1>9. KeysOK(keys, Len(chosen))
  BY <1>7, <1>8 DEF KeysOK
<1>10. disk' = Put(disk, keys)
  BY <1>1, <1>2, <1>6, <1>7 DEF DoCommit, update_commit
<1>11. Image(disk', Len(chosen))
  BY <1>5, <1>9, <1>10, PutImage
<1>12. DOMAIN disk = Fields /\ DOMAIN keys = {"hard_state"} /\ keys.hard_state = hs
  BY <1>5, <1>7 DEF Image
<1>13. disk'.hard_state = hs /\ \A f \in Fields : f # "hard_state" => disk'[f] = disk[f]
  BY <1>10, <1>12 DEF Put, Fields
<1>14. /\ past' = {disk'} /\ code' = Tail(code)
       /\ UNCHANGED <<cache, mode, raft, node, chosen, acked, promised, met, faults>>
  BY DEF DoCommit, ghostVars
<1>15. QED BY <1>1, <1>2, <1>3, <1>4, <1>5, <1>6, <1>7, <1>10, <1>11, <1>13, <1>14

\* DoCommit: the commit index is stored.
LEMMA TypesCommit ==
    ASSUME Types, Votes, DoCommit
    PROVE  Types'
<1>1. /\ mode = "running" /\ code # <<>> /\ Image(disk', Len(chosen))
      /\ past' = {disk'} /\ code' = Tail(code)
      /\ UNCHANGED <<cache, mode, raft, node, chosen, acked, promised, met, faults>>
  BY CommitFacts
<1>2. CodeOK'
  BY <1>1, TailOK DEF Types, CodeOK
<1>3. RaftOK' /\ NodeOK'
  BY <1>1 DEF Types, RaftOK, NodeOK
<1>4. QED BY <1>1, <1>2, <1>3 DEF Types

\* What maybe_create_snapshot takes.
NodeSnapshot == [index |-> node.committed_index, term |-> disk.hard_state.term,
                 conf |-> node.conf, data |-> node.sm]

\* DoSnapshot: what is known before, and the three ways it ends.
LEMMA SnapshotFacts ==
    ASSUME Types, Votes, DoSnapshot
    PROVE  /\ mode = "running" /\ code # <<>> /\ code[1].op = "snapshot" /\ Len(code) = 1
           /\ Tail(code) = <<>>
           /\ NodeSnapshot \in SnapshotMetadata /\ NodeSnapshot.conf \subseteq 1 .. MaxIndex
           /\ UNCHANGED <<disk, past, cache, raft, chosen, acked, promised, met, faults>>
           /\ \/ code' = <<>> /\ mode' = mode /\ node' = node
              \/ code' = <<>> /\ mode' = "ended" /\ node' = node
              \/ /\ SnapshotDue /\ mode' = mode /\ code' = apply_snapshot(NodeSnapshot)
                 /\ node' = [node EXCEPT !.last_snapshot = node.committed_index]
<1>1. /\ code # <<>> /\ code[1].op = "snapshot" /\ mode = "running" /\ 1 \in DOMAIN code
  BY AtFacts DEF DoSnapshot
<1>2. code \in Seq(Range(code)) /\ Len(code) = 1
  BY <1>1 DEF Types, CodeOK
<1>3. Tail(code) \in Seq(Range(Tail(code))) /\ Len(Tail(code)) = 0
  BY <1>1, <1>2, TailOfCode
<1>4. Tail(code) = <<>>
  <2>1. PICK t : t = Tail(code)
    OBVIOUS
  <2>2. t \in Seq(Range(t)) /\ Len(t) = 0
    BY <1>3, <2>1
  <2>3. t = <<>>
    BY <2>2, EmptySeq
  <2>4. QED BY <2>1, <2>3
<1>5. disk.hard_state \in HardState
  BY <1>1 DEF Votes, VotesPending, Types, Image, HardStateOK
<1>6. NodeSnapshot \in SnapshotMetadata /\ NodeSnapshot.conf \subseteq 1 .. MaxIndex
  <2>1. disk.hard_state.term \in Nat
    BY <1>5 DEF HardState
  <2>2. NodeOK
    BY DEF Types
  <2>3. node.conf \subseteq Nat
    BY <2>2, NodeAssumption DEF NodeOK
  <2>4. QED BY <2>1, <2>2, <2>3 DEF NodeSnapshot, SnapshotMetadata, NodeOK
<1>7. UNCHANGED <<disk, past, cache, raft, chosen, acked, promised, met, faults>>
  BY DEF DoSnapshot, diskVars, ghostVars
<1>8. \/ code' = <<>> /\ mode' = mode /\ node' = node
      \/ code' = <<>> /\ mode' = "ended" /\ node' = node
      \/ /\ SnapshotDue /\ mode' = mode /\ code' = apply_snapshot(NodeSnapshot)
         /\ node' = [node EXCEPT !.last_snapshot = node.committed_index]
  BY <1>4 DEF DoSnapshot, NodeSnapshot
<1>9. QED BY <1>1, <1>2, <1>4, <1>6, <1>7, <1>8

\* The writes of apply_snapshot.
LEMMA SnapshotCode ==
    ASSUME NEW s \in SnapshotMetadata, s.conf \subseteq 1 .. MaxIndex,
           NEW applied, NEW commit, NEW n, NEW z, z = apply_snapshot(s)
    PROVE  /\ z \in Seq(Range(z)) /\ DOMAIN z = 1 .. 3 /\ Len(z) = 3
           /\ \A k \in 1 .. 3 : /\ z[k].op = "put" /\ InstructionOK(z[k], applied, commit, n)
                                /\ "hard_state" \notin DOMAIN z[k].keys
<1> DEFINE x == Lazy([snapshot |-> s])
           y == Lazy([conf_state |-> s.conf])
           w == Lazy([first_index |-> s.index + 1])
<1>1. z = <<x, y, w>>
  BY DEF apply_snapshot
<1>2. s.index + 1 \in Nat
  BY DEF SnapshotMetadata
<1>3. /\ x.op = "put" /\ InstructionOK(x, applied, commit, n) /\ "hard_state" \notin DOMAIN x.keys
      /\ y.op = "put" /\ InstructionOK(y, applied, commit, n) /\ "hard_state" \notin DOMAIN y.keys
      /\ w.op = "put" /\ InstructionOK(w, applied, commit, n) /\ "hard_state" \notin DOMAIN w.keys
  BY <1>2 DEF Lazy, InstructionOK, KeysOK
<1> HIDE DEF x, y, w
<1>4. z \in Seq({x, y, w}) /\ DOMAIN z = 1 .. 3 /\ Len(z) = 3 /\ z[1] = x /\ z[2] = y /\ z[3] = w
  BY <1>1
<1>5. z \in Seq(Range(z))
  BY <1>4, SeqOfRange
<1>6. QED BY <1>3, <1>4, <1>5

\* DoSnapshot: a snapshot is taken if it is due.
LEMMA TypesSnapshot ==
    ASSUME Types, Votes, DoSnapshot
    PROVE  Types'
<1>1. /\ mode = "running"
      /\ NodeSnapshot \in SnapshotMetadata /\ NodeSnapshot.conf \subseteq 1 .. MaxIndex
      /\ UNCHANGED <<disk, past, cache, raft, chosen, acked, promised, met, faults>>
      /\ \/ code' = <<>> /\ mode' = mode /\ node' = node
         \/ code' = <<>> /\ mode' = "ended" /\ node' = node
         \/ /\ SnapshotDue /\ mode' = mode /\ code' = apply_snapshot(NodeSnapshot)
            /\ node' = [node EXCEPT !.last_snapshot = node.committed_index]
  BY SnapshotFacts
<1>2. RaftOK'
  BY <1>1 DEF Types, RaftOK
<1>3. NodeOK'
  BY <1>1 DEF Types, NodeOK
<1>4. CodeOK' /\ mode' \in {"running", "ended"}
  <2>1. CASE code' = <<>>
    BY <1>1, <2>1, EmptyCodeOK
  <2>2. CASE code' = apply_snapshot(NodeSnapshot) /\ mode' = mode
    <3>1. PICK s, a, b, n : s = NodeSnapshot /\ a = raft'.applied /\ b = raft'.commit
                            /\ n = Len(chosen')
      OBVIOUS
    <3>2. PICK z : z = apply_snapshot(s)
      OBVIOUS
    <3>3. /\ z \in Seq(Range(z)) /\ DOMAIN z = 1 .. 3 /\ Len(z) = 3
          /\ \A k \in 1 .. 3 : z[k].op = "put" /\ InstructionOK(z[k], a, b, n)
      <4>1. s \in SnapshotMetadata /\ s.conf \subseteq 1 .. MaxIndex
        BY <1>1, <3>1
      <4>2. QED BY <3>2, <4>1, SnapshotCode, ZenonT(30)
    <3>4. code' = z
      BY <2>2, <3>1, <3>2
    <3>5. QED BY <1>1, <2>2, <3>1, <3>3, <3>4, ReadyCode
  <2>3. QED BY <1>1, <2>1, <2>2
<1>5. QED BY <1>1, <1>2, <1>3, <1>4 DEF Types

\* Every step keeps the types.
LEMMA TypesNext ==
    ASSUME Types, Votes, Configured, [Next]_vars
    PROVE  Types'
<1>1. CASE Start
  BY <1>1, TypesStart
<1>2. CASE Opened
  BY <1>2, TypesOpened
<1>3. CASE Crash
  BY <1>3, TypesCrash
<1>4. CASE MessageRefused
  BY <1>4, TypesMessageRefused
<1>5. CASE Ready
  BY <1>5, TypesReady
<1>6. CASE DoPut
  BY <1>6, TypesPut
<1>7. CASE DoRestore
  BY <1>7, TypesRestore
<1>8. CASE DoApply
  BY <1>8, TypesApply
<1>9. CASE DoSend
  BY <1>9, TypesSend
<1>10. CASE DoCommit
  BY <1>10, TypesCommit
<1>11. CASE DoSnapshot
  BY <1>11, TypesSnapshot
<1>12. CASE UNCHANGED vars
  BY <1>12 DEF vars, Types, CodeOK, RaftOK, NodeOK
<1>13. QED
  BY <1>1, <1>2, <1>3, <1>4, <1>5, <1>6, <1>7, <1>8, <1>9, <1>10, <1>11, <1>12 DEF Next, Execute

-----------------------------------------------------------------------------
(* Votes *)

\* Initially.
LEMMA VotesInit == Init => Votes
BY DEF Init, Votes, VotesStored, VotesPending, EmptyImage

\* What a hard state keeps.
LEMMA CoversTransitive ==
    ASSUME NEW x, NEW y, NEW z, x.term \in Nat, y.term \in Nat, z.term \in Nat,
           Covers(x, y), Covers(y, z)
    PROVE  Covers(x, z)
BY DEF Covers

\* The first instruction was executed and is not one that stores a hard state; term
\* and vote are those from before.
LEMMA VotesShift ==
    ASSUME Types, VotesPending, code # <<>>, code' = Tail(code), mode' = mode,
           ~ IsHard(code[1]),
           raft'.term = raft.term, raft'.vote = raft.vote,
           disk.hard_state # None => disk'.hard_state # None,
           disk'.hard_state.term = disk.hard_state.term,
           disk'.hard_state.vote = disk.hard_state.vote,
           mode = "opening" => promised' = promised
    PROVE  VotesPending'
<1>1. /\ Len(code) \in Nat \ {0} /\ DOMAIN code = 1 .. Len(code)
      /\ Len(Tail(code)) = Len(code) - 1 /\ DOMAIN Tail(code) = 1 .. Len(code) - 1
      /\ \A k \in 1 .. Len(code) - 1 : k + 1 \in DOMAIN code /\ Tail(code)[k] = code[k + 1]
  BY TailOfCode DEF Types, CodeOK
<1>2. PICK new : new = Tail(code)
  OBVIOUS
<1>3. /\ code' = new /\ Len(new) = Len(code) - 1 /\ DOMAIN new = 1 .. Len(code) - 1
      /\ \A k \in DOMAIN new : k + 1 \in DOMAIN code /\ new[k] = code[k + 1]
  BY <1>1, <1>2
<1>4. ASSUME NEW k \in 1 .. Len(new) + 1, HardBefore(k + 1)
      PROVE  HardBefore(k)'
  <2>1. PICK j \in DOMAIN code : j < k + 1 /\ IsHard(code[j])
    BY <1>4 DEF HardBefore
  <2>2. j # 1
    BY <2>1
  <2>3. j - 1 \in DOMAIN new /\ j - 1 < k /\ new[j - 1] = code[j]
    BY <1>1, <1>3, <2>1, <2>2
  <2>4. QED BY <1>3, <2>1, <2>3 DEF HardBefore
<1>5. ASSUME NEW k \in 1 .. Len(new) + 1, VoteDue(k + 1)
      PROVE  VoteDue(k)'
  BY <1>4, <1>5 DEF VoteDue, VoteStored
<1>6. Len(new) + 1 \in 1 .. Len(new) + 1 /\ Len(new) + 1 + 1 = Len(code) + 1
  BY <1>1, <1>3
<1>7. ASSUME mode = "opening"
      PROVE  /\ disk'.hard_state # None \/ HardBefore(Len(code) + 1)'
             /\ \A k \in DOMAIN code' : IsHard(code'[k]) => promised'.term = 0
  <2>1. disk'.hard_state # None \/ HardBefore(Len(code) + 1)'
    <3>1. disk.hard_state # None \/ HardBefore(Len(code) + 1)
      BY <1>7 DEF VotesPending
    <3>2. HardBefore(Len(new) + 1 + 1) => HardBefore(Len(new) + 1)'
      BY <1>4, <1>6
    <3>3. QED BY <1>3, <1>6, <3>1, <3>2
  <2>2. \A k \in DOMAIN new : IsHard(new[k]) => promised'.term = 0
    BY <1>3, <1>7 DEF VotesPending
  <2>3. QED BY <1>3, <2>1, <2>2
<1>8. ASSUME mode = "running"
      PROVE  /\ disk'.hard_state # None
             /\ Covers(raft', disk'.hard_state)
             /\ \A k \in DOMAIN code' : IsHard(code'[k]) =>
                   /\ code'[k].keys.hard_state.term = raft'.term
                   /\ code'[k].keys.hard_state.vote = raft'.vote
             /\ \A k \in DOMAIN code' : code'[k].op = "send" => VoteDue(k)'
             /\ VoteDue(Len(code) + 1)'
  <2>1. disk'.hard_state # None /\ Covers(raft', disk'.hard_state)
    BY <1>8 DEF VotesPending, Covers
  <2>2. \A k \in DOMAIN new : IsHard(new[k]) =>
           /\ new[k].keys.hard_state.term = raft'.term
           /\ new[k].keys.hard_state.vote = raft'.vote
    BY <1>3, <1>8 DEF VotesPending
  <2>3. \A k \in DOMAIN new : new[k].op = "send" => VoteDue(k)'
    <3> SUFFICES ASSUME NEW k \in DOMAIN new, new[k].op = "send" PROVE VoteDue(k)'
      OBVIOUS
    <3>1. VoteDue(k + 1)
      BY <1>3, <1>8 DEF VotesPending
    <3>2. k \in 1 .. Len(new) + 1
      BY <1>1, <1>3
    <3>3. QED BY <1>5, <3>1, <3>2
  <2>4. VoteDue(Len(new) + 1)'
    <3>1. VoteDue(Len(new) + 1 + 1)
      BY <1>6, <1>8 DEF VotesPending
    <3>2. QED BY <1>5, <1>6, <3>1
  <2>5. QED BY <1>3, <2>1, <2>2, <2>3, <2>4
<1>9. QED BY <1>7, <1>8 DEF VotesPending

\* Start: a storage without a hard state gets one.
LEMMA VotesStart ==
    ASSUME Types, Votes, Start
    PROVE  Votes'
<1> DEFINE init == <<Lazy([node_id |-> NodeId]), Sync([hard_state |-> DefaultHardState]),
                     Lazy([conf_state |-> {}]), Lazy([first_index |-> 1]),
                     Lazy([last_index |-> 0])>>
<1>1. /\ disk.hard_state # None => code' = <<>>
      /\ disk.hard_state = None => code' = init
  BY DEF Start, InitializeIfNeeded
<1>2. mode' = "opening" /\ UNCHANGED <<disk, past, promised>>
  BY DEF Start, diskVars, ghostVars
<1>3. VotesStored'
  BY <1>2 DEF Votes, VotesStored, Covers
<1>4. VotesPending'
  <2>1. CASE disk.hard_state # None
    BY <1>1, <1>2, <2>1 DEF VotesPending
  <2>2. CASE disk.hard_state = None
    <3>1. DOMAIN init = 1 .. 5 /\ Len(init) = 5
      OBVIOUS
    <3>2. IsHard(init[2])
      BY DEF IsHard, Sync
    <3>3. promised.term = 0
      BY <2>2 DEF Types, Votes, VotesStored
    <3> HIDE DEF init
    <3>4. HardBefore(Len(code) + 1)'
      BY <1>1, <2>2, <3>1, <3>2 DEF HardBefore
    <3>5. QED BY <1>1, <1>2, <2>2, <3>3, <3>4 DEF VotesPending
  <2>3. QED BY <2>1, <2>2
<1>5. QED BY <1>3, <1>4 DEF Votes

\* Opened: raft-rs starts from the stored term and vote.
LEMMA VotesOpened ==
    ASSUME Types, Votes, Opened
    PROVE  Votes'
<1>1. mode = "opening" /\ code = <<>> /\ code' = <<>> /\ UNCHANGED <<disk, past, promised>>
  BY DEF Opened
<1>2. disk.hard_state # None
  BY <1>1 DEF Votes, VotesPending, HardBefore
<1>3. VotesStored'
  BY <1>1 DEF Votes, VotesStored, Covers
<1>4. VotesPending'
  <2>1. CASE RaftAccepts(disk)
    <3>1. raft'.term = disk.hard_state.term /\ raft'.vote = disk.hard_state.vote
          /\ mode' = "running"
      BY <2>1 DEF Opened
    <3>2. VoteStored'
      BY <1>1, <3>1 DEF VoteStored
    <3>3. DOMAIN <<>> = {}
      OBVIOUS
    <3>4. QED BY <1>1, <1>2, <3>1, <3>2, <3>3 DEF VotesPending, VoteDue, Covers
  <2>2. CASE ~ RaftAccepts(disk)
    BY <2>2 DEF Opened, VotesPending
  <2>3. QED BY <2>1, <2>2
<1>5. QED BY <1>3, <1>4 DEF Votes

\* Crash: the image that is left has the hard state of the others.
LEMMA VotesCrash ==
    ASSUME Types, Votes, Crash
    PROVE  Votes'
<1>1. disk' \in past /\ past' = {disk'} /\ mode' = "down" /\ promised' = promised
  BY DEF Crash, ghostVars
<1>2. disk'.hard_state = disk.hard_state
  BY <1>1 DEF Votes, VotesStored
<1>3. QED BY <1>1, <1>2 DEF Votes, VotesStored, VotesPending, Covers

\* A Ready that leaves term and vote, or raises them.  Its messages wait for the hard
\* state if it has one.
LEMMA VotesAfterReady ==
    ASSUME Types, Votes, Idle, mode' = "running", UNCHANGED <<disk, past, promised>>,
           \/ raft'.term > raft.term /\ raft'.term \in Nat
           \/ raft'.term = raft.term /\ (raft.vote # 0 => raft'.vote = raft.vote),
           code' \in Seq(Range(code')),
           \A k \in DOMAIN code' : IsHard(code'[k]) =>
                /\ code'[k].keys.hard_state.term = raft'.term
                /\ code'[k].keys.hard_state.vote = raft'.vote,
           \/ raft'.term = raft.term /\ raft'.vote = raft.vote
           \/ \E p \in DOMAIN code' :
                IsHard(code'[p]) /\ \A k \in DOMAIN code' : code'[k].op = "send" => p < k
    PROVE  Votes'
<1>1. mode = "running" /\ code = <<>>
  BY DEF Idle
<1>2. VoteStored /\ disk.hard_state # None
  BY <1>1 DEF Votes, VotesPending, VoteDue, HardBefore
<1>3. VotesStored'
  BY DEF Votes, VotesStored, Covers
<1>4. Covers(raft', disk'.hard_state)
  BY <1>2 DEF Covers, VoteStored
<1>5. PICK new : new = code'
  OBVIOUS
<1>6. DOMAIN new = 1 .. Len(new) /\ Len(new) \in Nat
  <2>1. new \in Seq(Range(new))
    BY <1>5
  <2>2. QED BY <2>1
<1>7. (\A k \in DOMAIN new : new[k].op = "send" => VoteDue(k)') /\ VoteDue(Len(code) + 1)'
  <2>1. CASE raft'.term = raft.term /\ raft'.vote = raft.vote
    BY <1>2, <2>1 DEF VoteDue, VoteStored
  <2>2. CASE \E p \in DOMAIN new : IsHard(new[p]) /\ \A k \in DOMAIN new : new[k].op = "send" => p < k
    <3>1. PICK p \in DOMAIN new : IsHard(new[p]) /\ \A k \in DOMAIN new : new[k].op = "send" => p < k
      BY <2>2
    <3>2. \A k : p < k => HardBefore(k)'
      BY <1>5, <3>1 DEF HardBefore
    <3>3. p < Len(new) + 1
      BY <1>6, <3>1
    <3>4. QED BY <1>5, <3>1, <3>2, <3>3 DEF VoteDue
  <2>3. QED BY <1>5, <2>1, <2>2
<1>8. VotesPending'
  BY <1>2, <1>4, <1>5, <1>7 DEF VotesPending
<1>9. QED BY <1>3, <1>8 DEF Votes

\* ReadyVote: the new term and vote are stored before a message tells of them.
LEMMA VotesReadyVote ==
    ASSUME Types, Votes, Types', NEW t \in raft.term .. MaxTerm, NEW v \in Peer \cup {0},
           ReadyVote(t, v)
    PROVE  Votes'
<1>1. Idle /\ mode' = "running" /\ UNCHANGED <<disk, past, promised>>
  BY DEF ReadyVote, Idle, diskVars, ghostVars
<1>2. RaftOK /\ RaftOK' /\ raft' = [raft EXCEPT !.term = t, !.vote = v]
  BY DEF ReadyVote, Types
<1>3. raft'.term = t /\ raft'.vote = v /\ raft.term \in Nat /\ t \in Nat
  BY <1>2 DEF RaftOK
<1>4. \/ raft'.term > raft.term /\ raft'.term \in Nat
      \/ raft'.term = raft.term /\ (raft.vote # 0 => raft'.vote = raft.vote)
  BY <1>3 DEF ReadyVote
<1>5. PICK hs : hs = [term |-> t, vote |-> v, commit |-> raft.commit]
  OBVIOUS
<1>6. PICK r : r = [snap |-> None, now |-> raft.applied, entries |-> <<>>, hs |-> hs,
                    commit |-> None, later |-> raft.applied]
  OBVIOUS
<1>7. PICK s : s = code'
  OBVIOUS
<1>8. s = OnReady(r) /\ s \in Seq(Range(s))
  BY <1>5, <1>6, <1>7 DEF ReadyVote, Types, CodeOK
<1>9. r.snap = None /\ r.commit = None /\ r.entries = <<>> /\ r.hs = hs
  BY <1>6
<1>10. hs # None
  <2>1. v \in Nat /\ raft.commit \in Nat
    BY <1>2, NodeAssumption DEF RaftOK
  <2>2. QED BY <1>3, <1>5, <2>1, NoneIsNoValue DEF HardState
<1>11. PICK h : h = Sync([hard_state |-> hs])
  OBVIOUS
<1>12. /\ \A k \in DOMAIN s : s[k] = h \/ s[k].op \in {"apply", "send", "snapshot"}
       /\ \E p \in DOMAIN s :
             s[p] = h /\ \A k \in DOMAIN s : s[k].op \in {"send", "snapshot"} => p < k
  BY <1>8, <1>9, <1>10, <1>11, ReadyOrder
<1>13. IsHard(h) /\ h.keys.hard_state.term = t /\ h.keys.hard_state.vote = v
  BY <1>5, <1>11 DEF IsHard, Sync
<1>14. \A k \in DOMAIN s : IsHard(s[k]) =>
          s[k].keys.hard_state.term = t /\ s[k].keys.hard_state.vote = v
  BY <1>12, <1>13 DEF IsHard
<1>15. \E p \in DOMAIN s : IsHard(s[p]) /\ \A k \in DOMAIN s : s[k].op = "send" => p < k
  BY <1>12, <1>13
<1>16. QED BY <1>1, <1>3, <1>4, <1>7, <1>8, <1>14, <1>15, VotesAfterReady

\* ReadyLog: the hard state it may store has the term and the vote from before.
LEMMA VotesReadyLog ==
    ASSUME Types, Votes, Types', NEW i, NEW es, NEW c, NEW way, ReadyLogInput(i, es, c, way)
    PROVE  Votes'
<1>1. Idle /\ mode' = "running" /\ UNCHANGED <<disk, past, promised>>
  BY DEF ReadyLogInput, ReadyLog, Idle, diskVars
<1>2. raft'.term = raft.term /\ raft'.vote = raft.vote
  BY ReadyLogFacts
<1>3. PICK r : r = LogReady(i, es, c, way, raft.term, raft.vote, raft.commit)
  OBVIOUS
<1>4. PICK s : s = code'
  OBVIOUS
<1>5. /\ s = OnReady(r) /\ r.snap = None /\ (r.hs = None \/ r.commit = None)
      /\ r.entries = es
      /\ r.hs # None => r.hs = [term |-> raft.term, vote |-> raft.vote, commit |-> c]
  BY <1>3, <1>4, LogReadyProperties
<1>6. s \in Seq(Range(s))
  BY <1>4 DEF Types, CodeOK
<1>7. \A k \in DOMAIN s :
         \/ r.entries # <<>> /\ s[k] = AppendI(r.entries)
         \/ r.hs # None /\ s[k] = Sync([hard_state |-> r.hs])
         \/ r.commit # None /\ s[k] = CommitI(r.commit)
         \/ s[k].op \in {"apply", "send", "snapshot"}
  BY <1>5, ReadyOrder
<1>8. es # <<>> => ~ IsHard(AppendI(es))
  <2> SUFFICES ASSUME es # <<>> PROVE ~ IsHard(AppendI(es))
    OBVIOUS
  <2>1. PICK e \in Entry : e.index = i /\ es = <<e>>
    BY ReadyLogFacts, ZenonT(30)
  <2>2. EntriesOK(disk.entries)
    BY DEF Types, Image
  <2>3. DOMAIN AppendI(es).keys \subseteq {"entries", "last_index", "first_index"}
    BY <2>1, <2>2, AppendedEntry
  <2>4. QED BY <2>3 DEF IsHard
<1>9. ASSUME r.hs # None, NEW h, h = Sync([hard_state |-> r.hs])
      PROVE  h.keys.hard_state.term = raft'.term /\ h.keys.hard_state.vote = raft'.vote
  BY <1>2, <1>5, <1>9 DEF Sync
<1>10. ~ IsHard(CommitI(r.commit))
  BY DEF IsHard, CommitI
<1>11. \A k \in DOMAIN s : IsHard(s[k]) =>
          /\ s[k].keys.hard_state.term = raft'.term
          /\ s[k].keys.hard_state.vote = raft'.vote
  <2> SUFFICES ASSUME NEW k \in DOMAIN s, IsHard(s[k])
               PROVE  /\ s[k].keys.hard_state.term = raft'.term
                      /\ s[k].keys.hard_state.vote = raft'.vote
    OBVIOUS
  <2>1. s[k].op = "put"
    BY DEF IsHard
  <2>2. r.hs # None /\ s[k] = Sync([hard_state |-> r.hs])
    BY <1>5, <1>7, <1>8, <1>10, <2>1
  <2>3. QED BY <1>9, <2>2
<1>12. QED BY <1>1, <1>2, <1>4, <1>6, <1>11, VotesAfterReady

\* ReadySnapshot: the hard state has the term and the vote from before.
LEMMA VotesReadySnapshot ==
    ASSUME Types, Votes, Types', NEW more, ReadySnapshotInput(more)
    PROVE  Votes'
<1>1. Idle /\ mode' = "running" /\ UNCHANGED <<disk, past, promised>>
  BY DEF ReadySnapshotInput, ReadySnapshot, Idle, diskVars
<1>2. PICK all, n : all = chosen' /\ n = Len(all)
  OBVIOUS
<1>3. n \in Nat
      /\ raft' = [raft EXCEPT !.log = all, !.commit = n, !.applied = n, !.conf = Changes(all, n)]
  BY <1>2, ReadySnapshotFacts
<1>4. RaftOK
  BY DEF Types
<1>5. raft'.term = raft.term /\ raft'.vote = raft.vote
  BY <1>3, <1>4 DEF RaftOK
<1>6. PICK hs : hs = [term |-> raft.term, vote |-> raft.vote, commit |-> n]
  OBVIOUS
<1>7. HardStateOK(hs, n)
  BY <1>3, <1>4, <1>6 DEF HardStateOK, HardState, RaftOK
<1>8. PICK z : z = code'
  OBVIOUS
<1>9. PICK snap \in SnapshotMetadata :
         /\ snap.conf \subseteq 1 .. MaxIndex /\ z = OnReady(SnapshotReady(snap, n, hs))
  BY <1>2, <1>6, <1>8, ReadySnapshotFacts
<1>10. PICK r : r = SnapshotReady(snap, n, hs) /\ z = OnReady(r)
  BY <1>9
<1>11. snap \in SnapshotMetadata /\ snap.conf \subseteq 1 .. MaxIndex
  BY <1>9
<1>12. IsInstall(z, snap, n, hs)
  BY <1>3, <1>7, <1>10, <1>11, InstallCode
<1>13. \A k \in DOMAIN z : IsHard(z[k]) => z[k] = Sync([hard_state |-> hs])
  BY <1>12 DEF IsInstall, IsHard
<1>14. PICK h : h = Sync([hard_state |-> hs])
  OBVIOUS
<1>15. h.keys.hard_state.term = raft'.term /\ h.keys.hard_state.vote = raft'.vote
  BY <1>5, <1>6, <1>14 DEF Sync
<1>16. \A k \in DOMAIN z : IsHard(z[k]) =>
          z[k].keys.hard_state.term = raft'.term /\ z[k].keys.hard_state.vote = raft'.vote
  BY <1>13, <1>14, <1>15
<1>17. z \in Seq(Range(z))
  BY <1>12 DEF IsInstall
<1>18. QED BY <1>1, <1>5, <1>8, <1>16, <1>17, VotesAfterReady

\* DoPut: a hard state is stored with the other images gone, and keeps what the one
\* before it kept.
LEMMA VotesPut ==
    ASSUME Types, Votes, DoPut
    PROVE  Votes'
<1>1. /\ code # <<>> /\ Head(code) = code[1] /\ 1 \in DOMAIN code /\ code[1].op = "put"
      /\ mode \in {"opening", "running"}
      /\ InstructionOK(code[1], raft.applied, raft.commit, Len(chosen))
  BY AtFacts DEF DoPut
<1>2. UNCHANGED <<mode, raft, node, chosen, acked, promised, met, faults>> /\ code' = Tail(code)
  BY DEF DoPut, ghostVars
<1>3. PICK keys : keys = code[1].keys
  OBVIOUS
<1>4. /\ disk' = Put(disk, keys)
      /\ past' = IF code[1].sync = "sync" THEN {disk'} ELSE past \cup {disk'}
  BY <1>1, <1>3 DEF DoPut
<1>5. DOMAIN disk = Fields
  BY DEF Types, Image
<1>6. disk'.hard_state = IF "hard_state" \in DOMAIN keys THEN keys.hard_state ELSE disk.hard_state
  BY <1>4, <1>5, PutProperties
<1>7. CASE ~ IsHard(code[1])
  <2>1. disk'.hard_state = disk.hard_state
    BY <1>1, <1>3, <1>6, <1>7 DEF IsHard
  <2>2. VotesStored'
    BY <1>2, <1>4, <2>1 DEF Votes, VotesStored, Covers
  <2>3. VotesPending'
    BY <1>1, <1>2, <1>7, <2>1, VotesShift DEF Votes
  <2>4. QED BY <2>2, <2>3 DEF Votes
<1>8. CASE IsHard(code[1])
  <2>1. "hard_state" \in DOMAIN keys /\ HardStateOK(keys.hard_state, Len(chosen))
        /\ code[1].sync = "sync"
    BY <1>1, <1>3, <1>8 DEF IsHard, InstructionOK, KeysOK
  <2>2. PICK hs : hs = keys.hard_state
    OBVIOUS
  <2>3. disk'.hard_state = hs /\ past' = {disk'} /\ hs # None /\ hs \in HardState
    BY <1>4, <1>6, <2>1, <2>2, NoneIsNoValue DEF HardStateOK
  <2>4. PICK new : new = code'
    OBVIOUS
  <2>5. /\ Len(code) \in Nat \ {0}
        /\ Len(new) = Len(code) - 1 /\ DOMAIN new = 1 .. Len(code) - 1
        /\ \A k \in DOMAIN new : k + 1 \in DOMAIN code /\ new[k] = code[k + 1]
    BY <1>1, <1>2, <2>4, TailOfCode DEF Types, CodeOK
  <2>6. CASE mode = "opening"
    <3>1. promised'.term = 0
      BY <1>1, <1>2, <1>8, <2>6 DEF Votes, VotesPending
    <3>2. VotesStored'
      BY <2>3, <3>1 DEF VotesStored
    <3>3. VotesPending'
      BY <1>2, <2>3, <2>6, <3>1 DEF VotesPending
    <3>4. QED BY <3>2, <3>3 DEF Votes
  <2>7. CASE mode = "running"
    <3>1. hs.term = raft.term /\ hs.vote = raft.vote
      BY <1>1, <1>3, <1>8, <2>2, <2>7 DEF Votes, VotesPending
    <3>2. VoteStored' /\ raft'.term = raft.term /\ raft'.vote = raft.vote
      BY <1>2, <2>3, <3>1 DEF VoteStored
    <3>3. promised.term > 0 => Covers(hs, promised)
      <4>1. SUFFICES ASSUME promised.term > 0 PROVE Covers(hs, promised)
        OBVIOUS
      <4>2. PICK x, y, z : x = raft /\ y = disk.hard_state /\ z = promised
        OBVIOUS
      <4>3. Covers(x, y) /\ Covers(y, z)
        BY <2>7, <4>1, <4>2 DEF Votes, VotesPending, VotesStored
      <4>4. y \in HardState
        BY <2>7, <4>2 DEF Votes, VotesPending, Types, Image, HardStateOK
      <4>5. x.term \in Nat /\ y.term \in Nat /\ z.term \in Nat
        BY <4>2, <4>4 DEF Types, RaftOK, HardState
      <4>6. Covers(x, z)
        BY <4>3, <4>5, CoversTransitive
      <4>7. QED BY <3>1, <4>2, <4>6 DEF Covers
    <3>4. VotesStored'
      BY <1>2, <2>3, <3>3 DEF VotesStored, Covers
    <3>5. \A k \in DOMAIN new : IsHard(new[k]) =>
             /\ new[k].keys.hard_state.term = raft'.term
             /\ new[k].keys.hard_state.vote = raft'.vote
      BY <2>5, <2>7, <3>2 DEF Votes, VotesPending
    <3>6. Covers(raft', disk'.hard_state)
      BY <2>3, <3>1, <3>2 DEF Covers
    <3>7. VotesPending'
      BY <1>2, <2>3, <2>4, <2>7, <3>2, <3>5, <3>6 DEF VotesPending, VoteDue
    <3>8. QED BY <3>4, <3>7 DEF Votes
  <2>8. QED BY <1>1, <2>6, <2>7
<1>9. QED BY <1>7, <1>8

\* DoRestore and DoApply: nothing is stored.
LEMMA VotesRestoreApply ==
    ASSUME Types, Votes, DoRestore \/ DoApply
    PROVE  Votes'
<1>1. /\ code # <<>> /\ code[1].op \in {"restore", "apply"}
  BY AtFacts DEF DoRestore, DoApply
<1>2. UNCHANGED <<disk, past, mode, promised>> /\ code' = Tail(code)
  BY DEF DoRestore, DoApply, diskVars, ghostVars
<1>3. raft'.term = raft.term /\ raft'.vote = raft.vote
  <2>1. CASE DoRestore
    BY <2>1 DEF DoRestore
  <2>2. CASE DoApply
    <3>1. PICK a, b : raft' = [raft EXCEPT !.applied = a, !.conf = b]
      BY <2>2, ApplyFacts
    <3>2. QED BY <3>1 DEF Types, RaftOK
  <2>3. QED BY <2>1, <2>2
<1>4. ~ IsHard(code[1])
  BY <1>1 DEF IsHard
<1>5. VotesPending'
  BY <1>1, <1>2, <1>3, <1>4, VotesShift DEF Votes
<1>6. QED BY <1>2, <1>5 DEF Votes, VotesStored, Covers

\* DoSend: what is promised is stored.
LEMMA VotesSend ==
    ASSUME Types, Votes, DoSend
    PROVE  Votes'
<1>1. /\ code # <<>> /\ code[1].op = "send" /\ 1 \in DOMAIN code /\ mode = "running"
  BY AtFacts DEF DoSend
<1>2. UNCHANGED <<disk, past, raft>> /\ promised' = [term |-> raft.term, vote |-> raft.vote]
  BY DEF DoSend, diskVars
<1>3. VoteStored /\ disk.hard_state # None
  <2>1. VoteDue(1) /\ DOMAIN code = 1 .. Len(code)
    BY <1>1, TailOfCode DEF Votes, VotesPending, Types, CodeOK
  <2>2. QED BY <1>1, <2>1 DEF VoteDue, HardBefore, Votes, VotesPending
<1>4. VotesStored'
  BY <1>2, <1>3 DEF Votes, VotesStored, VoteStored, Covers
<1>5. VotesPending'
  <2>1. CASE code' = Tail(code) /\ mode' = mode
    <3>1. ~ IsHard(code[1])
      BY <1>1 DEF IsHard
    <3>2. QED BY <1>1, <1>2, <2>1, <3>1, VotesShift DEF Votes
  <2>2. CASE mode' = "ended"
    BY <2>2 DEF VotesPending
  <2>3. QED BY <2>1, <2>2 DEF DoSend
<1>6. QED BY <1>4, <1>5 DEF Votes

\* DoCommit: the stored term and vote stay.
LEMMA VotesCommit ==
    ASSUME Types, Votes, DoCommit
    PROVE  Votes'
<1>1. /\ mode = "running" /\ disk.hard_state # None /\ disk.hard_state \in HardState
      /\ code # <<>> /\ code[1].op = "commit" /\ code[1].index \in 0 .. Len(chosen)
      /\ disk'.hard_state = [disk.hard_state EXCEPT !.commit = code[1].index]
      /\ past' = {disk'} /\ code' = Tail(code)
      /\ UNCHANGED <<mode, raft, promised>>
  BY CommitFacts
<1>2. /\ disk'.hard_state.term = disk.hard_state.term
      /\ disk'.hard_state.vote = disk.hard_state.vote
      /\ disk'.hard_state \in HardState
  <2>1. PICK hs, c : hs = disk.hard_state /\ c = code[1].index
    OBVIOUS
  <2>2. hs \in HardState /\ c \in Nat /\ disk'.hard_state = [hs EXCEPT !.commit = c]
    BY <1>1, <2>1 DEF Types, IsLog
  <2>3. QED BY <2>1, <2>2 DEF HardState
<1>3. disk'.hard_state # None
  BY <1>2, NoneIsNoValue
<1>4. ~ IsHard(code[1])
  BY <1>1 DEF IsHard
<1>5. VotesPending'
  BY <1>1, <1>2, <1>3, <1>4, VotesShift DEF Votes
<1>6. VotesStored'
  BY <1>1, <1>2, <1>3 DEF Votes, VotesStored, Covers
<1>7. QED BY <1>5, <1>6 DEF Votes

\* DoSnapshot: no hard state is written.
LEMMA VotesSnapshot ==
    ASSUME Types, Votes, DoSnapshot
    PROVE  Votes'
<1>1. /\ mode = "running" /\ code # <<>> /\ code[1].op = "snapshot" /\ Len(code) = 1
      /\ NodeSnapshot \in SnapshotMetadata /\ NodeSnapshot.conf \subseteq 1 .. MaxIndex
      /\ UNCHANGED <<disk, past, raft, promised>>
      /\ \/ code' = <<>> /\ mode' = mode
         \/ mode' = "ended"
         \/ mode' = mode /\ code' = apply_snapshot(NodeSnapshot)
  BY SnapshotFacts
<1>2. VotesStored'
  BY <1>1 DEF Votes, VotesStored, Covers
<1>3. VoteStored
  <2>1. VoteDue(Len(code) + 1)
    BY <1>1 DEF Votes, VotesPending
  <2>2. DOMAIN code = 1 .. Len(code)
    BY <1>1, TailOfCode DEF Types, CodeOK
  <2>3. QED BY <1>1, <2>1, <2>2 DEF VoteDue, HardBefore, IsHard
<1>4. VoteStored' /\ disk'.hard_state # None /\ Covers(raft', disk'.hard_state)
  BY <1>1, <1>3 DEF VoteStored, Votes, VotesPending, Covers
<1>5. ASSUME \A k \in DOMAIN code' : ~ IsHard(code'[k]), mode' = "running"
      PROVE  VotesPending'
  BY <1>4, <1>5 DEF VotesPending, VoteDue
<1>6. VotesPending'
  <2>1. CASE mode' = "ended"
    BY <2>1 DEF VotesPending
  <2>2. CASE code' = <<>> /\ mode' = mode
    BY <1>1, <1>5, <2>2
  <2>3. CASE code' = apply_snapshot(NodeSnapshot) /\ mode' = mode
    <3>1. PICK s, a, b, n : s = NodeSnapshot /\ a = raft.applied /\ b = raft.commit
                            /\ n = Len(chosen)
      OBVIOUS
    <3>2. PICK z : z = apply_snapshot(s)
      OBVIOUS
    <3>3. s \in SnapshotMetadata /\ s.conf \subseteq 1 .. MaxIndex
      BY <1>1, <3>1
    <3>4. DOMAIN z = 1 .. 3 /\ \A k \in 1 .. 3 : "hard_state" \notin DOMAIN z[k].keys
      BY <3>2, <3>3, SnapshotCode
    <3>5. code' = z
      BY <2>3, <3>1, <3>2
    <3>6. QED BY <1>1, <1>5, <2>3, <3>4, <3>5 DEF IsHard
  <2>4. QED BY <1>1, <2>1, <2>2, <2>3
<1>7. QED BY <1>2, <1>6 DEF Votes

\* Every step keeps Votes.
LEMMA VotesNext ==
    ASSUME Types, Votes, Types', [Next]_vars
    PROVE  Votes'
<1>1. CASE Start
  BY <1>1, VotesStart
<1>2. CASE Opened
  BY <1>2, VotesOpened
<1>3. CASE Crash
  BY <1>3, VotesCrash
<1>4. CASE MessageRefused
  BY <1>4 DEF MessageRefused, diskVars, ghostVars, Votes, VotesStored, VotesPending, Covers
<1>5. CASE Ready
  <2>1. CASE \E t \in raft.term .. MaxTerm, v \in Peer \cup {0} : ReadyVote(t, v)
    BY <2>1, VotesReadyVote
  <2>2. CASE \E i, es, c, way : ReadyLogInput(i, es, c, way)
    BY <2>2, VotesReadyLog
  <2>3. CASE \E more : ReadySnapshotInput(more)
    BY <2>3, VotesReadySnapshot
  <2>4. QED BY <1>5, <2>1, <2>2, <2>3 DEF Ready, ReadyLogInput, ReadySnapshotInput
<1>6. CASE DoPut
  BY <1>6, VotesPut
<1>7. CASE DoRestore \/ DoApply
  BY <1>7, VotesRestoreApply
<1>9. CASE DoSend
  BY <1>9, VotesSend
<1>10. CASE DoCommit
  BY <1>10, VotesCommit
<1>11. CASE DoSnapshot
  BY <1>11, VotesSnapshot
<1>12. CASE UNCHANGED vars
  BY <1>12 DEF vars, Votes, VotesStored, VotesPending, Covers, VoteDue, VoteStored, HardBefore, IsHard
<1>13. QED
  BY <1>1, <1>2, <1>3, <1>4, <1>5, <1>6, <1>7, <1>9, <1>10, <1>11, <1>12 DEF Next, Execute

-----------------------------------------------------------------------------
(* The stored configuration *)

\* Initially.
LEMMA ConfiguredInit == Init => Configured
BY DEF Init, Configured, EmptyImage

\* Start: the configuration is written before the first index.
LEMMA ConfiguredStart ==
    ASSUME Types, Configured, Start
    PROVE  Configured'
<1> DEFINE init == <<Lazy([node_id |-> NodeId]), Sync([hard_state |-> DefaultHardState]),
                     Lazy([conf_state |-> {}]), Lazy([first_index |-> 1]),
                     Lazy([last_index |-> 0])>>
<1>1. code' = <<>> \/ code' = init
  BY DEF Start, InitializeIfNeeded
<1>2. mode' = "opening" /\ UNCHANGED <<disk, past>>
  BY DEF Start, diskVars
<1>3. PICK z : z = init
  OBVIOUS
<1>4. /\ DOMAIN z = 1 .. 5
      /\ "conf_state" \in DOMAIN z[3].keys
      /\ \A k \in 1 .. 5 : "first_index" \in DOMAIN z[k].keys => k = 4
  BY <1>3 DEF Lazy, Sync
<1>5. ASSUME NEW k \in DOMAIN code', "first_index" \in DOMAIN code'[k].keys
      PROVE  \E j \in DOMAIN code' : j < k /\ "conf_state" \in DOMAIN code'[j].keys
  <2>1. code' = z
    BY <1>1, <1>3, <1>5
  <2>2. k = 4 /\ 3 \in DOMAIN code' /\ 3 < k /\ "conf_state" \in DOMAIN code'[3].keys
    BY <1>4, <1>5, <2>1
  <2>3. QED BY <2>2
<1>6. QED BY <1>2, <1>5 DEF Configured, ConfStored

\* DoPut: the first index is written when there is a configuration.
LEMMA ConfiguredPut ==
    ASSUME Types, Configured, DoPut
    PROVE  Configured'
<1>1. /\ code # <<>> /\ Head(code) = code[1] /\ 1 \in DOMAIN code /\ code[1].op = "put"
      /\ mode \in {"opening", "running"}
      /\ InstructionOK(code[1], raft.applied, raft.commit, Len(chosen))
  BY AtFacts DEF DoPut
<1>2. mode' = mode /\ code' = Tail(code)
  BY DEF DoPut
<1>3. PICK keys : keys = code[1].keys
  OBVIOUS
<1>4. disk' = Put(disk, keys) /\ past' \subseteq past \cup {disk'}
  BY <1>1, <1>3 DEF DoPut
<1>5. DOMAIN disk = Fields /\ disk \in past
  BY DEF Types, Image
<1>6. /\ disk'.conf_state
            = IF "conf_state" \in DOMAIN keys THEN keys.conf_state ELSE disk.conf_state
      /\ disk'.first_index
            = IF "first_index" \in DOMAIN keys THEN keys.first_index ELSE disk.first_index
  BY <1>4, <1>5, PutProperties
<1>7. "conf_state" \in DOMAIN keys => keys.conf_state \subseteq 1 .. MaxIndex
  BY <1>1, <1>3 DEF InstructionOK, KeysOK
<1>8. ConfStored(disk) \/ "conf_state" \in DOMAIN keys => ConfStored(disk')
  BY <1>6, <1>7 DEF ConfStored
<1>9. PICK new : new = code'
  OBVIOUS
<1>10. /\ Len(code) \in Nat \ {0} /\ DOMAIN code = 1 .. Len(code)
       /\ Len(new) = Len(code) - 1 /\ DOMAIN new = 1 .. Len(code) - 1
       /\ \A k \in DOMAIN new : k + 1 \in DOMAIN code /\ new[k] = code[k + 1]
  BY <1>1, <1>2, <1>9, TailOfCode DEF Types, CodeOK
<1>11. "first_index" \in DOMAIN keys => ConfStored(disk)
  <2>1. ~ \E j \in DOMAIN code : j < 1
    BY <1>10
  <2>2. QED BY <1>1, <1>3, <2>1 DEF Configured
<1>12. disk'.first_index # None => ConfStored(disk')
  BY <1>5, <1>6, <1>8, <1>11 DEF Configured
<1>13. ASSUME mode = "opening", NEW k \in DOMAIN new, "first_index" \in DOMAIN new[k].keys
       PROVE  \/ ConfStored(disk')
              \/ \E j \in DOMAIN new : j < k /\ "conf_state" \in DOMAIN new[j].keys
  <2>1. \/ ConfStored(disk)
        \/ \E j \in DOMAIN code : j < k + 1 /\ "conf_state" \in DOMAIN code[j].keys
    BY <1>10, <1>13 DEF Configured
  <2>2. CASE ConfStored(disk)
    BY <1>8, <2>2
  <2>3. CASE \E j \in DOMAIN code : j < k + 1 /\ "conf_state" \in DOMAIN code[j].keys
    <3>1. PICK j \in DOMAIN code : j < k + 1 /\ "conf_state" \in DOMAIN code[j].keys
      BY <2>3
    <3>2. CASE j = 1
      BY <1>3, <1>8, <3>1, <3>2
    <3>3. CASE j # 1
      <4>1. j - 1 \in DOMAIN new /\ j - 1 < k /\ new[j - 1] = code[j]
        BY <1>10, <3>1, <3>3
      <4>2. QED BY <3>1, <4>1
    <3>4. QED BY <3>2, <3>3
  <2>4. QED BY <2>1, <2>2, <2>3
<1>14. mode = "running" => ConfStored(disk')
  BY <1>8 DEF Configured
<1>15. QED BY <1>2, <1>4, <1>9, <1>12, <1>13, <1>14 DEF Configured, ConfStored

\* A Ready writes nothing.
LEMMA ReadyUnchanged ==
    ASSUME Ready
    PROVE  UNCHANGED <<disk, past, cache, mode>> /\ Idle
<1>1. ASSUME NEW t, NEW v, ReadyVote(t, v)
      PROVE  UNCHANGED <<disk, past, cache, mode>> /\ Idle
  BY <1>1 DEF ReadyVote, diskVars
<1>2. ASSUME NEW i, NEW es, NEW c, NEW way, ReadyLog(i, es, c, way)
      PROVE  UNCHANGED <<disk, past, cache, mode>> /\ Idle
  BY <1>2 DEF ReadyLog, diskVars
<1>3. ASSUME NEW more, ReadySnapshot(more)
      PROVE  UNCHANGED <<disk, past, cache, mode>> /\ Idle
  BY <1>3 DEF ReadySnapshot, diskVars
<1>4. QED BY <1>1, <1>2, <1>3 DEF Ready

\* Every step keeps Configured.
LEMMA ConfiguredNext ==
    ASSUME Types, Votes, Configured, Types', [Next]_vars
    PROVE  Configured'
<1>1. CASE Start
  BY <1>1, ConfiguredStart
<1>2. CASE Opened
  <2>1. UNCHANGED <<disk, past>> /\ mode' \in {"running", "refused"}
    BY <1>2 DEF Opened
  <2>2. mode' = "running" => ConfStored(disk)
    <3>1. SUFFICES ASSUME mode' = "running" PROVE disk.first_index # None
      BY DEF Configured, Types
    <3>2. RaftAccepts(disk)
      BY <1>2, <3>1 DEF Opened
    <3>3. LoadIndex(disk.first_index) > 0
      BY <3>2 DEF RaftAccepts, LoadCaches
    <3>4. QED BY <3>3 DEF LoadIndex
  <2>3. QED BY <2>1, <2>2 DEF Configured, ConfStored
<1>3. CASE Crash
  BY <1>3 DEF Crash, Configured, ConfStored
<1>4. CASE DoPut
  BY <1>4, ConfiguredPut
<1>5. CASE DoCommit
  <2>1. /\ mode = "running" /\ mode' = mode /\ past' = {disk'}
        /\ \A f \in Fields : f # "hard_state" => disk'[f] = disk[f]
    BY <1>5, CommitFacts
  <2>2. disk'.conf_state = disk.conf_state
    BY <2>1 DEF Fields
  <2>3. QED BY <2>1, <2>2 DEF Configured, ConfStored
<1>6. CASE MessageRefused \/ Ready \/ DoRestore \/ DoApply \/ DoSend \/ DoSnapshot
  <2>1. UNCHANGED <<disk, past>>
    <3>1. CASE Ready
      BY <3>1, ReadyUnchanged
    <3>2. CASE MessageRefused \/ DoRestore \/ DoApply \/ DoSend \/ DoSnapshot
      BY <3>2 DEF MessageRefused, DoRestore, DoApply, DoSend, DoSnapshot, diskVars
    <3>3. QED BY <1>6, <3>1, <3>2
  <2>2. mode' # "opening" /\ (mode' = "running" => mode = "running")
    <3>1. CASE MessageRefused
      BY <3>1 DEF MessageRefused
    <3>2. CASE Ready
      BY <3>2, ReadyUnchanged DEF Idle
    <3>3. CASE DoRestore \/ DoApply \/ DoSend
      <4>1. mode = "running"
        BY <3>3, AtFacts DEF DoRestore, DoApply, DoSend
      <4>2. QED BY <3>3, <4>1 DEF DoRestore, DoApply, DoSend
    <3>4. CASE DoSnapshot
      BY <3>4, SnapshotFacts
    <3>5. QED BY <1>6, <3>1, <3>2, <3>3, <3>4
  <2>3. QED BY <2>1, <2>2 DEF Configured, ConfStored
<1>7. CASE UNCHANGED vars
  BY <1>7 DEF vars, Configured, ConfStored
<1>8. QED BY <1>1, <1>2, <1>3, <1>4, <1>5, <1>6, <1>7 DEF Next, Execute

-----------------------------------------------------------------------------
\* Types, the hard state and the configuration are inductive together.
LEMMA HardStateInvariant == Spec => [](Types /\ Votes /\ Configured)
<1>1. Init => Types /\ Votes /\ Configured
  BY TypesInit, VotesInit, ConfiguredInit
<1>2. Types /\ Votes /\ Configured /\ [Next]_vars => (Types /\ Votes /\ Configured)'
  BY TypesNext, VotesNext, ConfiguredNext
<1>3. QED BY <1>1, <1>2, PTL DEF Spec

\* Every variable keeps its type and every entry is stored under its index, whatever
\* is received and wherever the node crashes.
THEOREM NodeTypeCorrect == Spec => []TypeOK
<1>1. Types => TypeOK
  <2> SUFFICES ASSUME Types PROVE TypeOK
    OBVIOUS
  <2>1. \A img \in past : IsImage(img)
    BY DEF Types, Image, HardStateOK, EntriesOK, IsImage
  <2>2. \A i \in DOMAIN raft.log : raft.log[i] \in Entry /\ raft.log[i].index = i
    BY DEF Types, RaftOK, IsLog, EntriesOK
  <2>3. raft.applied \in 0 .. MaxIndex /\ raft.commit \in 0 .. Len(raft.log)
    BY NodeAssumption DEF Types, RaftOK, IsLog
  <2>4. QED BY <2>1, <2>2, <2>3 DEF Types, TypeOK
<1>2. QED BY <1>1, HardStateInvariant, PTL

\* Whatever a crash leaves of the database, its hard state covers each term and vote
\* the node has told others of: on_ready sends after it has persisted.
THEOREM VotesAreRemembered == Spec => []PromisesKept
<1>1. Types /\ Votes => PromisesKept
  <2> SUFFICES ASSUME Types, Votes, NEW img \in past, promised.term > 0
               PROVE  /\ img.hard_state # None
                      /\ \/ img.hard_state.term > promised.term
                         \/ /\ img.hard_state.term = promised.term
                            /\ promised.vote # 0 => img.hard_state.vote = promised.vote
    BY DEF PromisesKept
  <2>1. QED BY DEF Votes, VotesStored, Covers
<1>2. QED BY <1>1, HardStateInvariant, PTL
=============================================================================
