-------------------------- MODULE RaftNodeLogProofs --------------------------
(***************************************************************************)
(* Proofs about RaftNode, continued: the entries, the indices and the      *)
(* snapshot that a crash between any two writes leaves, as long as no      *)
(* snapshot of the leader was installed.                                   *)
(***************************************************************************)
EXTENDS RaftNodeProofs

NotInstalled == "install" \notin met

FirstIndex(img) == LoadIndex(img.first_index)

LastIndex(img) == LoadIndex(img.last_index)

\* Of the entries, e is at i, unless the image does not need it.
Holds(entries, img, i, e) ==
    i >= FirstIndex(img) => i \in DOMAIN entries /\ entries[i] = e

\* An image raft-rs can start from, if it has a first index; the entries it counts as
\* committed are the chosen ones ch.
ImageComplete(img, ch) ==
    IF img.first_index = None THEN LastIndex(img) = 0
    ELSE /\ img.hard_state # None
         /\ FirstIndex(img) > 0
         /\ FirstIndex(img) - 1 <= img.hard_state.commit
         /\ img.hard_state.commit <= LastIndex(img)
         /\ \A i \in FirstIndex(img) .. LastIndex(img) : i \in DOMAIN img.entries
         /\ \A i \in FirstIndex(img) .. img.hard_state.commit : img.entries[i] = ch[i]
         /\ FirstIndex(img) > 1 => img.snapshot # None /\ FirstIndex(img) - 1 <= img.snapshot.index

\* The images differ in what a snapshot writes only.
ImagesComplete ==
    /\ \A img \in past : /\ ImageComplete(img, chosen)
                         /\ img.entries = disk.entries
                         /\ LastIndex(img) = LastIndex(disk)
    /\ disk.hard_state = None => \A img \in past : img.first_index = None

AckedStored ==
    /\ Len(acked) <= LastIndex(disk)
    /\ \A img \in past : \A i \in DOMAIN acked : Holds(disk.entries, img, i, acked[i])

\* Of opening, what is still to be written to a storage that was not initialized.
Initializing ==
    /\ \A img \in past : img.first_index \in {None, 1} /\ LastIndex(img) = 0
    /\ disk.hard_state \in {None, DefaultHardState}
    /\ \/ disk.hard_state = None /\ code = InitializeIfNeeded(disk)
       \/ /\ disk.hard_state = None
          /\ code = <<Sync([hard_state |-> DefaultHardState]), Lazy([conf_state |-> {}]),
                      Lazy([first_index |-> 1]), Lazy([last_index |-> 0])>>
       \/ /\ disk.hard_state # None
          /\ code = <<Lazy([conf_state |-> {}]), Lazy([first_index |-> 1]),
                      Lazy([last_index |-> 0])>>
       \/ /\ disk.hard_state # None /\ disk.conf_state = {}
          /\ code = <<Lazy([first_index |-> 1]), Lazy([last_index |-> 0])>>
       \/ /\ disk.hard_state # None
          /\ code = <<Lazy([last_index |-> 0])>>
       \/ disk.hard_state # None /\ code = <<>>

\* raft-rs and the storage have the committed entries, and those others were told of.
LogAgrees ==
    /\ disk.first_index # None /\ cache = LoadCaches(disk)
    /\ disk.hard_state.commit <= raft.commit
    /\ \A i \in 1 .. raft.commit : raft.log[i] = chosen[i]
    /\ \A img \in past : \A i \in DOMAIN acked :
          i >= FirstIndex(img) => i <= Len(raft.log) /\ raft.log[i] = acked[i]
    /\ \A img \in past : FirstIndex(img) <= raft.applied + 1

\* The next snapshot of the node would not reach beyond what is applied, nor behind
\* the last one.
NodeBehind ==
    /\ node.committed_index <= raft.applied
    /\ node.last_snapshot <= node.committed_index
    /\ node.committed_index > 0 =>
          \A img \in past : FirstIndex(img) <= node.committed_index + 1

LogStored ==
    /\ Len(raft.log) = LastIndex(disk)
    /\ \A img \in past : \A i \in 1 .. Len(raft.log) : Holds(disk.entries, img, i, raft.log[i])

CommitStored == disk.hard_state.commit = raft.commit

\* apply_snapshot is under way for the snapshot s.
Snapshotting(s) ==
    /\ \A img \in past : FirstIndex(img) <= s.index + 1
    /\ s.index <= disk.hard_state.commit
    /\ LogStored /\ CommitStored
    /\ \/ code = apply_snapshot(s)
       \/ /\ code = <<Lazy([conf_state |-> s.conf]), Lazy([first_index |-> s.index + 1])>>
          /\ disk.snapshot = s
       \/ /\ code = <<Lazy([first_index |-> s.index + 1])>>
          /\ disk.snapshot = s /\ disk.conf_state = s.conf

\* The append brings the log that raft-rs believes in; first_index stays.
AppendOK(keys, log, images, first) ==
    /\ keys.last_index = Len(log)
    /\ \A img \in images : \A i \in 1 .. Len(log) : Holds(keys.entries, img, i, log[i])
    /\ DOMAIN keys \subseteq {"entries", "last_index", "first_index"}
    /\ "entries" \in DOMAIN keys /\ "last_index" \in DOMAIN keys
    /\ "first_index" \in DOMAIN keys => keys.first_index = first

\* An instruction of on_ready without a snapshot.
Works(x, log, images, first, hs) ==
    /\ x.op # "restore"
    /\ x.op = "put" => x.sync = "sync" /\ (IsAppend(x) \/ IsHard(x))
    /\ IsAppend(x) => AppendOK(x.keys, log, images, first)
    /\ IsHard(x) => x.keys = [hard_state |-> hs]
    /\ x.op = "commit" => x.index = hs.commit

NeedsLog(x) == IsHard(x) \/ x.op \in {"send", "commit", "snapshot"}

StoresCommit(x) == IsHard(x) \/ x.op = "commit"

RaftHardState == [term |-> raft.term, vote |-> raft.vote, commit |-> raft.commit]

\* on_ready is under way: the log is stored before what tells of it, and the commit
\* index before a snapshot is taken.
Working ==
    /\ \A k \in DOMAIN code : Works(code[k], raft.log, past, disk.first_index, RaftHardState)
    /\ \/ LogStored
       \/ \E p \in DOMAIN code : IsAppend(code[p]) /\ \A k \in DOMAIN code : NeedsLog(code[k]) => p < k
    /\ \/ CommitStored
       \/ \E p \in DOMAIN code :
             StoresCommit(code[p]) /\ \A k \in DOMAIN code : code[k].op = "snapshot" => p < k

(***************************************************************************)
(* Every image of a storage that was initialized is complete, and holds    *)
(* what others were told of.  What is missing is in the code that is being *)
(* executed, ahead of what depends on it.                                  *)
(***************************************************************************)
Logs ==
    /\ ImagesComplete
    /\ AckedStored
    /\ mode = "opening" => (code = <<>> /\ past = {disk}) \/ Initializing
    /\ mode = "running" => LogAgrees /\ NodeBehind /\ (Working \/ Snapshotting(NodeSnapshot))

-----------------------------------------------------------------------------
(* Logs *)

\* The indices of an image are numbers.
LEMMA Indices ==
    ASSUME Types, NEW img \in past
    PROVE  /\ FirstIndex(img) \in Nat /\ LastIndex(img) \in Nat
           /\ img.first_index # None => FirstIndex(img) = img.first_index
           /\ img.first_index = None => FirstIndex(img) = 0
           /\ img.hard_state # None =>
                 /\ img.hard_state \in HardState /\ img.hard_state.commit \in Nat
                 /\ img.hard_state.commit <= Len(chosen)
<1>1. Image(img, Len(chosen))
  BY DEF Types
<1>2. img.first_index \in Nat \cup {None} /\ img.last_index \in 0 .. MaxIndex \cup {None}
  BY <1>1 DEF Image
<1>3. QED BY <1>1, <1>2, NodeAssumption DEF FirstIndex, LastIndex, LoadIndex, Image, HardStateOK,
                                           HardState

\* A write leaves the indices it does not name.
LEMMA PutIndices ==
    ASSUME NEW img, NEW keys, DOMAIN img = Fields
    PROVE  /\ "first_index" \notin DOMAIN keys => FirstIndex(Put(img, keys)) = FirstIndex(img)
           /\ "last_index" \notin DOMAIN keys => LastIndex(Put(img, keys)) = LastIndex(img)
           /\ "first_index" \in DOMAIN keys /\ keys.first_index # None =>
                 FirstIndex(Put(img, keys)) = keys.first_index
           /\ "last_index" \in DOMAIN keys /\ keys.last_index # None =>
                 LastIndex(Put(img, keys)) = keys.last_index
BY PutProperties DEF FirstIndex, LastIndex, LoadIndex

\* What is chosen grows.
LEMMA CompleteStays ==
    ASSUME Types, NEW img \in past, NEW ch,
           \A i \in 1 .. Len(chosen) : ch[i] = chosen[i], ImageComplete(img, chosen)
    PROVE  ImageComplete(img, ch)
<1>1. FirstIndex(img) \in Nat /\ Len(chosen) \in Nat
  BY Indices DEF Types, IsLog
<1>2. ASSUME img.first_index # None
      PROVE  \A i \in FirstIndex(img) .. img.hard_state.commit : img.entries[i] = ch[i]
  <2>1. img.hard_state # None /\ FirstIndex(img) > 0
        /\ \A i \in FirstIndex(img) .. img.hard_state.commit : img.entries[i] = chosen[i]
    BY <1>2 DEF ImageComplete
  <2>2. img.hard_state.commit \in Nat /\ img.hard_state.commit <= Len(chosen)
    BY <2>1, Indices
  <2>3. \A i \in FirstIndex(img) .. img.hard_state.commit : i \in 1 .. Len(chosen)
    BY <1>1, <2>1, <2>2
  <2>4. QED BY <2>1, <2>3
<1>3. QED BY <1>2 DEF ImageComplete

\* Initially.
LEMMA LogsInit == Init => Logs
<1> SUFFICES ASSUME Init PROVE Logs
  OBVIOUS
<1>1. disk = EmptyImage /\ past = {EmptyImage} /\ mode = "down" /\ acked = <<>>
  BY DEF Init
<1>2. EmptyImage.first_index = None /\ LastIndex(EmptyImage) = 0
  BY DEF EmptyImage, LastIndex, LoadIndex
<1>3. ImagesComplete
  BY <1>1, <1>2 DEF ImagesComplete, ImageComplete
<1>4. AckedStored
  BY <1>1, <1>2 DEF AckedStored
<1>5. QED BY <1>1, <1>3, <1>4 DEF Logs

\* Nothing is stored and nothing becomes known: the images stay complete.
LEMMA ImagesStay ==
    ASSUME Types, Logs, UNCHANGED <<disk, past>>,
           \A i \in 1 .. Len(chosen) : chosen'[i] = chosen[i]
    PROVE  ImagesComplete'
<1>1. PICK ch : ch = chosen'
  OBVIOUS
<1>2. \A img \in past : ImageComplete(img, ch)
  BY <1>1, CompleteStays DEF Logs, ImagesComplete
<1>3. QED BY <1>1, <1>2 DEF Logs, ImagesComplete

\* Start.
LEMMA LogsStart ==
    ASSUME Types, Logs, Start
    PROVE  Logs'
<1>1. mode = "down" /\ mode' = "opening" /\ code' = InitializeIfNeeded(disk)
      /\ UNCHANGED <<disk, past, chosen, acked>>
  BY DEF Start, diskVars, ghostVars
<1>2. past = {disk}
  BY <1>1 DEF Types
<1>3. ImagesComplete' /\ AckedStored'
  BY <1>1, ImagesStay DEF Logs, AckedStored
<1>4. disk.hard_state # None => code' = <<>>
  BY <1>1 DEF InitializeIfNeeded
<1>5. disk.hard_state = None => Initializing'
  <2> SUFFICES ASSUME disk.hard_state = None PROVE Initializing'
    OBVIOUS
  <2>1. disk.first_index = None /\ ImageComplete(disk, chosen)
    BY <1>2 DEF Logs, ImagesComplete
  <2>2. LastIndex(disk) = 0
    BY <2>1 DEF ImageComplete
  <2>3. QED BY <1>1, <1>2, <2>1, <2>2 DEF Initializing
<1>6. QED BY <1>1, <1>2, <1>3, <1>4, <1>5 DEF Logs

\* Crash: one of the images is left, and each of them is complete.
LEMMA LogsCrash ==
    ASSUME Types, Votes, Logs, Crash
    PROVE  Logs'
<1>1. disk' \in past /\ past' = {disk'} /\ mode' = "down" /\ UNCHANGED <<chosen, acked>>
  BY DEF Crash, ghostVars
<1>2. disk'.entries = disk.entries /\ LastIndex(disk') = LastIndex(disk)
      /\ disk'.hard_state = disk.hard_state /\ ImageComplete(disk', chosen)
  BY <1>1 DEF Logs, ImagesComplete, Votes, VotesStored
<1>3. disk'.hard_state = None => disk'.first_index = None
  BY <1>1, <1>2 DEF Logs, ImagesComplete
<1>4. ImagesComplete'
  BY <1>1, <1>2, <1>3 DEF ImagesComplete
<1>5. AckedStored'
  BY <1>1, <1>2 DEF Logs, AckedStored
<1>6. QED BY <1>1, <1>4, <1>5 DEF Logs

\* Opened: raft-rs believes in the log that is stored.
LEMMA LogsOpened ==
    ASSUME Types, Votes, Logs, Opened
    PROVE  Logs'
<1>1. mode = "opening" /\ code = <<>> /\ code' = <<>> /\ UNCHANGED <<disk, past, chosen, acked>>
      /\ cache' = LoadCaches(disk) /\ mode' \in {"running", "refused"}
  BY DEF Opened
<1>2. ImagesComplete' /\ AckedStored'
  BY <1>1, ImagesStay DEF Logs, AckedStored
<1>3. SUFFICES ASSUME mode' = "running"
               PROVE  (LogAgrees /\ NodeBehind /\ Working)'
  BY <1>1, <1>2 DEF Logs
<1>4. RaftAccepts(disk)
  BY <1>1, <1>3 DEF Opened
<1>5. disk.hard_state # None
  BY <1>1 DEF Votes, VotesPending, HardBefore
<1>6. /\ disk.first_index \in Nat \ {0} /\ disk.hard_state \in HardState
      /\ disk.first_index - 1 <= disk.hard_state.commit
      /\ disk.hard_state.commit <= LoadIndex(disk.last_index)
      /\ IsLog(ReadLog(disk)) /\ Len(ReadLog(disk)) = LoadIndex(disk.last_index)
  BY <1>4, <1>5, AcceptedLog
<1>7. PICK l : l = ReadLog(disk)
  OBVIOUS
<1>8. /\ raft'.commit = disk.hard_state.commit /\ raft'.applied = disk.first_index - 1
      /\ raft'.log = l /\ node' = NewNode
  BY <1>4, <1>7 DEF Opened
<1>9. /\ disk \in past /\ FirstIndex(disk) = disk.first_index /\ LastIndex(disk) \in Nat
      /\ disk.hard_state.commit \in Nat /\ disk.first_index # None
  BY <1>5, <1>6, Indices, NoneIsNoValue DEF Types
<1>10. /\ Len(l) = LastIndex(disk)
       /\ \A i \in 1 .. Len(l) : l[i] = IF i < FirstIndex(disk) THEN chosen[i] ELSE disk.entries[i]
  BY <1>6, <1>7, <1>9 DEF ReadLog, LastIndex
<1>11. ImageComplete(disk, chosen)
  BY <1>9 DEF Logs, ImagesComplete
<1>12. \A i \in FirstIndex(disk) .. LastIndex(disk) : i \in DOMAIN disk.entries
  BY <1>9, <1>11 DEF ImageComplete
<1>13. \A i \in FirstIndex(disk) .. disk.hard_state.commit : disk.entries[i] = chosen[i]
  BY <1>9, <1>11 DEF ImageComplete
<1>14. Len(acked) \in Nat /\ DOMAIN acked = 1 .. Len(acked) /\ Len(acked) <= LastIndex(disk)
  BY DEF Types, IsLog, Logs, AckedStored
<1>15. past = {disk} \/ (FirstIndex(disk) = 1 /\ LastIndex(disk) = 0
                         /\ \A img \in past : FirstIndex(img) <= 1)
  <2>1. CASE past = {disk}
    BY <2>1
  <2>2. CASE Initializing
    BY <1>9, <2>2, NoneIsNoValue DEF Initializing, FirstIndex, LoadIndex
  <2>3. QED BY <1>1, <2>1, <2>2 DEF Logs
<1>16. \A img \in past : FirstIndex(img) <= FirstIndex(disk)
  BY <1>6, <1>9, <1>15
<1>17. \A i \in 1 .. disk.hard_state.commit : l[i] = chosen[i]
  <2>1. \A i \in 1 .. disk.hard_state.commit : i \in 1 .. Len(l)
    BY <1>6, <1>9, <1>10 DEF LastIndex
  <2>2. \A i \in 1 .. disk.hard_state.commit : ~ (i < FirstIndex(disk)) =>
           i \in FirstIndex(disk) .. disk.hard_state.commit
    BY <1>6, <1>9
  <2>3. QED BY <1>10, <1>13, <2>1, <2>2
<1>18. \A img \in past : \A i \in DOMAIN acked :
          i >= FirstIndex(img) => i <= Len(l) /\ l[i] = acked[i]
  <2> SUFFICES ASSUME NEW img \in past, NEW i \in DOMAIN acked, i >= FirstIndex(img)
               PROVE  i <= Len(l) /\ l[i] = acked[i]
    OBVIOUS
  <2>1. past = {disk} /\ i \in 1 .. Len(l)
    BY <1>9, <1>10, <1>14, <1>15
  <2>2. img = disk
    BY <2>1
  <2>3. Holds(disk.entries, disk, i, acked[i])
    BY <2>2 DEF Logs, AckedStored
  <2>4. disk.entries[i] = acked[i]
    BY <2>2, <2>3 DEF Holds
  <2>5. ~ (i < FirstIndex(disk))
    BY <1>6, <1>9, <1>14, <2>2
  <2>6. QED BY <1>10, <2>1, <2>4, <2>5
<1>19. LogAgrees'
  BY <1>1, <1>6, <1>8, <1>9, <1>16, <1>17, <1>18, SMTT(30) DEF LogAgrees, Types
<1>20. NodeBehind'
  BY <1>6, <1>8 DEF NodeBehind, NewNode
<1>21. \A img \in past : \A i \in 1 .. Len(l) : Holds(disk.entries, img, i, l[i])
  <2> SUFFICES ASSUME NEW img \in past, NEW i \in 1 .. Len(l), i >= FirstIndex(img)
               PROVE  i \in DOMAIN disk.entries /\ disk.entries[i] = l[i]
    BY DEF Holds
  <2>1. past = {disk}
    BY <1>9, <1>10, <1>15
  <2>2. i \in FirstIndex(disk) .. LastIndex(disk) /\ ~ (i < FirstIndex(disk))
    BY <1>6, <1>9, <1>10, <2>1
  <2>3. QED BY <1>10, <1>12, <2>2
<1>22. LogStored' /\ CommitStored'
  BY <1>1, <1>8, <1>10, <1>21 DEF LogStored, CommitStored
<1>23. Working'
  BY <1>1, <1>22 DEF Working
<1>24. QED BY <1>19, <1>20, <1>23

\* The rest of a tuple.
LEMMA TailTuples ==
    ASSUME NEW a, NEW b, NEW c, NEW d, NEW e
    PROVE  /\ Tail(<<a, b, c, d, e>>) = <<b, c, d, e>>
           /\ Tail(<<b, c, d, e>>) = <<c, d, e>>
           /\ Tail(<<c, d, e>>) = <<d, e>>
           /\ Tail(<<d, e>>) = <<e>>
           /\ Tail(<<e>>) = <<>>
<1>1. Tail(<<a, b, c, d, e>>) = <<b, c, d, e>>
  OBVIOUS
<1>2. Tail(<<b, c, d, e>>) = <<c, d, e>>
  OBVIOUS
<1>3. Tail(<<c, d, e>>) = <<d, e>>
  OBVIOUS
<1>4. Tail(<<d, e>>) = <<e>>
  OBVIOUS
<1>5. Tail(<<e>>) = <<>>
  OBVIOUS
<1>6. QED BY <1>1, <1>2, <1>3, <1>4, <1>5

\* DoPut while the storage is initialized.
LEMMA LogsOpeningPut ==
    ASSUME Types, Votes, Logs, DoPut, mode = "opening"
    PROVE  Logs'
<1> USE NoneIsNoValue
<1>1. /\ code # <<>> /\ Head(code) = code[1]
  BY AtFacts DEF DoPut
<1>2. UNCHANGED <<mode, chosen, acked>> /\ code' = Tail(code)
  BY DEF DoPut, ghostVars
<1>3. Initializing
  BY <1>1 DEF Logs
<1>4. disk \in past /\ DOMAIN disk = Fields
  BY DEF Types, Image
<1>5. PICK x : x = Head(code)
  OBVIOUS
<1>6. /\ disk' = Put(disk, x.keys)
      /\ past' = IF x.sync = "sync" THEN {disk'} ELSE past \cup {disk'}
  BY <1>5 DEF DoPut
<1>7. PICK keys : keys = x.keys
  OBVIOUS
<1>8. /\ disk'.hard_state
            = IF "hard_state" \in DOMAIN keys THEN keys.hard_state ELSE disk.hard_state
      /\ disk'.first_index
            = IF "first_index" \in DOMAIN keys THEN keys.first_index ELSE disk.first_index
      /\ disk'.last_index
            = IF "last_index" \in DOMAIN keys THEN keys.last_index ELSE disk.last_index
      /\ disk'.entries = IF "entries" \in DOMAIN keys THEN keys.entries ELSE disk.entries
      /\ "conf_state" \in DOMAIN keys => disk'.conf_state = keys.conf_state
  BY <1>4, <1>6, <1>7, PutProperties
<1>9. LastIndex(disk) = 0 /\ disk.first_index \in {None, 1}
      /\ disk.hard_state \in {None, DefaultHardState}
      /\ \A img \in past : img.first_index \in {None, 1} /\ LastIndex(img) = 0
  BY <1>3, <1>4 DEF Initializing
<1>10. DefaultHardState # None /\ DefaultHardState.commit = 0
  BY DEF DefaultHardState, HardState
<1> DEFINE c1 == Sync([hard_state |-> DefaultHardState])
           c2 == Lazy([conf_state |-> {}])
           c3 == Lazy([first_index |-> 1])
           c4 == Lazy([last_index |-> 0])
           c0 == Lazy([node_id |-> NodeId])
<1>11. disk.first_index = 1 => disk.hard_state = DefaultHardState
  BY <1>4, <1>9 DEF Logs, ImagesComplete
<1>12. disk.hard_state = None => \A img \in past : img.first_index = None
  BY DEF Logs, ImagesComplete
<1> DEFINE Good ==
      /\ disk'.entries = disk.entries /\ LastIndex(disk') = 0
      /\ disk'.first_index \in {None, 1}
      /\ disk'.hard_state \in {None, DefaultHardState}
      /\ disk'.first_index = 1 => disk'.hard_state = DefaultHardState
      /\ disk'.hard_state = None => disk'.first_index = None /\ disk.hard_state = None
      /\ disk'.hard_state # disk.hard_state => past' = {disk'}
      /\ past' \subseteq past \cup {disk'}
      /\ \/ disk'.hard_state = None /\ code' = <<c1, c2, c3, c4>>
         \/ disk'.hard_state # None /\ code' \in {<<c2, c3, c4>>, <<c4>>, <<>>}
         \/ disk'.hard_state # None /\ disk'.conf_state = {} /\ code' = <<c3, c4>>
<1>13. Good
  <2>1. CASE disk.hard_state = None /\ code = <<c0, c1, c2, c3, c4>>
    <3>1. x = c0 /\ code' = <<c1, c2, c3, c4>>
      BY <1>2, <1>5, <2>1, TailTuples
    <3>2. DOMAIN keys = {"node_id"} /\ x.sync = "lazy"
      BY <1>7, <3>1 DEF Lazy
    <3>3. /\ disk'.hard_state = None /\ disk'.first_index = None
          /\ disk'.entries = disk.entries /\ disk'.last_index = disk.last_index
      BY <1>4, <1>8, <1>12, <2>1, <3>2
    <3>4. QED BY <1>6, <1>9, <2>1, <3>1, <3>2, <3>3 DEF LastIndex
  <2>2. CASE disk.hard_state = None /\ code = <<c1, c2, c3, c4>>
    <3>1. x = c1 /\ code' = <<c2, c3, c4>>
      BY <1>2, <1>5, <2>2, TailTuples
    <3>2. DOMAIN keys = {"hard_state"} /\ keys.hard_state = DefaultHardState /\ x.sync = "sync"
      BY <1>7, <3>1 DEF Sync
    <3>3. /\ disk'.hard_state = DefaultHardState /\ disk'.first_index = None
          /\ disk'.entries = disk.entries /\ disk'.last_index = disk.last_index
      BY <1>4, <1>8, <1>12, <2>2, <3>2
    <3>4. QED BY <1>6, <1>9, <1>10, <3>1, <3>2, <3>3 DEF LastIndex
  <2>3. CASE disk.hard_state # None /\ code = <<c2, c3, c4>>
    <3>1. x = c2 /\ code' = <<c3, c4>>
      BY <1>2, <1>5, <2>3, TailTuples
    <3>2. DOMAIN keys = {"conf_state"} /\ keys.conf_state = {} /\ x.sync = "lazy"
      BY <1>7, <3>1 DEF Lazy
    <3>3. /\ disk'.hard_state = disk.hard_state /\ disk'.first_index = disk.first_index
          /\ disk'.conf_state = {}
          /\ disk'.entries = disk.entries /\ disk'.last_index = disk.last_index
      BY <1>8, <3>2
    <3>4. QED BY <1>6, <1>9, <1>11, <2>3, <3>1, <3>2, <3>3 DEF LastIndex
  <2>4. CASE disk.hard_state # None /\ code = <<c3, c4>>
    <3>1. x = c3 /\ code' = <<c4>>
      BY <1>2, <1>5, <2>4, TailTuples
    <3>2. DOMAIN keys = {"first_index"} /\ keys.first_index = 1 /\ x.sync = "lazy"
      BY <1>7, <3>1 DEF Lazy
    <3>3. /\ disk'.hard_state = disk.hard_state /\ disk'.first_index = 1
          /\ disk'.entries = disk.entries /\ disk'.last_index = disk.last_index
      BY <1>8, <3>2
    <3>4. QED BY <1>6, <1>9, <2>4, <3>1, <3>2, <3>3 DEF LastIndex
  <2>5. CASE disk.hard_state # None /\ code = <<c4>>
    <3>1. x = c4 /\ code' = <<>>
      BY <1>2, <1>5, <2>5, TailTuples
    <3>2. DOMAIN keys = {"last_index"} /\ keys.last_index = 0 /\ x.sync = "lazy"
      BY <1>7, <3>1 DEF Lazy
    <3>3. /\ disk'.hard_state = disk.hard_state /\ disk'.first_index = disk.first_index
          /\ disk'.entries = disk.entries /\ disk'.last_index = 0
      BY <1>8, <3>2
    <3>4. LastIndex(disk') = 0
      BY <3>3 DEF LastIndex, LoadIndex
    <3>5. QED BY <1>6, <1>9, <1>11, <2>5, <3>1, <3>2, <3>3, <3>4
  <2>6. QED BY <1>1, <1>3, <2>1, <2>2, <2>3, <2>4, <2>5 DEF Initializing, InitializeIfNeeded
<1> HIDE DEF c0, c1, c2, c3, c4
<1>14. ImageComplete(disk', chosen)
  <2>1. CASE disk'.first_index = None
    BY <1>13, <2>1 DEF ImageComplete
  <2>2. CASE disk'.first_index = 1
    <3>1. FirstIndex(disk') = 1 /\ LastIndex(disk') = 0 /\ disk'.hard_state # None
          /\ disk'.hard_state.commit = 0 /\ disk'.first_index # None
      BY <1>10, <1>13, <2>2 DEF FirstIndex, LoadIndex
    <3>2. QED BY <3>1 DEF ImageComplete
  <2>3. QED BY <1>13, <2>1, <2>2
<1>15. ImagesComplete'
  <2>1. \A img \in past' : /\ ImageComplete(img, chosen) /\ img.entries = disk'.entries
                           /\ LastIndex(img) = LastIndex(disk')
    BY <1>9, <1>13, <1>14 DEF Logs, ImagesComplete
  <2>2. disk'.hard_state = None => \A img \in past' : img.first_index = None
    BY <1>12, <1>13
  <2>3. QED BY <1>2, <2>1, <2>2 DEF ImagesComplete
<1>16. acked = <<>>
  <2>1. Len(acked) <= 0 /\ acked \in Seq(Entry)
    BY <1>9 DEF Logs, AckedStored, Types, IsLog
  <2>2. QED BY <2>1
<1>17. AckedStored'
  BY <1>2, <1>13, <1>16 DEF AckedStored
<1>18. Initializing'
  <2>1. \A img \in past' : img.first_index \in {None, 1} /\ LastIndex(img) = 0
    BY <1>9, <1>13
  <2>2. QED BY <1>13, <2>1 DEF Initializing, c1, c2, c3, c4
<1>19. QED BY <1>2, <1>15, <1>17, <1>18 DEF Logs

\* Between two Readys all is stored.
LEMMA IdleStored ==
    ASSUME Types, Logs, Idle
    PROVE  LogStored /\ CommitStored /\ LogAgrees /\ NodeBehind
<1>1. mode = "running" /\ code = <<>>
  BY DEF Idle
<1>2. LogAgrees /\ NodeBehind /\ (Working \/ Snapshotting(NodeSnapshot))
  BY <1>1 DEF Logs
<1>3. CASE Working
  BY <1>1, <1>2, <1>3 DEF Working
<1>4. CASE Snapshotting(NodeSnapshot)
  BY <1>2, <1>4 DEF Snapshotting
<1>5. QED BY <1>2, <1>3, <1>4

\* Instructions that only apply, send or take a snapshot.
LEMMA WorksOther ==
    ASSUME NEW x, x.op \in {"apply", "send", "snapshot"}, NEW log, NEW images, NEW first, NEW hs
    PROVE  Works(x, log, images, first, hs)
BY DEF Works, IsAppend, IsHard

\* The instruction that stores a hard state.
LEMMA WorksHard ==
    ASSUME NEW hs, NEW x, x = Sync([hard_state |-> hs]), NEW log, NEW images, NEW first
    PROVE  Works(x, log, images, first, hs) /\ IsHard(x) /\ ~ IsAppend(x)
BY DEF Works, IsAppend, IsHard, Sync

\* ReadyVote.
LEMMA LogsReadyVote ==
    ASSUME Types, Logs, Types', NEW t \in raft.term .. MaxTerm, NEW v \in Peer \cup {0},
           ReadyVote(t, v)
    PROVE  Logs'
<1>1. Idle /\ mode' = "running" /\ UNCHANGED <<disk, past, cache, node, chosen, acked>>
  BY DEF ReadyVote, Idle, diskVars, ghostVars
<1>2. ImagesComplete' /\ AckedStored'
  BY <1>1, ImagesStay DEF Logs, AckedStored
<1>3. LogStored /\ CommitStored /\ LogAgrees /\ NodeBehind
  BY <1>1, IdleStored
<1>4. raft' = [raft EXCEPT !.term = t, !.vote = v] /\ RaftOK
  BY DEF ReadyVote, Types
<1>5. /\ raft'.log = raft.log /\ raft'.commit = raft.commit /\ raft'.applied = raft.applied
      /\ raft'.term = t /\ raft'.vote = v
  BY <1>4 DEF RaftOK
<1>6. LogStored' /\ CommitStored' /\ LogAgrees' /\ NodeBehind'
  BY <1>1, <1>3, <1>5 DEF LogStored, CommitStored, LogAgrees, NodeBehind
<1>7. PICK hs : hs = [term |-> t, vote |-> v, commit |-> raft.commit]
  OBVIOUS
<1>8. PICK r : r = [snap |-> None, now |-> raft.applied, entries |-> <<>>, hs |-> hs,
                    commit |-> None, later |-> raft.applied]
  OBVIOUS
<1>9. PICK s : s = code'
  OBVIOUS
<1>10. s = OnReady(r)
  BY <1>7, <1>8, <1>9 DEF ReadyVote
<1>11. r.snap = None /\ r.commit = None /\ r.entries = <<>> /\ r.hs = hs
  BY <1>8
<1>12. \A k \in DOMAIN s : s[k] = Sync([hard_state |-> hs])
                           \/ s[k].op \in {"apply", "send", "snapshot"}
  BY <1>10, <1>11, ReadyOrder
<1>13. hs = RaftHardState'
  BY <1>5, <1>7 DEF RaftHardState
<1>14. \A k \in DOMAIN s : Works(s[k], raft'.log, past', disk'.first_index, hs)
  BY <1>12, WorksOther, WorksHard
<1>15. Working'
  BY <1>6, <1>9, <1>13, <1>14 DEF Working
<1>16. QED BY <1>1, <1>2, <1>6, <1>15 DEF Logs

\* ReadyLog: the append brings the new log, ahead of what depends on it.
LEMMA LogsReadyLog ==
    ASSUME Types, Logs, Types', NEW i, NEW es, NEW c, NEW way, ReadyLogInput(i, es, c, way)
    PROVE  Logs'
<1> USE NoneIsNoValue
<1>1. Idle /\ mode' = "running" /\ UNCHANGED <<disk, past, cache, node>>
  BY DEF ReadyLogInput, ReadyLog, Idle, diskVars
<1>2. LogStored /\ CommitStored /\ LogAgrees /\ NodeBehind
  BY <1>1, IdleStored
<1>3. PICK log : log = LogAfter(raft.log, i, es)
  OBVIOUS
<1>4. /\ raft'.term = raft.term /\ raft'.vote = raft.vote /\ raft'.commit = c
      /\ raft'.applied = raft.applied /\ raft'.log = log
      /\ i \in Nat /\ i > raft.commit /\ c \in Nat /\ c >= raft.commit /\ c <= Len(log)
      /\ Len(log) = IF es = <<>> THEN i - 1 ELSE i
  BY <1>3, ReadyLogFacts
<1>5. /\ \A j \in 1 .. i - 1 : log[j] = raft.log[j]
      /\ es = <<>> => i = Len(raft.log) + 1
      /\ es # <<>> => i <= MaxIndex /\ \E e \in Entry : e.index = i /\ es = <<e>>
      /\ es # <<>> => log[i] = es[1]
      /\ i <= Len(raft.log) + 1
  <2>1. es = <<>> => i = Len(raft.log) + 1
    BY ReadyLogFacts
  <2>2. es # <<>> => i <= MaxIndex /\ \E e \in Entry : e.index = i /\ es = <<e>>
    <3>1. RaftOK
      BY DEF Types
    <3>2. QED BY <1>4, <3>1, NewEntryType DEF ReadyLogInput
  <2>3. i \in Nat /\ i <= Len(raft.log) + 1
    BY ReadyLogFacts
  <2>4. PICK l : l = raft.log
    OBVIOUS
  <2>5. IsLog(l) /\ i \in 1 .. Len(l) + 1
    <3>1. IsLog(raft.log)
      BY DEF Types, RaftOK
    <3>2. Len(raft.log) \in Nat
      BY <3>1 DEF IsLog
    <3>3. raft.commit \in Nat
      BY DEF Types, RaftOK
    <3>4. QED BY <1>4, <2>3, <2>4, <3>1, <3>2, <3>3
  <2>6. es # <<>> => i <= MaxIndex /\ (\E e \in Entry : e.index = i /\ es = <<e>>)
    BY <2>2
  <2>7. /\ \A j \in 1 .. i - 1 : LogAfter(l, i, es)[j] = l[j]
        /\ es # <<>> => LogAfter(l, i, es)[i] = es[1]
    BY <2>5, <2>6, LogAfterProperties
  <2>8. QED BY <1>3, <2>1, <2>2, <2>3, <2>4, <2>7
<1>6. /\ \A j \in 1 .. Len(chosen) : chosen'[j] = chosen[j]
      /\ \A j \in 1 .. c : chosen'[j] = raft'.log[j]
      /\ Len(acked') <= Len(acked) /\ Len(acked') \in Nat /\ Len(acked) \in Nat
      /\ \A j \in DOMAIN acked' : acked'[j] = acked[j] /\ j \in DOMAIN acked
      /\ es # <<>> => Len(acked') < i
      /\ IsLog(acked')
  BY ReadyLogGhosts
<1>7. ImagesComplete'
  BY <1>1, <1>6, ImagesStay
<1>8. disk \in past /\ FirstIndex(disk) \in Nat /\ LastIndex(disk) \in Nat
      /\ \A img \in past : FirstIndex(img) \in Nat
  BY Indices DEF Types
<1>9. AckedStored'
  BY <1>1, <1>6, <1>8 DEF Logs, AckedStored
<1>10. RaftOK /\ raft.commit \in Nat /\ raft.applied \in Nat /\ raft.applied <= raft.commit
       /\ Len(raft.log) \in Nat /\ raft.commit <= Len(raft.log)
  <2>1. RaftOK
    BY DEF Types
  <2>2. raft.commit \in Nat /\ raft.applied \in Nat /\ raft.applied <= raft.commit
        /\ IsLog(raft.log) /\ raft.commit <= Len(raft.log)
    BY <2>1 DEF RaftOK
  <2>3. Len(raft.log) \in Nat
    BY <2>2 DEF IsLog
  <2>4. QED BY <2>1, <2>2, <2>3
<1>11. LogAgrees'
  <2>1. \A img \in past : \A j \in DOMAIN acked' :
           j >= FirstIndex(img) => j <= Len(log) /\ log[j] = acked'[j]
    <3> SUFFICES ASSUME NEW img \in past, NEW j \in DOMAIN acked', j >= FirstIndex(img)
                 PROVE  j <= Len(log) /\ log[j] = acked'[j]
      OBVIOUS
    <3>1. j <= Len(raft.log) /\ raft.log[j] = acked'[j]
      BY <1>2, <1>6 DEF LogAgrees
    <3>2. j \in Nat /\ j >= 1 /\ j <= Len(acked')
      BY <1>6 DEF IsLog
    <3>3. j \in 1 .. i - 1 /\ j <= Len(log)
      BY <1>4, <1>5, <1>6, <1>10, <3>1, <3>2
    <3>4. QED BY <1>5, <3>1, <3>3
  <2>2. disk.first_index # None /\ cache = LoadCaches(disk) /\ disk.hard_state.commit <= raft.commit
        /\ \A img \in past : FirstIndex(img) <= raft.applied + 1
    BY <1>2 DEF LogAgrees
  <2>3. disk.hard_state.commit <= c
    BY <1>2, <1>4, <1>10 DEF CommitStored
  <2>4. \A j \in 1 .. c : log[j] = chosen'[j]
    BY <1>4, <1>6
  <2>5. QED BY <1>1, <1>4, <2>1, <2>2, <2>3, <2>4 DEF LogAgrees
<1>12. NodeBehind'
  BY <1>1, <1>2, <1>4 DEF NodeBehind
<1>13. PICK r : r = LogReady(i, es, c, way, raft.term, raft.vote, raft.commit)
  OBVIOUS
<1>14. PICK s : s = code'
  OBVIOUS
<1>15. /\ s = OnReady(r) /\ r.snap = None /\ (r.hs = None \/ r.commit = None)
       /\ r.entries = es
       /\ r.hs # None => r.hs = [term |-> raft.term, vote |-> raft.vote, commit |-> c]
       /\ r.commit # None => r.commit = c
       /\ c > raft.commit => r.hs # None \/ r.commit # None
  BY <1>13, <1>14, LogReadyProperties
<1>16. /\ \A k \in DOMAIN s :
             \/ r.entries # <<>> /\ s[k] = AppendI(r.entries)
             \/ r.hs # None /\ s[k] = Sync([hard_state |-> r.hs])
             \/ r.commit # None /\ s[k] = CommitI(r.commit)
             \/ s[k].op \in {"apply", "send", "snapshot"}
       /\ r.entries # <<>> => \E p \in DOMAIN s :
             s[p] = AppendI(r.entries) /\ \A k \in DOMAIN s : k < p => s[k].op = "apply"
       /\ r.hs # None => \E p \in DOMAIN s :
             /\ s[p] = Sync([hard_state |-> r.hs])
             /\ \A k \in DOMAIN s : s[k].op \in {"send", "snapshot"} => p < k
       /\ r.commit # None => \E p \in DOMAIN s :
             /\ s[p] = CommitI(r.commit)
             /\ \A k \in DOMAIN s : s[k].op = "snapshot" => p < k
  BY <1>15, ReadyOrder
<1>17. PICK hs : hs = [term |-> raft.term, vote |-> raft.vote, commit |-> c]
  OBVIOUS
<1>18. hs = RaftHardState' /\ hs.commit = c
  BY <1>4, <1>17 DEF RaftHardState
<1>19. PICK a : a = AppendI(es)
  OBVIOUS
<1>20. ASSUME es # <<>>
       PROVE  /\ IsAppend(a) /\ ~ IsHard(a) /\ ~ NeedsLog(a)
              /\ Works(a, log, past, disk.first_index, hs)
  <2>1. PICK e \in Entry : e.index = i /\ es = <<e>>
    BY <1>5, <1>20
  <2>2. EntriesOK(disk.entries)
    BY DEF Types, Image
  <2>3. PICK keys : keys = AppendI(es).keys
    OBVIOUS
  <2>4. /\ DOMAIN keys.entries = DOMAIN disk.entries \cup {e.index}
        /\ keys.entries[e.index] = e
        /\ \A j \in DOMAIN disk.entries : j # e.index => keys.entries[j] = disk.entries[j]
        /\ keys.last_index = e.index
        /\ cache.last = 0 => keys.first_index = e.index
        /\ "entries" \in DOMAIN keys /\ "last_index" \in DOMAIN keys
        /\ DOMAIN keys \subseteq {"entries", "last_index", "first_index"}
        /\ "first_index" \in DOMAIN keys <=> cache.last = 0
    BY <2>1, <2>2, <2>3, AppendedEntry
  <2>5. a.op = "put" /\ a.sync = "sync" /\ a.keys = keys
    BY <1>19, <1>20, <2>3, AppendShape
  <2>6. es[1] = e
    BY <2>1
  <2>7. \A img \in past : \A j \in 1 .. Len(log) : Holds(keys.entries, img, j, log[j])
    <3> SUFFICES ASSUME NEW img \in past, NEW j \in 1 .. Len(log), j >= FirstIndex(img)
                 PROVE  j \in DOMAIN keys.entries /\ keys.entries[j] = log[j]
      BY DEF Holds
    <3>1. CASE j = i
      BY <1>5, <1>20, <2>1, <2>4, <2>6, <3>1
    <3>2. CASE j # i
      <4>1. j \in 1 .. i - 1 /\ j \in 1 .. Len(raft.log)
        BY <1>4, <1>5, <1>10, <1>20, <3>2
      <4>2. Holds(disk.entries, img, j, raft.log[j])
        BY <1>2, <4>1 DEF LogStored
      <4>3. j \in DOMAIN disk.entries /\ disk.entries[j] = raft.log[j]
        BY <4>2 DEF Holds
      <4>4. QED BY <1>5, <2>1, <2>4, <3>2, <4>1, <4>3
    <3>3. QED BY <3>1, <3>2
  <2>8. "first_index" \in DOMAIN keys => keys.first_index = disk.first_index
    <3>1. SUFFICES ASSUME cache.last = 0 PROVE i = disk.first_index
      BY <2>1, <2>4
    <3>2. cache = LoadCaches(disk) /\ disk.first_index # None
          /\ FirstIndex(disk) <= raft.applied + 1
      BY <1>2, <1>8 DEF LogAgrees
    <3>3. LastIndex(disk) = 0
      BY <3>1, <3>2 DEF LoadCaches, LastIndex
    <3>4. Len(raft.log) = 0
      BY <1>2, <3>3 DEF LogStored
    <3>5. i = 1 /\ raft.applied = 0
      BY <1>4, <1>5, <1>10, <3>4
    <3>6. FirstIndex(disk) > 0 /\ FirstIndex(disk) = disk.first_index
      BY <1>8, <3>2, Indices DEF Logs, ImagesComplete, ImageComplete
    <3>7. QED BY <1>8, <3>2, <3>5, <3>6
  <2>9. Len(log) = i
    BY <1>4, <1>20
  <2>10. AppendOK(keys, log, past, disk.first_index)
    BY <2>1, <2>4, <2>7, <2>8, <2>9 DEF AppendOK
  <2>11. QED BY <2>4, <2>5, <2>10 DEF Works, IsAppend, IsHard, NeedsLog
<1>21. \A k \in DOMAIN s : Works(s[k], log, past, disk.first_index, hs)
  <2> SUFFICES ASSUME NEW k \in DOMAIN s PROVE Works(s[k], log, past, disk.first_index, hs)
    OBVIOUS
  <2>1. CASE es # <<>> /\ s[k] = AppendI(es)
    BY <1>19, <1>20, <2>1
  <2>2. CASE r.hs # None /\ s[k] = Sync([hard_state |-> r.hs])
    BY <1>15, <1>17, <2>2, WorksHard
  <2>3. CASE r.commit # None /\ s[k] = CommitI(r.commit)
    BY <1>15, <1>18, <2>3 DEF Works, IsAppend, IsHard, CommitI
  <2>4. CASE s[k].op \in {"apply", "send", "snapshot"}
    BY <2>4, WorksOther
  <2>5. QED BY <1>15, <1>16, <2>1, <2>2, <2>3, <2>4
<1>22. \/ LogStored'
       \/ \E p \in DOMAIN s : IsAppend(s[p]) /\ \A k \in DOMAIN s : NeedsLog(s[k]) => p < k
  <2>1. CASE es = <<>>
    <3>1. Len(log) = Len(raft.log) /\ \A j \in 1 .. Len(raft.log) : log[j] = raft.log[j]
      BY <1>4, <1>5, <1>10, <2>1
    <3>2. LogStored'
      BY <1>1, <1>2, <1>4, <3>1 DEF LogStored
    <3>3. QED BY <3>2
  <2>2. CASE es # <<>>
    <3>1. PICK p \in DOMAIN s : s[p] = a /\ \A k \in DOMAIN s : k < p => s[k].op = "apply"
      BY <1>15, <1>16, <1>19, <2>2
    <3>2. DOMAIN s \subseteq Nat
      <4>1. s \in Seq(Range(s))
        BY <1>14 DEF Types, CodeOK
      <4>2. QED BY <4>1
    <3>3. \A k \in DOMAIN s : NeedsLog(s[k]) => p < k
      <4> SUFFICES ASSUME NEW k \in DOMAIN s, NeedsLog(s[k]) PROVE p < k
        OBVIOUS
      <4>1. s[k].op # "apply"
        BY DEF NeedsLog, IsHard
      <4>2. k # p
        BY <1>20, <2>2, <3>1
      <4>3. QED BY <3>1, <3>2, <4>1, <4>2
    <3>4. QED BY <1>20, <2>2, <3>1, <3>3
  <2>3. QED BY <2>1, <2>2
<1>23. \/ CommitStored'
       \/ \E p \in DOMAIN s :
             StoresCommit(s[p]) /\ \A k \in DOMAIN s : s[k].op = "snapshot" => p < k
  <2>1. CASE ~ (c > raft.commit)
    <3>1. c = raft.commit
      BY <1>4, <1>10, <2>1
    <3>2. QED BY <1>1, <1>2, <1>4, <3>1 DEF CommitStored
  <2>2. CASE r.hs # None
    <3>1. IsHard(Sync([hard_state |-> r.hs]))
      BY DEF IsHard, Sync
    <3>2. QED BY <1>16, <2>2, <3>1 DEF StoresCommit
  <2>3. CASE r.commit # None
    <3>1. CommitI(r.commit).op = "commit"
      BY DEF CommitI
    <3>2. QED BY <1>16, <2>3, <3>1 DEF StoresCommit
  <2>4. QED BY <1>15, <2>1, <2>2, <2>3
<1>24. Working'
  BY <1>1, <1>4, <1>14, <1>18, <1>21, <1>22, <1>23 DEF Working
<1>25. QED BY <1>1, <1>7, <1>9, <1>11, <1>12, <1>24 DEF Logs


\* ReadySnapshot: nothing is claimed from here on.
LEMMA LogsReadySnapshot ==
    ASSUME Types, NEW more, ReadySnapshotInput(more)
    PROVE  ~ NotInstalled'
BY DEF ReadySnapshotInput, ReadySnapshot, NotInstalled

\* The numbers of raft-rs.
LEMMA RaftNumbers ==
    ASSUME Types
    PROVE  /\ raft.commit \in Nat /\ raft.applied \in Nat /\ raft.applied <= raft.commit
           /\ IsLog(raft.log) /\ Len(raft.log) \in Nat /\ raft.commit <= Len(raft.log)
           /\ node.committed_index \in Nat /\ node.last_snapshot \in Nat
<1>1. RaftOK /\ NodeOK
  BY DEF Types
<1>2. /\ raft.commit \in Nat /\ raft.applied \in Nat /\ raft.applied <= raft.commit
      /\ IsLog(raft.log) /\ raft.commit <= Len(raft.log)
  BY <1>1 DEF RaftOK
<1>3. node.committed_index \in Nat /\ node.last_snapshot \in Nat
  BY <1>1 DEF NodeOK
<1>4. Len(raft.log) \in Nat
  BY <1>2 DEF IsLog
<1>5. QED BY <1>2, <1>3, <1>4

\* An instruction that needs the log finds it stored.
LEMMA FirstNeedsLog ==
    ASSUME Types, Working, code # <<>>, NeedsLog(code[1])
    PROVE  LogStored
<1>1. 1 \in DOMAIN code /\ DOMAIN code \subseteq Nat \ {0}
  BY TailOfCode DEF Types, CodeOK
<1>2. QED BY <1>1 DEF Working

\* A snapshot finds the commit index stored.
LEMMA SnapshotNeedsCommit ==
    ASSUME Types, Working, code # <<>>, code[1].op = "snapshot"
    PROVE  CommitStored
<1>1. 1 \in DOMAIN code /\ DOMAIN code \subseteq Nat \ {0}
  BY TailOfCode DEF Types, CodeOK
<1>2. QED BY <1>1 DEF Working

\* An instruction is executed, and what it stores is stored.
LEMMA WorkingShift ==
    ASSUME Types, Working, code # <<>>, code' = Tail(code),
           \A k \in DOMAIN code : k > 1 =>
              Works(code[k], raft'.log, past', disk'.first_index, RaftHardState'),
           \/ LogStored'
           \/ ~ IsAppend(code[1]) /\ (LogStored => LogStored'),
           \/ CommitStored'
           \/ ~ StoresCommit(code[1]) /\ (CommitStored => CommitStored')
    PROVE  Working'
<1>1. /\ Len(code) \in Nat \ {0} /\ DOMAIN code = 1 .. Len(code)
      /\ DOMAIN Tail(code) = 1 .. Len(code) - 1
      /\ \A k \in 1 .. Len(code) - 1 : k + 1 \in DOMAIN code /\ Tail(code)[k] = code[k + 1]
  BY TailOfCode DEF Types, CodeOK
<1>2. PICK new : new = Tail(code)
  OBVIOUS
<1>3. /\ code' = new /\ DOMAIN new = 1 .. Len(code) - 1
      /\ \A k \in DOMAIN new : k + 1 \in DOMAIN code /\ new[k] = code[k + 1]
  BY <1>1, <1>2
<1>4. \A k \in DOMAIN new : Works(new[k], raft'.log, past', disk'.first_index, RaftHardState')
  <2> SUFFICES ASSUME NEW k \in DOMAIN new
               PROVE  Works(new[k], raft'.log, past', disk'.first_index, RaftHardState')
    OBVIOUS
  <2>1. k + 1 \in DOMAIN code /\ k + 1 > 1 /\ new[k] = code[k + 1]
    BY <1>1, <1>3
  <2>2. QED BY <2>1
<1>5. ASSUME ~ LogStored'
      PROVE  \E p \in DOMAIN new : IsAppend(new[p]) /\ \A k \in DOMAIN new : NeedsLog(new[k]) => p < k
  <2>1. ~ IsAppend(code[1]) /\ ~ LogStored
    BY <1>5
  <2>2. PICK p \in DOMAIN code :
           IsAppend(code[p]) /\ \A k \in DOMAIN code : NeedsLog(code[k]) => p < k
    BY <2>1 DEF Working
  <2>3. p # 1
    BY <2>1, <2>2
  <2>4. p - 1 \in DOMAIN new /\ new[p - 1] = code[p]
    BY <1>1, <1>3, <2>3
  <2>5. \A k \in DOMAIN new : NeedsLog(new[k]) => p - 1 < k
    BY <1>1, <1>3, <2>2
  <2>6. QED BY <2>2, <2>4, <2>5
<1>6. ASSUME ~ CommitStored'
      PROVE  \E p \in DOMAIN new :
                StoresCommit(new[p]) /\ \A k \in DOMAIN new : new[k].op = "snapshot" => p < k
  <2>1. ~ StoresCommit(code[1]) /\ ~ CommitStored
    BY <1>6
  <2>2. PICK p \in DOMAIN code :
           StoresCommit(code[p]) /\ \A k \in DOMAIN code : code[k].op = "snapshot" => p < k
    BY <2>1 DEF Working
  <2>3. p # 1
    BY <2>1, <2>2
  <2>4. p - 1 \in DOMAIN new /\ new[p - 1] = code[p]
    BY <1>1, <1>3, <2>3
  <2>5. \A k \in DOMAIN new : new[k].op = "snapshot" => p - 1 < k
    BY <1>1, <1>3, <2>2
  <2>6. QED BY <2>2, <2>4, <2>5
<1>7. QED BY <1>3, <1>4, <1>5, <1>6 DEF Working

\* After a synchronous write that leaves first_index, one image is left.
LEMMA WorksAfter ==
    ASSUME NEW x, NEW log, NEW images, NEW first, NEW hs, NEW img \in images, NEW new,
           FirstIndex(new) = FirstIndex(img), Works(x, log, images, first, hs)
    PROVE  Works(x, log, {new}, first, hs)
<1>1. ASSUME IsAppend(x)
      PROVE  AppendOK(x.keys, log, {new}, first)
  <2>1. AppendOK(x.keys, log, images, first)
    BY <1>1 DEF Works
  <2>2. \A i \in 1 .. Len(log) : Holds(x.keys.entries, img, i, log[i])
    BY <2>1 DEF AppendOK
  <2>3. \A i \in 1 .. Len(log) : Holds(x.keys.entries, new, i, log[i])
    BY <2>2 DEF Holds
  <2>4. QED BY <2>1, <2>3 DEF AppendOK
<1>2. QED BY <1>1 DEF Works


\* A synchronous write after which the log of raft-rs is stored.
LEMMA SyncWrite ==
    ASSUME Types, Types', Logs, mode = "running", past' = {disk'},
           UNCHANGED <<mode, raft, node, chosen, acked>>,
           disk'.first_index = disk.first_index, disk'.snapshot = disk.snapshot,
           LastIndex(disk') = Len(raft.log),
           \A i \in 1 .. Len(raft.log) : Holds(disk'.entries, disk, i, raft.log[i]),
           disk'.hard_state # None, disk'.hard_state.commit \in Nat,
           disk.hard_state.commit <= disk'.hard_state.commit,
           disk'.hard_state.commit <= raft.commit,
           cache' = LoadCaches(disk')
    PROVE  ImagesComplete' /\ AckedStored' /\ LogAgrees' /\ NodeBehind' /\ LogStored'
<1>1. LogAgrees /\ NodeBehind
  BY DEF Logs
<1>2. disk \in past /\ FirstIndex(disk) \in Nat
  BY Indices DEF Types
<1>3. FirstIndex(disk') = FirstIndex(disk) /\ disk'.first_index # None
  BY <1>1 DEF FirstIndex, LogAgrees
<1>4. /\ raft.commit \in Nat /\ raft.applied \in Nat /\ raft.applied <= raft.commit
      /\ Len(raft.log) \in Nat /\ raft.commit <= Len(raft.log)
  BY RaftNumbers
<1>5. /\ FirstIndex(disk) > 0 /\ FirstIndex(disk) - 1 <= disk.hard_state.commit
      /\ disk.hard_state.commit \in Nat
      /\ FirstIndex(disk) > 1 => disk.snapshot # None /\ FirstIndex(disk) - 1 <= disk.snapshot.index
  <2>1. ImageComplete(disk, chosen) /\ disk.first_index # None
    BY <1>1, <1>2 DEF Logs, ImagesComplete, LogAgrees
  <2>2. disk.hard_state # None
    BY <2>1 DEF ImageComplete
  <2>3. disk.hard_state.commit \in Nat
    BY <1>2, <2>2, Indices
  <2>4. QED BY <2>1, <2>3 DEF ImageComplete
<1>6. \A i \in Nat : i >= FirstIndex(disk) /\ i <= Len(raft.log) =>
         i \in DOMAIN disk'.entries /\ disk'.entries[i] = raft.log[i]
  <2> SUFFICES ASSUME NEW i \in Nat, i >= FirstIndex(disk), i <= Len(raft.log)
               PROVE  i \in DOMAIN disk'.entries /\ disk'.entries[i] = raft.log[i]
    OBVIOUS
  <2>1. i \in 1 .. Len(raft.log)
    BY <1>2, <1>4, <1>5
  <2>2. QED BY <2>1 DEF Holds
<1>7. ImageComplete(disk', chosen)
  <2>1. \A i \in FirstIndex(disk') .. LastIndex(disk') : i \in DOMAIN disk'.entries
    BY <1>2, <1>3, <1>4, <1>6
  <2>2. \A i \in FirstIndex(disk') .. disk'.hard_state.commit : disk'.entries[i] = chosen[i]
    <3> SUFFICES ASSUME NEW i \in FirstIndex(disk') .. disk'.hard_state.commit
                 PROVE  disk'.entries[i] = chosen[i]
      OBVIOUS
    <3>1. i \in Nat /\ i >= FirstIndex(disk) /\ i <= Len(raft.log) /\ i \in 1 .. raft.commit
      BY <1>2, <1>3, <1>4, <1>5
    <3>2. raft.log[i] = chosen[i]
      BY <1>1, <3>1 DEF LogAgrees
    <3>3. QED BY <1>6, <3>1, <3>2
  <2>3. FirstIndex(disk') - 1 <= disk'.hard_state.commit /\ disk'.hard_state.commit <= LastIndex(disk')
    BY <1>2, <1>3, <1>4, <1>5
  <2>4. QED BY <1>3, <1>5, <2>1, <2>2, <2>3 DEF ImageComplete
<1>8. ImagesComplete'
  BY <1>7 DEF ImagesComplete
<1>9. \A i \in DOMAIN acked : i \in Nat /\ (i >= FirstIndex(disk) => i <= Len(raft.log) /\ raft.log[i] = acked[i])
  <2>1. DOMAIN acked \subseteq Nat
    BY DEF Types, IsLog
  <2>2. QED BY <1>1, <1>2, <2>1 DEF LogAgrees
<1>10. AckedStored'
  <2>1. Len(acked) <= Len(raft.log)
    <3>1. acked \in Seq(Entry) /\ Len(acked) \in Nat /\ DOMAIN acked = 1 .. Len(acked)
      BY DEF Types, IsLog
    <3>2. FirstIndex(disk) <= raft.applied + 1
      BY <1>1, <1>2 DEF LogAgrees
    <3>3. CASE Len(acked) > Len(raft.log)
      <4>1. Len(acked) \in DOMAIN acked /\ Len(acked) >= FirstIndex(disk)
        BY <1>2, <1>4, <3>1, <3>2, <3>3
      <4>2. QED BY <1>9, <4>1
    <3>4. QED BY <1>4, <3>1, <3>3
  <2>2. \A i \in DOMAIN acked : Holds(disk'.entries, disk', i, acked[i])
    BY <1>3, <1>6, <1>9 DEF Holds
  <2>3. QED BY <2>1, <2>2 DEF AckedStored
<1>11. LogAgrees'
  <2>1. \A i \in 1 .. raft.commit : raft.log[i] = chosen[i]
    BY <1>1 DEF LogAgrees
  <2>2. FirstIndex(disk) <= raft.applied + 1
    BY <1>1, <1>2 DEF LogAgrees
  <2>3. QED BY <1>3, <1>9, <2>1, <2>2 DEF LogAgrees
<1>12. NodeBehind'
  BY <1>1, <1>2, <1>3 DEF NodeBehind
<1>13. LogStored'
  BY <1>3 DEF LogStored, Holds
<1>14. QED BY <1>8, <1>10, <1>11, <1>12, <1>13

\* A write of on_ready stores the entries.
LEMMA LogsAppendPut ==
    ASSUME Types, Types', Votes, Logs, DoPut, mode = "running", Working, IsAppend(code[1])
    PROVE  Logs'
<1>1. /\ code # <<>> /\ Head(code) = code[1] /\ 1 \in DOMAIN code /\ code[1].op = "put"
  BY AtFacts DEF DoPut
<1>2. UNCHANGED <<mode, raft, node, chosen, acked>> /\ code' = Tail(code)
  BY DEF DoPut, ghostVars
<1>3. PICK keys : keys = code[1].keys
  OBVIOUS
<1>4. Works(code[1], raft.log, past, disk.first_index, RaftHardState)
  BY <1>1 DEF Working
<1>5. AppendOK(keys, raft.log, past, disk.first_index) /\ code[1].sync = "sync"
  BY <1>1, <1>3, <1>4 DEF Works
<1>6. disk' = Put(disk, keys) /\ past' = {disk'} /\ cache' = CacheAfter(cache, keys)
  BY <1>1, <1>3, <1>5 DEF DoPut
<1>7. disk \in past /\ DOMAIN disk = Fields
  BY DEF Types, Image
<1>8. /\ "hard_state" \notin DOMAIN keys /\ "snapshot" \notin DOMAIN keys
      /\ "entries" \in DOMAIN keys /\ "last_index" \in DOMAIN keys
      /\ "first_index" \in DOMAIN keys => keys.first_index = disk.first_index
      /\ keys.last_index = Len(raft.log)
  BY <1>5 DEF AppendOK
<1>9. /\ disk'.hard_state = disk.hard_state /\ disk'.first_index = disk.first_index
      /\ disk'.entries = keys.entries /\ disk'.last_index = Len(raft.log)
      /\ disk'.snapshot = disk.snapshot
  BY <1>6, <1>7, <1>8, PutProperties
<1>10. Len(raft.log) \in Nat /\ raft.commit \in Nat
  BY RaftNumbers
<1>11. LogAgrees /\ disk.first_index # None
  BY DEF Logs, LogAgrees
<1>12. LastIndex(disk') = Len(raft.log)
  BY <1>9, <1>10, NoneIsNoValue DEF LastIndex, LoadIndex
<1>13. \A i \in 1 .. Len(raft.log) : Holds(disk'.entries, disk, i, raft.log[i])
  BY <1>5, <1>7, <1>9 DEF AppendOK
<1>14. disk.hard_state # None
  BY DEF Votes, VotesPending
<1>15. disk.hard_state.commit \in Nat /\ disk.hard_state.commit <= raft.commit
  BY <1>7, <1>11, <1>14, Indices DEF LogAgrees
<1>16. cache' = LoadCaches(disk')
  <2>1. cache = [first |-> LoadIndex(disk.first_index), last |-> LoadIndex(disk.last_index)]
    BY <1>11 DEF LogAgrees, LoadCaches
  <2>2. LoadIndex(disk.first_index) = disk.first_index /\ LoadIndex(Len(raft.log)) = Len(raft.log)
    BY <1>10, <1>11, NoneIsNoValue DEF LoadIndex
  <2>3. cache'.first = disk.first_index /\ cache'.last = Len(raft.log)
        /\ cache' = [first |-> cache'.first, last |-> cache'.last]
    BY <1>6, <1>8, <2>1, <2>2 DEF CacheAfter
  <2>4. QED BY <1>9, <2>2, <2>3 DEF LoadCaches
<1>17. ImagesComplete' /\ AckedStored' /\ LogAgrees' /\ NodeBehind' /\ LogStored'
  BY <1>2, <1>6, <1>9, <1>12, <1>13, <1>14, <1>15, <1>16, SyncWrite
<1>18. \A k \in DOMAIN code : k > 1 =>
          Works(code[k], raft'.log, past', disk'.first_index, RaftHardState')
  <2> SUFFICES ASSUME NEW k \in DOMAIN code
               PROVE  Works(code[k], raft'.log, past', disk'.first_index, RaftHardState')
    OBVIOUS
  <2>1. Works(code[k], raft.log, past, disk.first_index, RaftHardState)
    BY DEF Working
  <2>2. FirstIndex(disk') = FirstIndex(disk) /\ RaftHardState' = RaftHardState
    BY <1>2, <1>9 DEF FirstIndex, RaftHardState
  <2>3. PICK x, log, images, first, hs, img, new :
           /\ x = code[k] /\ log = raft.log /\ images = past /\ first = disk.first_index
           /\ hs = RaftHardState /\ img = disk /\ new = disk'
    OBVIOUS
  <2>4. img \in images /\ FirstIndex(new) = FirstIndex(img) /\ Works(x, log, images, first, hs)
    BY <1>7, <2>1, <2>2, <2>3
  <2>5. Works(x, log, {new}, first, hs)
    BY <2>4, WorksAfter
  <2>6. QED BY <1>2, <1>6, <1>9, <2>2, <2>3, <2>5
<1>19. ~ StoresCommit(code[1]) /\ (CommitStored => CommitStored')
  BY <1>1, <1>2, <1>3, <1>8, <1>9 DEF StoresCommit, IsHard, CommitStored
<1>20. Working'
  BY <1>1, <1>2, <1>17, <1>18, <1>19, WorkingShift
<1>21. QED BY <1>2, <1>17, <1>20 DEF Logs


\* A synchronous write of a hard state with the commit index of raft-rs.
LEMMA HardWrite ==
    ASSUME Types, Types', Votes, Logs, mode = "running", Working, LogStored, code # <<>>,
           code' = Tail(code), ~ IsAppend(code[1]), past' = {disk'},
           UNCHANGED <<mode, raft, node, chosen, acked, cache>>,
           disk'.first_index = disk.first_index, disk'.snapshot = disk.snapshot,
           disk'.entries = disk.entries, disk'.last_index = disk.last_index,
           disk'.hard_state # None, disk'.hard_state.commit = raft.commit
    PROVE  Logs'
<1>1. Len(raft.log) \in Nat /\ raft.commit \in Nat
  BY RaftNumbers
<1>2. disk \in past
  BY DEF Types
<1>3. LastIndex(disk') = Len(raft.log)
  BY DEF LogStored, LastIndex
<1>4. \A i \in 1 .. Len(raft.log) : Holds(disk'.entries, disk, i, raft.log[i])
  BY <1>2 DEF LogStored
<1>5. disk.hard_state.commit <= raft.commit
  BY DEF Logs, LogAgrees
<1>6. cache' = LoadCaches(disk')
  BY DEF Logs, LogAgrees, LoadCaches
<1>7. raft.commit <= raft.commit /\ disk'.hard_state.commit \in Nat
  BY <1>1
<1>8. ImagesComplete' /\ AckedStored' /\ LogAgrees' /\ NodeBehind' /\ LogStored'
  BY <1>3, <1>4, <1>5, <1>6, <1>7, SyncWrite
<1>9. \A k \in DOMAIN code : k > 1 =>
          Works(code[k], raft'.log, past', disk'.first_index, RaftHardState')
  <2> SUFFICES ASSUME NEW k \in DOMAIN code
               PROVE  Works(code[k], raft'.log, past', disk'.first_index, RaftHardState')
    OBVIOUS
  <2>1. Works(code[k], raft.log, past, disk.first_index, RaftHardState)
    BY DEF Working
  <2>2. FirstIndex(disk') = FirstIndex(disk) /\ RaftHardState' = RaftHardState
    BY DEF FirstIndex, RaftHardState
  <2>3. PICK x, log, images, first, hs, img, new :
           /\ x = code[k] /\ log = raft.log /\ images = past /\ first = disk.first_index
           /\ hs = RaftHardState /\ img = disk /\ new = disk'
    OBVIOUS
  <2>4. img \in images /\ FirstIndex(new) = FirstIndex(img) /\ Works(x, log, images, first, hs)
    BY <1>2, <2>1, <2>2, <2>3
  <2>5. Works(x, log, {new}, first, hs)
    BY <2>4, WorksAfter
  <2>6. QED BY <2>2, <2>3, <2>5
<1>10. CommitStored'
  BY DEF CommitStored
<1>11. Working'
  BY <1>8, <1>9, <1>10, WorkingShift
<1>12. QED BY <1>8, <1>11 DEF Logs

\* A write of on_ready stores the hard state.
LEMMA LogsHardPut ==
    ASSUME Types, Types', Votes, Logs, DoPut, mode = "running", Working, ~ IsAppend(code[1])
    PROVE  Logs'
<1>1. /\ code # <<>> /\ Head(code) = code[1] /\ 1 \in DOMAIN code /\ code[1].op = "put"
  BY AtFacts DEF DoPut
<1>2. UNCHANGED <<mode, raft, node, chosen, acked>> /\ code' = Tail(code)
  BY DEF DoPut, ghostVars
<1>3. PICK keys, hs : keys = code[1].keys /\ hs = RaftHardState
  OBVIOUS
<1>4. Works(code[1], raft.log, past, disk.first_index, RaftHardState)
  BY <1>1 DEF Working
<1>5. IsHard(code[1]) /\ keys = [hard_state |-> hs] /\ code[1].sync = "sync"
  BY <1>1, <1>3, <1>4 DEF Works
<1>6. disk' = Put(disk, keys) /\ past' = {disk'} /\ cache' = CacheAfter(cache, keys)
  BY <1>1, <1>3, <1>5 DEF DoPut
<1>7. disk \in past /\ DOMAIN disk = Fields
  BY DEF Types, Image
<1>8. DOMAIN keys = {"hard_state"} /\ keys.hard_state = hs
  BY <1>5
<1>9. /\ disk'.hard_state = hs /\ disk'.first_index = disk.first_index
      /\ disk'.entries = disk.entries /\ disk'.last_index = disk.last_index
      /\ disk'.snapshot = disk.snapshot
  BY <1>6, <1>7, <1>8, PutProperties
<1>10. cache' = cache
  <2>1. cache \in [first : Nat, last : Nat]
    BY DEF Types
  <2>2. cache' = [first |-> cache.first, last |-> cache.last]
    BY <1>6, <1>8 DEF CacheAfter
  <2>3. QED BY <2>1, <2>2
<1>11. hs.commit = raft.commit /\ hs \in HardState
  <2>1. RaftOK
    BY DEF Types
  <2>2. raft.term \in Nat /\ raft.vote \in Nat /\ raft.commit \in Nat
    BY <2>1 DEF RaftOK
  <2>3. QED BY <1>3, <2>2 DEF RaftHardState, HardState
<1>12. disk'.hard_state # None
  BY <1>9, <1>11, NoneIsNoValue
<1>13. LogStored
  BY <1>1, <1>5, FirstNeedsLog DEF NeedsLog
<1>14. QED BY <1>1, <1>2, <1>6, <1>9, <1>10, <1>11, <1>12, <1>13, HardWrite

\* The writes of a snapshot are puts.
LEMMA WorkingUnlessPut ==
    ASSUME Types, Logs, mode = "running", code # <<>>, code[1].op # "put"
    PROVE  Working
<1>1. ASSUME Snapshotting(NodeSnapshot) PROVE FALSE
  <2>1. PICK s : s = NodeSnapshot
    OBVIOUS
  <2>2. code[1].op = "put"
    BY <1>1, <2>1 DEF Snapshotting, apply_snapshot, Lazy
  <2>3. QED BY <2>2
<1>2. QED BY <1>1 DEF Logs

\* DoCommit: the commit index of raft-rs is stored.
LEMMA LogsCommit ==
    ASSUME Types, Types', Votes, Logs, DoCommit
    PROVE  Logs'
<1>1. /\ mode = "running" /\ disk.hard_state \in HardState
      /\ code # <<>> /\ code[1].op = "commit" /\ code[1].index \in 0 .. Len(chosen)
      /\ disk'.hard_state = [disk.hard_state EXCEPT !.commit = code[1].index]
      /\ \A f \in Fields : f # "hard_state" => disk'[f] = disk[f]
      /\ past' = {disk'} /\ code' = Tail(code)
      /\ UNCHANGED <<cache, mode, raft, node, chosen, acked>>
  BY CommitFacts
<1>2. 1 \in DOMAIN code
  BY <1>1, TailOfCode DEF Types, CodeOK
<1>3. Working
  BY <1>1, WorkingUnlessPut
<1>4. Works(code[1], raft.log, past, disk.first_index, RaftHardState)
  BY <1>2, <1>3 DEF Working
<1>5. code[1].index = raft.commit
  BY <1>1, <1>4 DEF Works, RaftHardState
<1>6. disk'.hard_state.commit = raft.commit /\ disk'.hard_state # None
  <2>1. PICK hs, c : hs = disk.hard_state /\ c = code[1].index
    OBVIOUS
  <2>2. hs \in HardState /\ c \in Nat /\ disk'.hard_state = [hs EXCEPT !.commit = c]
    BY <1>1, <2>1 DEF Types, IsLog
  <2>3. disk'.hard_state \in HardState /\ disk'.hard_state.commit = c
    BY <2>2 DEF HardState
  <2>4. QED BY <1>5, <2>1, <2>3, NoneIsNoValue
<1>7. LogStored
  BY <1>1, <1>3, FirstNeedsLog DEF NeedsLog
<1>8. ~ IsAppend(code[1])
  BY <1>1 DEF IsAppend
<1>9. /\ disk'.first_index = disk.first_index /\ disk'.entries = disk.entries
      /\ disk'.last_index = disk.last_index /\ disk'.snapshot = disk.snapshot
  BY <1>1 DEF Fields
<1>10. QED BY <1>1, <1>3, <1>6, <1>7, <1>8, <1>9, HardWrite


\* DoApply: what is applied stays ahead of the next snapshot.
LEMMA LogsApply ==
    ASSUME Types, Logs, DoApply
    PROVE  Logs'
<1>1. PICK c, cmds : c = code[1].upto /\ cmds = Commands(raft.log, raft.applied, c)
  OBVIOUS
<1>2. /\ c \in raft.applied .. raft.commit /\ c \in Nat /\ mode = "running"
      /\ cmds # <<>> => cmds[Len(cmds)].index \in raft.applied + 1 .. c
      /\ code # <<>> /\ code' = Tail(code) /\ code[1].op = "apply"
      /\ UNCHANGED <<disk, past, cache, mode, chosen, acked>>
  BY <1>1, ApplyFacts
<1>3. PICK new : new = {i \in raft.applied + 1 .. c : raft.log[i].kind = "Conf"}
  OBVIOUS
<1>4. /\ raft' = [raft EXCEPT !.applied = c, !.conf = raft.conf \cup new]
      /\ node' = [node EXCEPT
                     !.sm = node.sm \o cmds,
                     !.committed_index = IF cmds = <<>> THEN node.committed_index
                                         ELSE cmds[Len(cmds)].index,
                     !.conf = IF new = {} THEN node.conf ELSE raft.conf \cup new]
  BY <1>1, <1>3, ApplyFacts
<1>5. /\ raft'.applied = c /\ raft'.log = raft.log /\ raft'.commit = raft.commit
      /\ raft'.term = raft.term /\ raft'.vote = raft.vote
  BY <1>4 DEF Types, RaftOK
<1>6. /\ node'.last_snapshot = node.last_snapshot
      /\ node'.committed_index = IF cmds = <<>> THEN node.committed_index
                                 ELSE cmds[Len(cmds)].index
  BY <1>4 DEF Types, NodeOK
<1>7. raft.applied \in Nat /\ raft.commit \in Nat /\ node.committed_index \in Nat
      /\ node.last_snapshot \in Nat
  BY RaftNumbers
<1>8. LogAgrees /\ NodeBehind /\ Working
  BY <1>2, WorkingUnlessPut DEF Logs
<1>9. ImagesComplete' /\ AckedStored'
  BY <1>2, ImagesStay DEF Logs, AckedStored
<1>10. \A img \in past : FirstIndex(img) \in Nat /\ FirstIndex(img) <= raft.applied + 1
  BY <1>8, Indices DEF LogAgrees
<1>11. LogAgrees'
  <2>1. \A img \in past : FirstIndex(img) <= c + 1
    BY <1>2, <1>7, <1>10
  <2>2. QED BY <1>2, <1>5, <1>8, <2>1 DEF LogAgrees
<1>12. NodeBehind'
  <2>1. CASE cmds = <<>>
    BY <1>2, <1>5, <1>6, <1>7, <1>8, <2>1 DEF NodeBehind
  <2>2. CASE cmds # <<>>
    <3>1. PICK n : n = cmds[Len(cmds)].index
      OBVIOUS
    <3>2. n \in Nat /\ n > raft.applied /\ n <= c /\ node'.committed_index = n
      BY <1>2, <1>6, <1>7, <2>2, <3>1
    <3>3. node.last_snapshot <= n
      BY <1>7, <1>8, <3>2 DEF NodeBehind
    <3>4. \A img \in past : FirstIndex(img) <= n + 1
      BY <1>7, <1>10, <3>2
    <3>5. QED BY <1>2, <1>5, <1>6, <3>2, <3>3, <3>4 DEF NodeBehind
  <2>3. QED BY <2>1, <2>2
<1>13. \A k \in DOMAIN code : k > 1 =>
          Works(code[k], raft'.log, past', disk'.first_index, RaftHardState')
  BY <1>2, <1>5, <1>8 DEF Working, RaftHardState
<1>14. ~ IsAppend(code[1]) /\ ~ StoresCommit(code[1])
  BY <1>2 DEF IsAppend, StoresCommit, IsHard
<1>15. (LogStored => LogStored') /\ (CommitStored => CommitStored')
  BY <1>2, <1>5 DEF LogStored, CommitStored
<1>16. Working'
  BY <1>2, <1>8, <1>13, <1>14, <1>15, WorkingShift
<1>17. QED BY <1>2, <1>9, <1>11, <1>12, <1>16 DEF Logs

\* DoSend: others are told of a log that is stored.
LEMMA LogsSend ==
    ASSUME Types, Logs, DoSend
    PROVE  Logs'
<1>1. /\ code # <<>> /\ code[1].op = "send" /\ mode = "running"
  BY AtFacts DEF DoSend
<1>2. /\ UNCHANGED <<disk, past, cache, raft, node, chosen>> /\ acked' = raft.log
      /\ \/ mode' = mode /\ code' = Tail(code)
         \/ mode' = "ended"
  BY DEF DoSend, diskVars
<1>3. LogAgrees /\ NodeBehind /\ Working
  BY <1>1, WorkingUnlessPut DEF Logs
<1>4. LogStored
  BY <1>1, <1>3, FirstNeedsLog DEF NeedsLog
<1>5. ImagesComplete'
  BY <1>2, ImagesStay
<1>6. IsLog(raft.log) /\ Len(raft.log) \in Nat /\ DOMAIN raft.log = 1 .. Len(raft.log)
  BY RaftNumbers DEF IsLog
<1>7. AckedStored'
  BY <1>2, <1>4, <1>6 DEF AckedStored, LogStored
<1>8. SUFFICES ASSUME mode' = mode, code' = Tail(code) PROVE Logs'
  BY <1>1, <1>2, <1>5, <1>7 DEF Logs
<1>9. LogAgrees' /\ NodeBehind'
  BY <1>2, <1>3, <1>6 DEF LogAgrees, NodeBehind
<1>10. \A k \in DOMAIN code : k > 1 =>
          Works(code[k], raft'.log, past', disk'.first_index, RaftHardState')
  BY <1>2, <1>3 DEF Working, RaftHardState
<1>11. ~ StoresCommit(code[1])
  BY <1>1 DEF StoresCommit, IsHard
<1>12. LogStored' /\ (CommitStored => CommitStored')
  BY <1>2, <1>4 DEF LogStored, CommitStored
<1>13. Working'
  BY <1>1, <1>3, <1>8, <1>10, <1>11, <1>12, WorkingShift
<1>14. QED BY <1>1, <1>5, <1>7, <1>8, <1>9, <1>13 DEF Logs

\* DoSnapshot: a snapshot of the node does not reach beyond the stored commit index.
LEMMA LogsSnapshot ==
    ASSUME Types, Votes, Logs, DoSnapshot
    PROVE  Logs'
<1>1. /\ mode = "running" /\ code # <<>> /\ code[1].op = "snapshot"
      /\ UNCHANGED <<disk, past, cache, raft, chosen, acked>>
  BY SnapshotFacts
<1>2. LogAgrees /\ NodeBehind /\ Working
  BY <1>1, WorkingUnlessPut DEF Logs
<1>3. LogStored /\ CommitStored
  BY <1>1, <1>2, FirstNeedsLog, SnapshotNeedsCommit DEF NeedsLog
<1>4. ImagesComplete' /\ AckedStored'
  BY <1>1, ImagesStay DEF Logs, AckedStored
<1>5. LogStored' /\ CommitStored' /\ LogAgrees'
  BY <1>1, <1>2, <1>3 DEF LogStored, CommitStored, LogAgrees
<1>6. CASE code' = <<>> /\ mode' = mode /\ node' = node
  <2>1. NodeBehind'
    BY <1>1, <1>2, <1>6 DEF NodeBehind
  <2>2. Working'
    BY <1>5, <1>6 DEF Working
  <2>3. QED BY <1>1, <1>4, <1>5, <1>6, <2>1, <2>2 DEF Logs
<1>7. CASE mode' = "ended"
  BY <1>4, <1>7 DEF Logs
<1>8. CASE /\ SnapshotDue /\ SnapshotInterval > 0 /\ mode' = mode
           /\ code' = apply_snapshot(NodeSnapshot)
           /\ node' = [node EXCEPT !.last_snapshot = node.committed_index]
  <2>1. /\ node'.committed_index = node.committed_index /\ node'.sm = node.sm
        /\ node'.conf = node.conf /\ node'.last_snapshot = node.committed_index
    BY <1>8 DEF Types, NodeOK
  <2>2. /\ raft.commit \in Nat /\ raft.applied \in Nat /\ raft.applied <= raft.commit
        /\ node.committed_index \in Nat /\ node.last_snapshot \in Nat
    BY RaftNumbers
  <2>3. node.committed_index > 0
    BY <1>2, <1>8, <2>2, NodeAssumption DEF SnapshotDue, Underflow, NodeBehind
  <2>4. NodeBehind'
    BY <1>1, <1>2, <2>1, <2>2 DEF NodeBehind
  <2>5. PICK s : s = NodeSnapshot
    OBVIOUS
  <2>6. s = NodeSnapshot' /\ s.index = node.committed_index
    BY <1>1, <2>1, <2>5 DEF NodeSnapshot
  <2>7. \A img \in past : FirstIndex(img) <= s.index + 1
    BY <1>2, <2>3, <2>6 DEF NodeBehind
  <2>8. s.index <= disk.hard_state.commit
    BY <1>2, <1>3, <2>2, <2>6 DEF NodeBehind, CommitStored
  <2>9. Snapshotting(NodeSnapshot)'
    BY <1>1, <1>5, <1>8, <2>5, <2>6, <2>7, <2>8 DEF Snapshotting
  <2>10. QED BY <1>1, <1>4, <1>5, <1>8, <2>4, <2>9 DEF Logs
<1>9. \/ code' = <<>> /\ mode' = mode /\ node' = node
      \/ mode' = "ended"
      \/ /\ SnapshotDue /\ SnapshotInterval > 0 /\ mode' = mode
         /\ code' = apply_snapshot(NodeSnapshot)
         /\ node' = [node EXCEPT !.last_snapshot = node.committed_index]
  <2>1. Tail(code) = <<>>
    BY SnapshotFacts
  <2>2. QED BY <2>1 DEF DoSnapshot, NodeSnapshot
<1>10. QED BY <1>6, <1>7, <1>8, <1>9


\* A write of a snapshot: one more image, which needs no more of the log than disk.
LEMMA LazyWrite ==
    ASSUME Types, Logs, mode = "running", LogStored, CommitStored, past' = past \cup {disk'},
           UNCHANGED <<mode, raft, node, chosen, acked>>,
           disk'.entries = disk.entries, disk'.last_index = disk.last_index,
           disk'.hard_state = disk.hard_state, disk'.hard_state # None,
           disk'.first_index # None, FirstIndex(disk') \in Nat,
           FirstIndex(disk) <= FirstIndex(disk'),
           FirstIndex(disk') <= node.committed_index + 1,
           FirstIndex(disk') > 1 =>
              disk'.snapshot # None /\ FirstIndex(disk') - 1 <= disk'.snapshot.index,
           cache' = LoadCaches(disk')
    PROVE  ImagesComplete' /\ AckedStored' /\ LogAgrees' /\ NodeBehind' /\ LogStored'
           /\ CommitStored'
<1>1. LogAgrees /\ NodeBehind
  BY DEF Logs
<1>2. disk \in past /\ FirstIndex(disk) \in Nat /\ LastIndex(disk) \in Nat
  BY Indices DEF Types
<1>3. /\ raft.commit \in Nat /\ raft.applied \in Nat /\ raft.applied <= raft.commit
      /\ Len(raft.log) \in Nat /\ raft.commit <= Len(raft.log) /\ node.committed_index \in Nat
  BY RaftNumbers
<1>4. LastIndex(disk') = LastIndex(disk) /\ disk'.hard_state.commit = raft.commit
  BY DEF LastIndex, CommitStored
<1>5. /\ FirstIndex(disk) > 0
      /\ \A i \in FirstIndex(disk) .. LastIndex(disk) : i \in DOMAIN disk.entries
      /\ \A i \in FirstIndex(disk) .. disk.hard_state.commit : disk.entries[i] = chosen[i]
  <2>1. ImageComplete(disk, chosen) /\ disk.first_index # None
    BY <1>1, <1>2 DEF Logs, ImagesComplete, LogAgrees
  <2>2. QED BY <2>1 DEF ImageComplete
<1>6. FirstIndex(disk') - 1 <= raft.commit /\ FirstIndex(disk') <= raft.applied + 1
  BY <1>1, <1>3 DEF NodeBehind
<1>7. ImageComplete(disk', chosen)
  <2>1. raft.commit <= LastIndex(disk)
    BY <1>3 DEF LogStored
  <2>2. FirstIndex(disk') > 0
    BY <1>2, <1>5
  <2>3. \A i \in FirstIndex(disk') .. LastIndex(disk') : i \in DOMAIN disk'.entries
    BY <1>2, <1>4, <1>5
  <2>4. \A i \in FirstIndex(disk') .. raft.commit : disk'.entries[i] = chosen[i]
    BY <1>2, <1>3, <1>4, <1>5
  <2>5. QED BY <1>4, <1>6, <2>1, <2>2, <2>3, <2>4 DEF ImageComplete
<1>8. ImagesComplete'
  BY <1>4, <1>7 DEF Logs, ImagesComplete
<1>9. \A i \in Nat : \A e : Holds(disk.entries, disk, i, e) => Holds(disk.entries, disk', i, e)
  BY <1>2 DEF Holds
<1>10. AckedStored'
  <2>1. DOMAIN acked \subseteq Nat
    BY DEF Types, IsLog
  <2>2. \A i \in DOMAIN acked : Holds(disk.entries, disk', i, acked[i])
    BY <1>2, <1>9, <2>1 DEF Logs, AckedStored
  <2>3. QED BY <1>4, <2>2 DEF Logs, AckedStored
<1>11. LogAgrees'
  <2>1. DOMAIN acked \subseteq Nat
    BY DEF Types, IsLog
  <2>2. \A i \in DOMAIN acked : i >= FirstIndex(disk') => i <= Len(raft.log) /\ raft.log[i] = acked[i]
    BY <1>1, <1>2, <2>1 DEF LogAgrees
  <2>3. disk'.hard_state.commit <= raft.commit
    BY <1>3, <1>4
  <2>4. QED BY <1>1, <1>6, <2>2, <2>3 DEF LogAgrees
<1>12. NodeBehind'
  BY <1>1 DEF NodeBehind
<1>13. LogStored'
  <2>1. \A i \in 1 .. Len(raft.log) : Holds(disk.entries, disk', i, raft.log[i])
    BY <1>2, <1>9 DEF LogStored
  <2>2. QED BY <1>4, <2>1 DEF LogStored
<1>14. CommitStored'
  BY <1>4 DEF CommitStored
<1>15. QED BY <1>8, <1>10, <1>11, <1>12, <1>13, <1>14

\* DoPut, of a snapshot of the node.
LEMMA LogsSnapshotPut ==
    ASSUME Types, Types', Votes, Logs, DoPut, mode = "running", Snapshotting(NodeSnapshot)
    PROVE  Logs'
<1>1. /\ code # <<>> /\ Head(code) = code[1] /\ code[1].op = "put"
  BY AtFacts DEF DoPut
<1>2. UNCHANGED <<mode, raft, node, chosen, acked>> /\ code' = Tail(code)
  BY DEF DoPut, ghostVars
<1>3. PICK s : s = NodeSnapshot
  OBVIOUS
<1>4. disk.hard_state # None /\ disk \in past /\ DOMAIN disk = Fields
  BY DEF Votes, VotesPending, Types, Image
<1>5. s \in SnapshotMetadata /\ s.index = node.committed_index /\ s.index + 1 \in Nat
  <2>1. disk.hard_state \in HardState
    BY <1>4 DEF Types, Image, HardStateOK
  <2>2. disk.hard_state.term \in Nat
    BY <2>1 DEF HardState
  <2>3. NodeOK
    BY DEF Types
  <2>4. node.conf \subseteq Nat
    BY <2>3, NodeAssumption DEF NodeOK
  <2>5. QED BY <1>3, <2>2, <2>3, <2>4 DEF NodeSnapshot, SnapshotMetadata, NodeOK
<1>6. /\ \A img \in past : FirstIndex(img) <= s.index + 1
      /\ s.index <= disk.hard_state.commit /\ LogStored /\ CommitStored
  BY <1>3 DEF Snapshotting
<1>7. PICK x, keys : x = code[1] /\ keys = code[1].keys
  OBVIOUS
<1>8. /\ disk' = Put(disk, keys) /\ cache' = CacheAfter(cache, keys)
      /\ x.sync # "sync" => past' = past \cup {disk'}
  BY <1>1, <1>7 DEF DoPut
<1>9. LogAgrees /\ disk.first_index # None /\ cache = LoadCaches(disk)
  BY DEF Logs, LogAgrees
<1>10. disk.first_index \in Nat /\ FirstIndex(disk) = disk.first_index
  <2>1. Image(disk, Len(chosen))
    BY DEF Types
  <2>2. QED BY <1>9, <2>1 DEF Image, FirstIndex, LoadIndex
<1> DEFINE x1 == Lazy([snapshot |-> s])
           x2 == Lazy([conf_state |-> s.conf])
           x3 == Lazy([first_index |-> s.index + 1])
<1>11. \/ code = <<x1, x2, x3>>
       \/ code = <<x2, x3>> /\ disk.snapshot = s
       \/ code = <<x3>> /\ disk.snapshot = s /\ disk.conf_state = s.conf
  BY <1>3 DEF Snapshotting, apply_snapshot
<1>12. /\ x1.sync = "lazy" /\ DOMAIN x1.keys = {"snapshot"} /\ x1.keys.snapshot = s
       /\ x2.sync = "lazy" /\ DOMAIN x2.keys = {"conf_state"} /\ x2.keys.conf_state = s.conf
       /\ x3.sync = "lazy" /\ DOMAIN x3.keys = {"first_index"} /\ x3.keys.first_index = s.index + 1
  BY DEF Lazy
<1> HIDE DEF x1, x2, x3
<1>13. \/ x = x1 /\ code' = <<x2, x3>>
       \/ x = x2 /\ code' = <<x3>> /\ disk.snapshot = s
       \/ x = x3 /\ code' = <<>> /\ disk.snapshot = s
  <2>1. CASE code = <<x1, x2, x3>>
    BY <1>2, <1>7, <2>1, TailTuples
  <2>2. CASE code = <<x2, x3>> /\ disk.snapshot = s
    BY <1>2, <1>7, <2>2, TailTuples
  <2>3. CASE code = <<x3>> /\ disk.snapshot = s
    BY <1>2, <1>7, <2>3, TailTuples
  <2>4. QED BY <1>11, <2>1, <2>2, <2>3
<1>14. past' = past \cup {disk'} /\ DOMAIN keys \subseteq {"snapshot", "conf_state", "first_index"}
  BY <1>7, <1>8, <1>12, <1>13
<1>15. /\ disk'.entries = disk.entries /\ disk'.last_index = disk.last_index
       /\ disk'.hard_state = disk.hard_state
       /\ disk'.snapshot = IF "snapshot" \in DOMAIN keys THEN keys.snapshot ELSE disk.snapshot
       /\ disk'.first_index = IF "first_index" \in DOMAIN keys THEN keys.first_index
                              ELSE disk.first_index
       /\ "conf_state" \in DOMAIN keys => disk'.conf_state = keys.conf_state
  BY <1>4, <1>8, <1>14, PutProperties
<1>16. /\ x # x3 => disk'.first_index = disk.first_index
       /\ x = x3 => disk'.first_index = s.index + 1
       /\ x = x1 \/ disk.snapshot = s => disk'.snapshot = s
  BY <1>7, <1>12, <1>13, <1>15
<1>17. disk'.snapshot = s
  BY <1>13, <1>16
<1>18. disk'.first_index \in Nat /\ disk'.first_index # None /\ FirstIndex(disk') = disk'.first_index
  BY <1>5, <1>10, <1>16, NoneIsNoValue DEF FirstIndex, LoadIndex
<1>19. FirstIndex(disk) <= FirstIndex(disk') /\ FirstIndex(disk') <= s.index + 1
  BY <1>4, <1>5, <1>6, <1>10, <1>16, <1>18
<1>20. FirstIndex(disk') > 1 => disk'.snapshot # None /\ FirstIndex(disk') - 1 <= disk'.snapshot.index
  <2>1. s # None /\ s.index \in Nat
    BY <1>5, NoneIsNoValue DEF SnapshotMetadata
  <2>2. QED BY <1>17, <1>18, <1>19, <2>1
<1>21. cache' = LoadCaches(disk')
  <2>1. cache = [first |-> LoadIndex(disk.first_index), last |-> LoadIndex(disk.last_index)]
    BY <1>9 DEF LoadCaches
  <2>2. LoadIndex(disk.first_index) = disk.first_index /\ LoadIndex(disk'.first_index) = disk'.first_index
    BY <1>9, <1>18 DEF LoadIndex
  <2>3. /\ cache' = [first |-> IF "first_index" \in DOMAIN keys THEN keys.first_index ELSE cache.first,
                     last |-> cache.last]
    BY <1>8, <1>14 DEF CacheAfter
  <2>4. cache' = [first |-> disk'.first_index, last |-> LoadIndex(disk.last_index)]
    BY <1>15, <2>1, <2>2, <2>3
  <2>5. QED BY <1>15, <2>2, <2>4 DEF LoadCaches
<1>22. /\ ImagesComplete' /\ AckedStored' /\ LogAgrees' /\ NodeBehind' /\ LogStored' /\ CommitStored'
  BY <1>2, <1>4, <1>5, <1>6, <1>14, <1>15, <1>18, <1>19, <1>20, <1>21, LazyWrite
<1>23. Working' \/ Snapshotting(NodeSnapshot)'
  <2>1. s = NodeSnapshot'
    BY <1>2, <1>3, <1>15 DEF NodeSnapshot
  <2>2. CASE code' = <<>>
    BY <1>22, <2>2 DEF Working
  <2>3. CASE code' = <<x2, x3>> \/ (code' = <<x3>> /\ disk'.conf_state = s.conf)
    <3>1. \A img \in past' : FirstIndex(img) <= s.index + 1
      BY <1>6, <1>14, <1>19
    <3>2. QED BY <1>6, <1>15, <1>17, <1>22, <2>1, <2>3, <3>1 DEF Snapshotting, x2, x3
  <2>4. x = x2 => disk'.conf_state = s.conf
    BY <1>7, <1>12, <1>15
  <2>5. QED BY <1>13, <2>2, <2>3, <2>4
<1>24. QED BY <1>2, <1>22, <1>23 DEF Logs


\* DoPut.
LEMMA LogsPut ==
    ASSUME Types, Types', Votes, Logs, DoPut
    PROVE  Logs'
<1>1. mode \in {"opening", "running"}
  BY AtFacts DEF DoPut
<1>2. CASE mode = "opening"
  BY <1>2, LogsOpeningPut
<1>3. CASE mode = "running"
  BY <1>3, LogsAppendPut, LogsHardPut, LogsSnapshotPut DEF Logs
<1>4. QED BY <1>1, <1>2, <1>3

\* Once installed, a snapshot stays installed.
LEMMA InstalledStays ==
    ASSUME [Next]_vars, NotInstalled'
    PROVE  NotInstalled
<1>1. met \subseteq met'
  <2>1. CASE Opened
    BY <2>1 DEF Opened
  <2>2. CASE Ready
    <3>1. \A t, v : ReadyVote(t, v) => met' = met
      BY DEF ReadyVote, ghostVars
    <3>2. \A i, es, c, way : ReadyLog(i, es, c, way) => met' = met
      BY DEF ReadyLog
    <3>3. \A more : ReadySnapshot(more) => met' = met \cup {"install"}
      BY DEF ReadySnapshot
    <3>4. QED BY <2>2, <3>1, <3>2, <3>3 DEF Ready
  <2>3. CASE Execute
    BY <2>3 DEF Execute, DoPut, DoRestore, DoApply, DoSend, DoCommit, DoSnapshot, ghostVars
  <2>4. CASE Start \/ Crash \/ MessageRefused \/ UNCHANGED vars
    BY <2>4 DEF Start, Crash, MessageRefused, ghostVars, vars
  <2>5. QED BY <2>1, <2>2, <2>3, <2>4 DEF Next
<1>2. QED BY <1>1 DEF NotInstalled

\* Every step keeps Logs, unless it installs a snapshot.
LEMMA LogsNext ==
    ASSUME Types, Votes, Configured, Types', Logs, [Next]_vars, NotInstalled'
    PROVE  Logs'
<1>1. CASE Start
  BY <1>1, LogsStart
<1>2. CASE Opened
  BY <1>2, LogsOpened
<1>3. CASE Crash
  BY <1>3, LogsCrash
<1>4. CASE MessageRefused
  <2>1. mode' = "ended" /\ UNCHANGED <<disk, past, chosen, acked>>
    BY <1>4 DEF MessageRefused, diskVars, ghostVars
  <2>2. QED BY <2>1, ImagesStay DEF Logs, AckedStored
<1>5. CASE Ready
  <2>1. CASE \E t \in raft.term .. MaxTerm, v \in Peer \cup {0} : ReadyVote(t, v)
    BY <2>1, LogsReadyVote
  <2>2. CASE \E i, es, c, way : ReadyLogInput(i, es, c, way)
    BY <2>2, LogsReadyLog
  <2>3. CASE \E more : ReadySnapshotInput(more)
    BY <2>3, LogsReadySnapshot
  <2>4. QED BY <1>5, <2>1, <2>2, <2>3 DEF Ready, ReadyLogInput, ReadySnapshotInput
<1>6. CASE DoPut
  BY <1>6, LogsPut
<1>7. CASE DoRestore
  <2>1. code # <<>> /\ code[1].op = "restore" /\ mode = "running" /\ 1 \in DOMAIN code
    BY <1>7, AtFacts DEF DoRestore
  <2>2. Working
    BY <2>1, WorkingUnlessPut
  <2>3. QED BY <2>1, <2>2 DEF Working, Works
<1>8. CASE DoApply
  BY <1>8, LogsApply
<1>9. CASE DoSend
  BY <1>9, LogsSend
<1>10. CASE DoCommit
  BY <1>10, LogsCommit
<1>11. CASE DoSnapshot
  BY <1>11, LogsSnapshot
<1>12. CASE UNCHANGED vars
  <2>1. UNCHANGED <<disk, past, cache, mode, code, raft, node, chosen, acked>>
    BY <1>12 DEF vars
  <2>2. ImagesComplete' /\ AckedStored'
    BY <2>1 DEF Logs, ImagesComplete, AckedStored
  <2>3. mode = "opening" => ((code = <<>> /\ past = {disk}) \/ Initializing)'
    BY <2>1 DEF Logs, Initializing
  <2>4. mode = "running" => LogAgrees' /\ NodeBehind'
    BY <2>1 DEF Logs, LogAgrees, NodeBehind
  <2>5. LogStored' = LogStored /\ CommitStored' = CommitStored
    BY <2>1 DEF LogStored, CommitStored
  <2>6. Working => Working'
    BY <2>1, <2>5 DEF Working, RaftHardState
  <2>7. Snapshotting(NodeSnapshot) => Snapshotting(NodeSnapshot)'
    BY <2>1, <2>5 DEF Snapshotting, NodeSnapshot
  <2>8. QED BY <2>1, <2>2, <2>3, <2>4, <2>6, <2>7 DEF Logs
<1>13. QED
  BY <1>1, <1>2, <1>3, <1>4, <1>5, <1>6, <1>7, <1>8, <1>9, <1>10, <1>11, <1>12 DEF Next, Execute

-----------------------------------------------------------------------------
\* Until a snapshot of the leader is installed, Logs is inductive with what
\* RaftNodeProofs shows.
LEMMA LogsInvariant == Spec => [](Types /\ Votes /\ (NotInstalled => Logs))
<1> DEFINE Inv == Types /\ Votes /\ Configured /\ (NotInstalled => Logs)
<1>1. Init => Inv
  BY TypesInit, VotesInit, ConfiguredInit, LogsInit
<1>2. Inv /\ [Next]_vars => Inv'
  <2> SUFFICES ASSUME Inv, [Next]_vars PROVE Inv'
    OBVIOUS
  <2>1. Types' /\ Votes' /\ Configured'
    BY TypesNext, VotesNext, ConfiguredNext
  <2>2. NotInstalled' => Logs'
    BY <2>1, InstalledStays, LogsNext
  <2>3. QED BY <2>1, <2>2
<1>3. Inv => Types /\ Votes /\ (NotInstalled => Logs)
  OBVIOUS
<1> HIDE DEF Inv
<1>4. QED BY <1>1, <1>2, <1>3, PTL DEF Spec

\* Whatever a crash leaves of the database, each entry the node has told others of and
\* was not told to replace is in the log or covered by the stored snapshot: append is
\* one synchronous batch, and apply_snapshot stores first_index last.
THEOREM AcknowledgedEntriesSurvive == Spec => []AcknowledgedSurvive
<1>1. Types /\ Votes /\ (NotInstalled => Logs) => AcknowledgedSurvive
  <2> SUFFICES ASSUME Types, Logs, NEW img \in past, NEW i \in DOMAIN acked
               PROVE  \/ /\ i \in DOMAIN img.entries /\ img.entries[i] = acked[i]
                         /\ i \in FirstIndex(img) .. LastIndex(img)
                      \/ /\ i < FirstIndex(img)
                         /\ img.snapshot # None /\ i <= img.snapshot.index
    BY DEF AcknowledgedSurvive, NotInstalled, FirstIndex, LastIndex
  <2>1. /\ FirstIndex(img) \in Nat /\ LastIndex(img) \in Nat
        /\ img.first_index = None => FirstIndex(img) = 0
    BY Indices
  <2>2. i \in Nat /\ i >= 1 /\ i <= Len(acked) /\ Len(acked) \in Nat
    BY DEF Types, IsLog
  <2>3. /\ ImageComplete(img, chosen) /\ img.entries = disk.entries
        /\ LastIndex(img) = LastIndex(disk)
    BY DEF Logs, ImagesComplete
  <2>4. Len(acked) <= LastIndex(img) /\ Holds(img.entries, img, i, acked[i])
    BY <2>3 DEF Logs, AckedStored
  <2>5. img.first_index # None
    BY <2>1, <2>2, <2>3, <2>4 DEF ImageComplete
  <2>6. CASE i >= FirstIndex(img)
    BY <2>1, <2>2, <2>4, <2>6 DEF Holds
  <2>7. CASE i < FirstIndex(img)
    <3>1. img.snapshot # None /\ FirstIndex(img) - 1 <= img.snapshot.index
      BY <2>1, <2>2, <2>3, <2>5, <2>7 DEF ImageComplete
    <3>2. img.snapshot.index \in Nat
      BY <3>1 DEF Types, Image, SnapshotMetadata
    <3>3. QED BY <2>1, <2>2, <2>7, <3>1, <3>2
  <2>8. QED BY <2>1, <2>2, <2>6, <2>7
<1>2. QED BY <1>1, LogsInvariant, PTL

\* Whatever a crash leaves of an initialized storage, raft-rs can start from: the log
\* has no gap, and the commit index is within it.
THEOREM StorageIsRestartable == Spec => []Restartable
<1>1. Types /\ Votes /\ (NotInstalled => Logs) => Restartable
  <2> SUFFICES ASSUME Types, Logs, NEW img \in past, img.first_index # None
               PROVE  RaftAccepts(img)
    BY DEF Restartable, NotInstalled
  <2>1. ImageComplete(img, chosen)
    BY DEF Logs, ImagesComplete
  <2>2. /\ FirstIndex(img) \in Nat /\ LastIndex(img) \in Nat
        /\ img.hard_state # None => img.hard_state.commit \in Nat
    BY Indices
  <2>3. LoadCaches(img).first = FirstIndex(img) /\ LoadCaches(img).last = LastIndex(img)
    BY DEF LoadCaches, FirstIndex, LastIndex
  <2>4. QED BY <2>1, <2>2, <2>3 DEF ImageComplete, RaftAccepts
<1>2. QED BY <1>1, LogsInvariant, PTL
=============================================================================
