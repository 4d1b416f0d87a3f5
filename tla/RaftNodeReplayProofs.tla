------------------------- MODULE RaftNodeReplayProofs -------------------------
(***************************************************************************)
(* Proofs about RaftNode, continued: what a restarted node makes of its    *)
(* log.                                                                    *)
(***************************************************************************)
EXTENDS RaftNodeLogProofs

\* The configuration has the changes of ch up to `from`, and none beyond `upto`.
ConfWithin(conf, ch, from, upto) ==
    Changes(ch, from) \subseteq conf /\ conf \subseteq Changes(ch, upto)

\* The stored configuration has the changes that the log no longer has.
ConfsStored ==
    \A img \in past : img.first_index # None =>
        ConfWithin(img.conf_state, chosen, FirstIndex(img) - 1, img.hard_state.commit)

\* The state machine, and the cached configuration, have what is applied.
NodeReplayed ==
    /\ node.sm = Commands(chosen, 0, raft.applied)
    /\ ConfWithin(node.conf, chosen, raft.applied, raft.commit)

RaftConfigured == ConfWithin(raft.conf, chosen, raft.applied, raft.commit)

(***************************************************************************)
(* The stored configuration stays in step with the log until the node      *)
(* restarts from a snapshot: then the cached one may be stale, and be      *)
(* stored.  That of raft-rs is right until a second such restart.  After   *)
(* the first one no image starts at index 1.                               *)
(***************************************************************************)
Replay ==
    /\ met = {} => ConfsStored
    /\ met = {} /\ mode = "running" => NodeReplayed
    /\ met \subseteq {"restart"} /\ mode = "running" => RaftConfigured
    /\ "again" \in met => "restart" \in met
    /\ "restart" \in met => \A img \in past : FirstIndex(img) > 1

-----------------------------------------------------------------------------
(* Replay *)

\* Up to n, the changes depend on the entries up to n, and there are more later.
LEMMA ChangesProperties ==
    ASSUME NEW a, NEW b, NEW m \in Nat, NEW n \in Nat, m <= n
    PROVE  /\ (\A i \in 1 .. n : a[i] = b[i]) => Changes(a, m) = Changes(b, m)
           /\ Changes(a, m) \subseteq Changes(a, n)
           /\ Changes(a, 0) = {}
BY DEF Changes

\* What a storage with a first index has.
LEMMA StoredIndices ==
    ASSUME Types, Logs, NEW img \in past, img.first_index # None
    PROVE  /\ FirstIndex(img) - 1 \in Nat /\ FirstIndex(img) \in Nat
           /\ img.hard_state.commit \in Nat
           /\ FirstIndex(img) - 1 <= img.hard_state.commit
           /\ img.hard_state.commit <= Len(chosen) /\ Len(chosen) \in Nat
<1>1. ImageComplete(img, chosen)
  BY DEF Logs, ImagesComplete
<1>2. /\ img.hard_state # None /\ FirstIndex(img) > 0
      /\ FirstIndex(img) - 1 <= img.hard_state.commit
  BY <1>1 DEF ImageComplete
<1>3. FirstIndex(img) \in Nat /\ img.hard_state.commit \in Nat
      /\ img.hard_state.commit <= Len(chosen)
  BY <1>2, Indices
<1>4. Len(chosen) \in Nat
  BY DEF Types, IsLog
<1>5. QED BY <1>2, <1>3, <1>4

\* Nothing is stored, and more may be chosen.
LEMMA ConfsStay ==
    ASSUME Types, Logs, ConfsStored, UNCHANGED past,
           \A i \in 1 .. Len(chosen) : chosen'[i] = chosen[i]
    PROVE  ConfsStored'
<1>1. PICK ch : ch = chosen'
  OBVIOUS
<1>2. ASSUME NEW img \in past, img.first_index # None
      PROVE  ConfWithin(img.conf_state, ch, FirstIndex(img) - 1, img.hard_state.commit)
  <2>1. PICK m, n, old : m = FirstIndex(img) - 1 /\ n = img.hard_state.commit /\ old = chosen
    OBVIOUS
  <2>2. m \in Nat /\ n \in Nat /\ m <= n /\ n <= Len(old) /\ Len(old) \in Nat
    BY <1>2, <2>1, StoredIndices
  <2>3. \A i \in 1 .. n : ch[i] = old[i]
    BY <1>1, <2>1, <2>2
  <2>4. Changes(ch, m) = Changes(old, m) /\ Changes(ch, n) = Changes(old, n)
    <3>1. n <= n
      BY <2>2
    <3>2. QED BY <2>2, <2>3, <3>1, ChangesProperties
  <2>5. ConfWithin(img.conf_state, old, m, n)
    BY <1>2, <2>1 DEF ConfsStored
  <2>6. QED BY <2>1, <2>4, <2>5 DEF ConfWithin
<1>3. QED BY <1>1, <1>2 DEF ConfsStored

\* Initially.
LEMMA ReplayInit == Init => Replay
<1> SUFFICES ASSUME Init PROVE Replay
  OBVIOUS
<1>1. past = {EmptyImage} /\ mode = "down" /\ met = {}
  BY DEF Init
<1>2. EmptyImage.first_index = None
  BY DEF EmptyImage
<1>3. ConfsStored
  BY <1>1, <1>2 DEF ConfsStored
<1>4. QED BY <1>1, <1>3 DEF Replay

\* A step that neither stores nor applies.
LEMMA ReplayFrame ==
    ASSUME Replay, UNCHANGED <<past, chosen, met>>,
           mode' = "running" =>
              /\ mode = "running" /\ node'.sm = node.sm /\ node'.conf = node.conf
              /\ raft'.applied = raft.applied /\ raft'.commit = raft.commit
              /\ raft'.conf = raft.conf
    PROVE  Replay'
<1>1. met = {} => ConfsStored'
  BY DEF Replay, ConfsStored
<1>2. met = {} /\ mode' = "running" => NodeReplayed'
  BY DEF Replay, NodeReplayed
<1>3. met \subseteq {"restart"} /\ mode' = "running" => RaftConfigured'
  BY DEF Replay, RaftConfigured
<1>4. QED BY <1>1, <1>2, <1>3 DEF Replay

\* Crash: one of the images is left.
LEMMA ReplayCrash ==
    ASSUME Replay, Crash
    PROVE  Replay'
<1>1. disk' \in past /\ past' = {disk'} /\ mode' = "down" /\ UNCHANGED <<chosen, met>>
  BY DEF Crash, ghostVars
<1>2. met = {} => ConfsStored'
  BY <1>1 DEF Replay, ConfsStored
<1>3. QED BY <1>1, <1>2 DEF Replay

\* Opened: the stored configuration is the one to start with.
LEMMA ReplayOpened ==
    ASSUME Types, Votes, Logs, Replay, Opened, NotInstalled
    PROVE  Replay'
<1>1. mode = "opening" /\ code = <<>> /\ UNCHANGED <<disk, past, chosen>>
      /\ mode' \in {"running", "refused"}
  BY DEF Opened
<1>2. CASE mode' = "refused"
  <2>1. met' = met
    BY <1>2 DEF Opened
  <2>2. QED BY <1>1, <1>2, <2>1, ReplayFrame
<1>3. CASE mode' = "running"
  <2>1. RaftAccepts(disk)
    BY <1>3 DEF Opened
  <2>2. disk \in past /\ disk.first_index \in Nat /\ disk.first_index > 0
        /\ FirstIndex(disk) = disk.first_index /\ disk.first_index # None
    <3>1. Image(disk, Len(chosen)) /\ disk \in past
      BY DEF Types
    <3>2. disk.first_index \in Nat \cup {None}
      BY <3>1 DEF Image
    <3>3. LoadIndex(disk.first_index) > 0
      BY <2>1 DEF RaftAccepts, LoadCaches
    <3>4. QED BY <3>1, <3>2, <3>3 DEF LoadIndex, FirstIndex
  <2>3. /\ raft'.commit = disk.hard_state.commit /\ raft'.applied = disk.first_index - 1
        /\ raft'.conf = disk.conf_state /\ node'.sm = <<>> /\ node'.conf = {}
    BY <2>1 DEF Opened, NewNode
  <2>4. met' = IF disk.first_index = 1 THEN met
               ELSE met \cup (IF "restart" \in met THEN {"again"} ELSE {"restart"})
    BY <2>1 DEF Opened
  <2>5. met' = {} => met = {} /\ disk.first_index = 1
    BY <2>4
  <2>6. met' \subseteq {"restart"} => met = {}
    <3>1. ASSUME "restart" \in met, met' \subseteq {"restart"} PROVE FALSE
      <4>1. FirstIndex(disk) > 1
        BY <2>2, <3>1 DEF Replay
      <4>2. "again" \in met'
        BY <2>2, <2>4, <3>1, <4>1
      <4>3. QED BY <3>1, <4>2
    <3>2. met \subseteq met'
      BY <2>4
    <3>3. QED BY <3>1, <3>2
  <2>7. met' = {} => ConfsStored'
    BY <1>1, <2>5 DEF Replay, ConfsStored
  <2>8. met = {} => ConfWithin(disk.conf_state, chosen, disk.first_index - 1, disk.hard_state.commit)
    BY <2>2 DEF Replay, ConfsStored
  <2>9. met' \subseteq {"restart"} => RaftConfigured'
    BY <1>1, <2>3, <2>6, <2>8 DEF RaftConfigured
  <2>10. met' = {} => NodeReplayed'
    <3> SUFFICES ASSUME met' = {} PROVE NodeReplayed'
      OBVIOUS
    <3>1. raft'.applied = 0
      BY <2>3, <2>5
    <3>2. PICK ch, n : ch = chosen /\ n = disk.hard_state.commit
      OBVIOUS
    <3>3. Commands(ch, 0, 0) = <<>>
      BY CommandsStep
    <3>4. Changes(ch, 0) = {}
      BY DEF Changes
    <3>5. chosen' = ch /\ node'.sm = <<>> /\ node'.conf = {}
      BY <1>1, <2>3, <3>2
    <3>6. QED BY <3>1, <3>3, <3>4, <3>5 DEF NodeReplayed, ConfWithin
  <2>11. "restart" \in met' => \A img \in past' : FirstIndex(img) > 1
    <3> SUFFICES ASSUME "restart" \in met' PROVE \A img \in past : FirstIndex(img) > 1
      BY <1>1
    <3>1. CASE "restart" \in met
      BY <3>1 DEF Replay
    <3>2. CASE "restart" \notin met
      <4>1. disk.first_index # 1
        BY <2>4, <3>2
      <4>2. past = {disk}
        BY <1>1, <2>2, <4>1 DEF Logs, Initializing
      <4>3. QED BY <2>2, <4>1, <4>2
    <3>3. QED BY <3>1, <3>2
  <2>12. "again" \in met' => "restart" \in met'
    BY <2>4 DEF Replay
  <2>13. QED BY <2>7, <2>9, <2>10, <2>11, <2>12 DEF Replay
<1>4. QED BY <1>1, <1>2, <1>3


\* More is chosen and committed.
LEMMA WithinGrows ==
    ASSUME NEW conf, NEW ch, NEW new, NEW m \in Nat, NEW n \in Nat, NEW p \in Nat, m <= n, n <= p,
           \A i \in 1 .. n : new[i] = ch[i], ConfWithin(conf, ch, m, n)
    PROVE  ConfWithin(conf, new, m, p)
<1>1. Changes(new, m) = Changes(ch, m)
  BY ChangesProperties
<1>2. Changes(ch, n) \subseteq Changes(new, p)
  BY DEF Changes
<1>3. QED BY <1>1, <1>2 DEF ConfWithin

\* The changes after a and up to c are applied.
LEMMA WithinApplied ==
    ASSUME NEW conf, NEW ch, NEW log, NEW a \in Nat, NEW c \in Nat, NEW n \in Nat, a <= c, c <= n,
           \A i \in 1 .. n : log[i] = ch[i], ConfWithin(conf, ch, a, n),
           NEW new, new = {i \in a + 1 .. c : log[i].kind = "Conf"}
    PROVE  ConfWithin(conf \cup new, ch, c, n)
<1>1. new \subseteq Changes(ch, n)
  BY DEF Changes
<1>2. Changes(ch, c) \subseteq Changes(ch, a) \cup new
  BY DEF Changes
<1>3. QED BY <1>1, <1>2 DEF ConfWithin

\* ReadyVote.
LEMMA ReplayReadyVote ==
    ASSUME Types, Replay, NEW t, NEW v, ReadyVote(t, v)
    PROVE  Replay'
<1>1. mode = "running" /\ UNCHANGED <<past, chosen, met, node>>
  BY DEF ReadyVote, Idle, diskVars, ghostVars
<1>2. raft' = [raft EXCEPT !.term = t, !.vote = v] /\ RaftOK
  BY DEF ReadyVote, Types
<1>3. raft'.commit = raft.commit /\ raft'.applied = raft.applied /\ raft'.conf = raft.conf
  BY <1>2 DEF RaftOK
<1>4. QED BY <1>1, <1>3, ReplayFrame

\* ReadyLog: what is applied stays as it is.
LEMMA ReplayReadyLog ==
    ASSUME Types, Logs, Replay, NEW i, NEW es, NEW c, NEW way, ReadyLogInput(i, es, c, way)
    PROVE  Replay'
<1>1. /\ mode = "running" /\ UNCHANGED <<past, node, met>>
      /\ raft'.commit = c /\ raft'.applied = raft.applied /\ raft'.conf = raft.conf
      /\ c \in Nat /\ c >= raft.commit
  BY ReadyLogFacts
<1>2. \A j \in 1 .. Len(chosen) : chosen'[j] = chosen[j]
  BY ReadyLogGhosts
<1>3. /\ raft.commit \in Nat /\ raft.applied \in Nat /\ raft.applied <= raft.commit
  BY RaftNumbers
<1>4. raft.commit <= Len(chosen) /\ Len(chosen) \in Nat
  <2>1. RaftOK /\ IsLog(chosen)
    BY DEF Types
  <2>2. QED BY <2>1 DEF RaftOK, IsLog
<1>5. PICK a, n, old, new : a = raft.applied /\ n = raft.commit /\ old = chosen /\ new = chosen'
  OBVIOUS
<1>6. a \in Nat /\ n \in Nat /\ a <= n /\ n <= c /\ \A j \in 1 .. n : new[j] = old[j]
  BY <1>1, <1>2, <1>3, <1>4, <1>5
<1>7. \A conf : ConfWithin(conf, old, a, n) => ConfWithin(conf, new, a, c)
  BY <1>1, <1>6, WithinGrows
<1>8. Commands(new, 0, a) = Commands(old, 0, a)
  <2>1. 0 \in Nat /\ 0 <= a /\ \A j \in 0 + 1 .. a : new[j] = old[j]
    BY <1>6
  <2>2. QED BY <1>6, <2>1, CommandsOfPrefix
<1>9. met = {} => ConfsStored'
  BY <1>1, <1>2, ConfsStay DEF Replay
<1>10. met = {} => NodeReplayed'
  BY <1>1, <1>5, <1>7, <1>8 DEF Replay, NodeReplayed
<1>11. met \subseteq {"restart"} => RaftConfigured'
  BY <1>1, <1>5, <1>7 DEF Replay, RaftConfigured
<1>12. QED BY <1>1, <1>9, <1>10, <1>11 DEF Replay

\* DoApply: the commands and the changes that follow are applied.
LEMMA ReplayApply ==
    ASSUME Types, Logs, Replay, DoApply
    PROVE  Replay'
<1>1. PICK c, cmds : c = code[1].upto /\ cmds = Commands(raft.log, raft.applied, c)
  OBVIOUS
<1>2. /\ c \in raft.applied .. raft.commit /\ c \in Nat /\ mode = "running"
      /\ UNCHANGED <<past, mode, chosen, met>>
  BY <1>1, ApplyFacts
<1>3. PICK new : new = {i \in raft.applied + 1 .. c : raft.log[i].kind = "Conf"}
  OBVIOUS
<1>4. /\ raft' = [raft EXCEPT !.applied = c, !.conf = raft.conf \cup new]
      /\ node' = [node EXCEPT
                     !.sm = node.sm \o cmds,
                     !.committed_index = IF cmds = <<>> THEN node.committed_index
                                         ELSE cmds[Len(cmds)].index,
                     !.conf = IF new = {} THEN node.conf ELSE raft.conf \cup new]
  BY <1>1, <1>3, ApplyFacts
<1>5. raft'.applied = c /\ raft'.commit = raft.commit /\ raft'.conf = raft.conf \cup new
  BY <1>4 DEF Types, RaftOK
<1>6. node'.sm = node.sm \o cmds /\ node'.conf = IF new = {} THEN node.conf ELSE raft.conf \cup new
  BY <1>4 DEF Types, NodeOK
<1>7. PICK a, n, ch, log : a = raft.applied /\ n = raft.commit /\ ch = chosen /\ log = raft.log
  OBVIOUS
<1>8. a \in Nat /\ n \in Nat /\ a <= c /\ c <= n /\ n <= Len(ch) /\ IsLog(ch) /\ Len(ch) \in Nat
  <2>1. RaftOK /\ IsLog(chosen)
    BY DEF Types
  <2>2. raft.commit \in Nat /\ raft.applied \in Nat /\ raft.commit <= Len(chosen)
    BY <2>1 DEF RaftOK
  <2>3. Len(chosen) \in Nat
    BY <2>1 DEF IsLog
  <2>4. QED BY <1>2, <1>7, <2>1, <2>2, <2>3
<1>9. \A i \in 1 .. n : log[i] = ch[i]
  BY <1>2, <1>7 DEF Logs, LogAgrees
<1>10. new = {i \in a + 1 .. c : log[i].kind = "Conf"}
  BY <1>3, <1>7
<1>11. \A conf : ConfWithin(conf, ch, a, n) => ConfWithin(conf \cup new, ch, c, n)
  BY <1>2, <1>8, <1>9, <1>10, WithinApplied
<1>12. met \subseteq {"restart"} => RaftConfigured'
  BY <1>2, <1>5, <1>7, <1>11 DEF Replay, RaftConfigured
<1>13. met = {} => NodeReplayed'
  <2> SUFFICES ASSUME met = {} PROVE NodeReplayed'
    OBVIOUS
  <2>1. ConfWithin(raft.conf, ch, a, n) /\ ConfWithin(node.conf, ch, a, n)
        /\ node.sm = Commands(ch, 0, a)
    BY <1>2, <1>7 DEF Replay, NodeReplayed, RaftConfigured
  <2>2. ConfWithin(node'.conf, ch, c, n)
    <3>1. CASE new = {}
      <4>1. node.conf \cup new = node.conf
        BY <3>1
      <4>2. QED BY <1>6, <1>11, <2>1, <3>1, <4>1
    <3>2. CASE new # {}
      BY <1>6, <1>11, <2>1, <3>2
    <3>3. QED BY <3>1, <3>2
  <2>3. cmds = Commands(ch, a, c)
    <3>1. \A i \in a + 1 .. c : log[i] = ch[i]
      BY <1>2, <1>8, <1>9
    <3>2. Commands(log, a, c) = Commands(ch, a, c)
      BY <1>2, <1>8, <3>1, CommandsOfPrefix, ZenonT(30)
    <3>3. QED BY <1>1, <1>7, <3>2
  <2>4. Commands(ch, 0, c) = Commands(ch, 0, a) \o Commands(ch, a, c)
    <3>1. c <= Len(ch)
      BY <1>2, <1>8
    <3>2. Split(ch, a, c)
      BY <1>2, <1>8, <3>1, CommandsSplit
    <3>3. QED BY <3>2 DEF Split
  <2>5. node'.sm = Commands(ch, 0, c)
    BY <1>6, <2>1, <2>3, <2>4
  <2>6. QED BY <1>2, <1>5, <1>7, <2>2, <2>5 DEF NodeReplayed
<1>14. met = {} => ConfsStored'
  BY <1>2 DEF Replay, ConfsStored
<1>15. QED BY <1>2, <1>12, <1>13, <1>14 DEF Replay

\* A synchronous write that leaves first_index and configuration.
LEMMA ReplaySync ==
    ASSUME Types, Logs, Replay, mode = "running", past' = {disk'},
           UNCHANGED <<mode, raft, node, chosen, met>>,
           disk'.first_index = disk.first_index, disk'.conf_state = disk.conf_state,
           disk'.hard_state.commit \in Nat, disk.hard_state.commit <= disk'.hard_state.commit
    PROVE  Replay'
<1>1. disk \in past /\ disk.first_index # None /\ FirstIndex(disk') = FirstIndex(disk)
  BY DEF Types, Logs, LogAgrees, FirstIndex
<1>2. met = {} => ConfsStored'
  <2> SUFFICES ASSUME met = {} PROVE ConfsStored'
    OBVIOUS
  <2>1. PICK conf, ch, m, n, p :
           /\ conf = disk.conf_state /\ ch = chosen /\ m = FirstIndex(disk) - 1
           /\ n = disk.hard_state.commit /\ p = disk'.hard_state.commit
    OBVIOUS
  <2>2. m \in Nat /\ n \in Nat /\ m <= n /\ n <= p /\ p \in Nat
    BY <1>1, <2>1, StoredIndices
  <2>3. ConfWithin(conf, ch, m, n)
    BY <1>1, <2>1 DEF Replay, ConfsStored
  <2>4. ConfWithin(conf, ch, m, p)
    BY <2>2, <2>3, WithinGrows
  <2>5. QED BY <1>1, <2>1, <2>4 DEF ConfsStored
<1>3. met = {} => NodeReplayed'
  BY DEF Replay, NodeReplayed
<1>4. met \subseteq {"restart"} => RaftConfigured'
  BY DEF Replay, RaftConfigured
<1>5. "restart" \in met => \A img \in past' : FirstIndex(img) > 1
  BY <1>1 DEF Replay
<1>6. QED BY <1>2, <1>3, <1>4, <1>5 DEF Replay


\* DoPut, of entries or of a hard state.
LEMMA ReplayWorkingPut ==
    ASSUME Types, Votes, Logs, Replay, DoPut, mode = "running", Working
    PROVE  Replay'
<1>1. /\ code # <<>> /\ Head(code) = code[1] /\ 1 \in DOMAIN code /\ code[1].op = "put"
  BY AtFacts DEF DoPut
<1>2. UNCHANGED <<mode, raft, node, chosen, met>>
  BY DEF DoPut, ghostVars
<1>3. PICK keys, hs : keys = code[1].keys /\ hs = RaftHardState
  OBVIOUS
<1>4. Works(code[1], raft.log, past, disk.first_index, RaftHardState)
  BY <1>1 DEF Working
<1>5. code[1].sync = "sync" /\ (IsAppend(code[1]) \/ IsHard(code[1]))
  BY <1>1, <1>4 DEF Works
<1>6. disk' = Put(disk, keys) /\ past' = {disk'}
  BY <1>1, <1>3, <1>5 DEF DoPut
<1>7. disk \in past /\ DOMAIN disk = Fields /\ disk.hard_state # None
  BY DEF Types, Image, Votes, VotesPending
<1>8. disk.hard_state.commit \in Nat
  BY <1>7, Indices
<1>9. CASE IsAppend(code[1])
  <2>1. AppendOK(keys, raft.log, past, disk.first_index)
    BY <1>3, <1>4, <1>9 DEF Works
  <2>2. /\ "hard_state" \notin DOMAIN keys /\ "conf_state" \notin DOMAIN keys
        /\ "first_index" \in DOMAIN keys => keys.first_index = disk.first_index
    BY <2>1 DEF AppendOK
  <2>3. /\ disk'.hard_state = disk.hard_state /\ disk'.first_index = disk.first_index
        /\ disk'.conf_state = disk.conf_state
    BY <1>6, <1>7, <2>2, PutProperties
  <2>4. disk.hard_state.commit <= disk'.hard_state.commit /\ disk'.hard_state.commit \in Nat
    BY <1>8, <2>3
  <2>5. QED BY <1>2, <1>6, <2>3, <2>4, ReplaySync
<1>10. CASE IsHard(code[1])
  <2>1. DOMAIN keys = {"hard_state"} /\ keys.hard_state = hs
    BY <1>3, <1>4, <1>10 DEF Works
  <2>2. /\ disk'.hard_state = hs /\ disk'.first_index = disk.first_index
        /\ disk'.conf_state = disk.conf_state
    BY <1>6, <1>7, <2>1, PutProperties
  <2>3. hs.commit = raft.commit /\ raft.commit \in Nat
    BY <1>3, RaftNumbers DEF RaftHardState
  <2>4. disk.hard_state.commit <= raft.commit
    BY DEF Logs, LogAgrees
  <2>5. disk.hard_state.commit <= disk'.hard_state.commit /\ disk'.hard_state.commit \in Nat
    BY <2>2, <2>3, <2>4
  <2>6. QED BY <1>2, <1>6, <2>2, <2>5, ReplaySync
<1>11. QED BY <1>5, <1>9, <1>10

\* DoCommit.
LEMMA ReplayCommit ==
    ASSUME Types, Votes, Logs, Replay, DoCommit
    PROVE  Replay'
<1>1. /\ mode = "running" /\ disk.hard_state \in HardState
      /\ code # <<>> /\ code[1].op = "commit" /\ code[1].index \in 0 .. Len(chosen)
      /\ disk'.hard_state = [disk.hard_state EXCEPT !.commit = code[1].index]
      /\ \A f \in Fields : f # "hard_state" => disk'[f] = disk[f]
      /\ past' = {disk'}
      /\ UNCHANGED <<mode, raft, node, chosen, met>>
  BY CommitFacts
<1>2. 1 \in DOMAIN code
  BY <1>1, TailOfCode DEF Types, CodeOK
<1>3. Working
  BY <1>1, WorkingUnlessPut
<1>4. Works(code[1], raft.log, past, disk.first_index, RaftHardState)
  BY <1>2, <1>3 DEF Working
<1>5. code[1].index = raft.commit /\ raft.commit \in Nat
  BY <1>1, <1>4, RaftNumbers DEF Works, RaftHardState
<1>6. disk'.hard_state.commit = raft.commit
  <2>1. PICK hs, c : hs = disk.hard_state /\ c = code[1].index
    OBVIOUS
  <2>2. hs \in HardState /\ disk'.hard_state = [hs EXCEPT !.commit = c]
    BY <1>1, <2>1
  <2>3. disk'.hard_state.commit = c
    BY <2>2 DEF HardState
  <2>4. QED BY <1>5, <2>1, <2>3
<1>7. disk.hard_state.commit <= raft.commit
  BY <1>1 DEF Logs, LogAgrees
<1>8. disk'.first_index = disk.first_index /\ disk'.conf_state = disk.conf_state
  BY <1>1 DEF Fields
<1>9. disk.hard_state.commit <= disk'.hard_state.commit /\ disk'.hard_state.commit \in Nat
  BY <1>5, <1>6, <1>7
<1>10. QED BY <1>1, <1>8, <1>9, ReplaySync

\* A lazy write that leaves a configuration in step with first_index.
LEMMA ReplayLazy ==
    ASSUME Replay, past' \subseteq past \cup {disk'},
           UNCHANGED <<mode, raft, node, chosen, met>>,
           met = {} /\ disk'.first_index # None =>
              ConfWithin(disk'.conf_state, chosen, FirstIndex(disk') - 1, disk'.hard_state.commit),
           "restart" \in met => FirstIndex(disk') > 1
    PROVE  Replay'
<1>1. met = {} => ConfsStored'
  BY DEF Replay, ConfsStored
<1>2. met = {} /\ mode = "running" => NodeReplayed'
  BY DEF Replay, NodeReplayed
<1>3. met \subseteq {"restart"} /\ mode = "running" => RaftConfigured'
  BY DEF Replay, RaftConfigured
<1>4. "restart" \in met => \A img \in past' : FirstIndex(img) > 1
  BY DEF Replay
<1>5. QED BY <1>1, <1>2, <1>3, <1>4 DEF Replay

\* DoPut, of a snapshot of the node.
LEMMA ReplaySnapshotPut ==
    ASSUME Types, Votes, Logs, Replay, DoPut, mode = "running",
           Snapshotting(NodeSnapshot)
    PROVE  Replay'
<1>1. /\ code # <<>> /\ Head(code) = code[1] /\ code[1].op = "put"
  BY AtFacts DEF DoPut
<1>2. UNCHANGED <<mode, raft, node, chosen, met>> /\ code' = Tail(code)
  BY DEF DoPut, ghostVars
<1>3. PICK s : s = NodeSnapshot
  OBVIOUS
<1>4. s.index = node.committed_index /\ s.conf = node.conf
  BY <1>3 DEF NodeSnapshot
<1>5. disk \in past /\ DOMAIN disk = Fields /\ disk.hard_state # None
  BY DEF Types, Image, Votes, VotesPending
<1>6. PICK x, keys : x = code[1] /\ keys = code[1].keys
  OBVIOUS
<1>7. disk' = Put(disk, keys) /\ past' \subseteq past \cup {disk'}
  BY <1>1, <1>6 DEF DoPut
<1>8. /\ raft.commit \in Nat /\ raft.applied \in Nat /\ raft.applied <= raft.commit
      /\ node.committed_index \in Nat
  BY RaftNumbers
<1>9. /\ \A img \in past : FirstIndex(img) <= s.index + 1
      /\ disk.hard_state.commit = raft.commit
  BY <1>3 DEF Snapshotting, CommitStored
<1>10. disk.first_index # None /\ node.committed_index <= raft.applied
  BY DEF Logs, LogAgrees, NodeBehind
<1>11. FirstIndex(disk) \in Nat /\ FirstIndex(disk) - 1 \in Nat
  BY <1>5, <1>10, StoredIndices
<1>12. met = {} => \A m \in Nat : m <= raft.applied => ConfWithin(node.conf, chosen, m, raft.commit)
  <2>1. met = {} => ConfWithin(node.conf, chosen, raft.applied, raft.commit)
    BY DEF Replay, NodeReplayed
  <2>2. \A m \in Nat : m <= raft.applied => Changes(chosen, m) \subseteq Changes(chosen, raft.applied)
    BY <1>8 DEF Changes
  <2>3. QED BY <2>1, <2>2 DEF ConfWithin
<1> DEFINE x1 == Lazy([snapshot |-> s])
           x2 == Lazy([conf_state |-> s.conf])
           x3 == Lazy([first_index |-> s.index + 1])
<1>13. \/ code = <<x1, x2, x3>>
       \/ code = <<x2, x3>>
       \/ code = <<x3>> /\ disk.conf_state = s.conf
  BY <1>3 DEF Snapshotting, apply_snapshot
<1>14. /\ DOMAIN x1.keys = {"snapshot"}
       /\ DOMAIN x2.keys = {"conf_state"} /\ x2.keys.conf_state = s.conf
       /\ DOMAIN x3.keys = {"first_index"} /\ x3.keys.first_index = s.index + 1
  BY DEF Lazy
<1> HIDE DEF x1, x2, x3
<1>15. \/ x = x1
       \/ x = x2
       \/ x = x3 /\ disk.conf_state = s.conf
  BY <1>6, <1>13
<1>16. CASE x = x1
  <2>1. disk'.hard_state = disk.hard_state /\ disk'.first_index = disk.first_index
        /\ disk'.conf_state = disk.conf_state
    BY <1>5, <1>6, <1>7, <1>14, <1>16, PutProperties
  <2>2. FirstIndex(disk') = FirstIndex(disk)
    BY <2>1 DEF FirstIndex
  <2>3. met = {} => ConfWithin(disk.conf_state, chosen, FirstIndex(disk) - 1, disk.hard_state.commit)
    BY <1>5, <1>10 DEF Replay, ConfsStored
  <2>4. "restart" \in met => FirstIndex(disk) > 1
    BY <1>5 DEF Replay
  <2>5. QED BY <1>2, <1>7, <2>1, <2>2, <2>3, <2>4, ReplayLazy
<1>17. CASE x = x2
  <2>1. disk'.hard_state = disk.hard_state /\ disk'.first_index = disk.first_index
        /\ disk'.conf_state = node.conf
    BY <1>4, <1>5, <1>6, <1>7, <1>14, <1>17, PutProperties
  <2>2. FirstIndex(disk') = FirstIndex(disk)
    BY <2>1 DEF FirstIndex
  <2>3. FirstIndex(disk) - 1 <= raft.applied
    BY <1>4, <1>5, <1>8, <1>9, <1>10, <1>11
  <2>4. met = {} => ConfWithin(node.conf, chosen, FirstIndex(disk) - 1, raft.commit)
    BY <1>11, <1>12, <2>3
  <2>5. "restart" \in met => FirstIndex(disk) > 1
    BY <1>5 DEF Replay
  <2>6. QED BY <1>2, <1>7, <1>9, <2>1, <2>2, <2>4, <2>5, ReplayLazy
<1>18. CASE x = x3 /\ disk.conf_state = s.conf
  <2>1. disk'.hard_state = disk.hard_state /\ disk'.first_index = node.committed_index + 1
        /\ disk'.conf_state = node.conf
    BY <1>4, <1>5, <1>6, <1>7, <1>14, <1>18, PutProperties
  <2>2. FirstIndex(disk') = node.committed_index + 1
    BY <1>8, <2>1, NoneIsNoValue DEF FirstIndex, LoadIndex
  <2>3. FirstIndex(disk') - 1 = node.committed_index
    BY <1>8, <2>2
  <2>4. met = {} => ConfWithin(node.conf, chosen, node.committed_index, raft.commit)
    BY <1>8, <1>10, <1>12
  <2>5. "restart" \in met => FirstIndex(disk') > 1
    <3>1. "restart" \in met => FirstIndex(disk) > 1
      BY <1>5 DEF Replay
    <3>2. FirstIndex(disk) <= node.committed_index + 1
      BY <1>4, <1>5, <1>9
    <3>3. QED BY <1>8, <1>11, <2>2, <3>1, <3>2
  <2>6. QED BY <1>2, <1>7, <1>9, <2>1, <2>3, <2>4, <2>5, ReplayLazy
<1>19. QED BY <1>15, <1>16, <1>17, <1>18


\* DoPut while the storage is initialized: its configuration is empty.
LEMMA ReplayOpeningPut ==
    ASSUME Types, Logs, Replay, DoPut, mode = "opening"
    PROVE  Replay'
<1> USE NoneIsNoValue
<1>1. /\ code # <<>> /\ Head(code) = code[1]
  BY AtFacts DEF DoPut
<1>2. UNCHANGED <<mode, raft, node, chosen, met>> /\ code' = Tail(code)
  BY DEF DoPut, ghostVars
<1>3. Initializing
  BY <1>1 DEF Logs
<1>4. disk \in past /\ DOMAIN disk = Fields
  BY DEF Types, Image
<1>5. PICK x, keys : x = code[1] /\ keys = code[1].keys
  OBVIOUS
<1>6. disk' = Put(disk, keys) /\ past' \subseteq past \cup {disk'}
  BY <1>1, <1>5 DEF DoPut
<1>7. /\ disk'.hard_state
            = IF "hard_state" \in DOMAIN keys THEN keys.hard_state ELSE disk.hard_state
      /\ disk'.first_index
            = IF "first_index" \in DOMAIN keys THEN keys.first_index ELSE disk.first_index
      /\ disk'.conf_state
            = IF "conf_state" \in DOMAIN keys THEN keys.conf_state ELSE disk.conf_state
  BY <1>4, <1>6, PutProperties
<1>8. disk.first_index \in {None, 1} /\ disk.hard_state \in {None, DefaultHardState}
  BY <1>3, <1>4 DEF Initializing
<1>9. "restart" \notin met
  <2>1. FirstIndex(disk) \in {0, 1}
    BY <1>8 DEF FirstIndex, LoadIndex
  <2>2. QED BY <1>4, <2>1 DEF Replay
<1>10. disk.hard_state = None => disk.first_index = None
  BY <1>4 DEF Logs, ImagesComplete
<1> DEFINE c0 == Lazy([node_id |-> NodeId])
           c1 == Sync([hard_state |-> DefaultHardState])
           c2 == Lazy([conf_state |-> {}])
           c3 == Lazy([first_index |-> 1])
           c4 == Lazy([last_index |-> 0])
<1>11. \/ disk.hard_state = None /\ x = c0
       \/ disk.hard_state = None /\ x = c1
       \/ disk.hard_state # None /\ x = c2
       \/ disk.hard_state # None /\ disk.conf_state = {} /\ x = c3
       \/ disk.hard_state # None /\ x = c4
  BY <1>1, <1>3, <1>5 DEF Initializing, InitializeIfNeeded
<1>12. /\ c0.keys = [node_id |-> NodeId] /\ c1.keys = [hard_state |-> DefaultHardState]
       /\ c2.keys = [conf_state |-> {}] /\ c3.keys = [first_index |-> 1]
       /\ c4.keys = [last_index |-> 0]
  BY DEF Lazy, Sync
<1> HIDE DEF c0, c1, c2, c3, c4
<1>13. /\ DOMAIN c0.keys = {"node_id"} /\ DOMAIN c1.keys = {"hard_state"}
       /\ DOMAIN c2.keys = {"conf_state"} /\ c2.keys.conf_state = {}
       /\ DOMAIN c3.keys = {"first_index"} /\ c3.keys.first_index = 1
       /\ DOMAIN c4.keys = {"last_index"}
  BY <1>12
<1>14. \/ disk'.first_index = None
       \/ disk'.first_index = 1 /\ disk'.hard_state = DefaultHardState /\ disk'.conf_state = {}
       \/ /\ disk'.first_index = disk.first_index /\ disk'.hard_state = disk.hard_state
          /\ disk'.conf_state = disk.conf_state
  <2>1. CASE disk.hard_state = None /\ (x = c0 \/ x = c1)
    BY <1>5, <1>7, <1>10, <1>13, <2>1
  <2>2. CASE disk.hard_state # None /\ x = c2
    BY <1>5, <1>7, <1>8, <1>13, <2>2
  <2>3. CASE disk.hard_state # None /\ disk.conf_state = {} /\ x = c3
    BY <1>5, <1>7, <1>8, <1>13, <2>3
  <2>4. CASE disk.hard_state # None /\ x = c4
    BY <1>5, <1>7, <1>13, <2>4
  <2>5. QED BY <1>11, <2>1, <2>2, <2>3, <2>4
<1>15. met = {} /\ disk'.first_index # None =>
          ConfWithin(disk'.conf_state, chosen, FirstIndex(disk') - 1, disk'.hard_state.commit)
  <2>1. CASE disk'.first_index = 1 /\ disk'.hard_state = DefaultHardState /\ disk'.conf_state = {}
    <3>1. FirstIndex(disk') - 1 = 0 /\ disk'.hard_state.commit = 0
      BY <2>1 DEF FirstIndex, LoadIndex, DefaultHardState
    <3>2. PICK ch : ch = chosen
      OBVIOUS
    <3>3. Changes(ch, 0) = {}
      BY DEF Changes
    <3>4. QED BY <2>1, <3>1, <3>2, <3>3 DEF ConfWithin
  <2>2. CASE /\ disk'.first_index = disk.first_index /\ disk'.hard_state = disk.hard_state
             /\ disk'.conf_state = disk.conf_state
    <3>1. FirstIndex(disk') = FirstIndex(disk)
      BY <2>2 DEF FirstIndex
    <3>2. QED BY <1>4, <2>2, <3>1 DEF Replay, ConfsStored
  <2>3. QED BY <1>14, <2>1, <2>2
<1>16. QED BY <1>2, <1>6, <1>9, <1>15, ReplayLazy

\* Every step keeps Replay, unless it installs a snapshot.
LEMMA ReplayNext ==
    ASSUME Types, Votes, Logs, Replay, [Next]_vars, NotInstalled'
    PROVE  Replay'
<1>1. CASE Start
  <2>1. mode' = "opening" /\ UNCHANGED <<past, chosen, met>>
    BY <1>1 DEF Start, diskVars, ghostVars
  <2>2. QED BY <2>1, ReplayFrame
<1>2. CASE Opened
  BY <1>2, InstalledStays, ReplayOpened
<1>3. CASE Crash
  BY <1>3, ReplayCrash
<1>4. CASE MessageRefused
  <2>1. mode' = "ended" /\ UNCHANGED <<past, chosen, met>>
    BY <1>4 DEF MessageRefused, diskVars, ghostVars
  <2>2. QED BY <2>1, ReplayFrame
<1>5. CASE Ready
  <2>1. CASE \E t \in raft.term .. MaxTerm, v \in Peer \cup {0} : ReadyVote(t, v)
    BY <2>1, ReplayReadyVote
  <2>2. CASE \E i, es, c, way : ReadyLogInput(i, es, c, way)
    BY <2>2, ReplayReadyLog
  <2>3. CASE \E more : ReadySnapshotInput(more)
    BY <2>3, LogsReadySnapshot
  <2>4. QED BY <1>5, <2>1, <2>2, <2>3 DEF Ready, ReadyLogInput, ReadySnapshotInput
<1>6. CASE DoPut
  <2>1. mode \in {"opening", "running"}
    BY <1>6, AtFacts DEF DoPut
  <2>2. CASE mode = "opening"
    BY <1>6, <2>2, ReplayOpeningPut
  <2>3. CASE mode = "running"
    BY <1>6, <2>3, ReplayWorkingPut, ReplaySnapshotPut DEF Logs
  <2>4. QED BY <2>1, <2>2, <2>3
<1>7. CASE DoRestore
  <2>1. code # <<>> /\ code[1].op = "restore" /\ mode = "running" /\ 1 \in DOMAIN code
    BY <1>7, AtFacts DEF DoRestore
  <2>2. Working
    BY <2>1, WorkingUnlessPut
  <2>3. QED BY <2>1, <2>2 DEF Working, Works
<1>8. CASE DoApply
  BY <1>8, ReplayApply
<1>9. CASE DoSend
  <2>1. UNCHANGED <<past, chosen, met, raft, node>> /\ mode' \in {mode, "ended"}
    BY <1>9 DEF DoSend, diskVars
  <2>2. QED BY <2>1, ReplayFrame
<1>10. CASE DoCommit
  BY <1>10, ReplayCommit
<1>11. CASE DoSnapshot
  <2>1. UNCHANGED <<past, chosen, met, raft>> /\ mode = "running"
        /\ \/ node' = node
           \/ node' = [node EXCEPT !.last_snapshot = node.committed_index]
    BY <1>11, SnapshotFacts
  <2>2. node'.sm = node.sm /\ node'.conf = node.conf
    BY <2>1 DEF Types, NodeOK
  <2>3. QED BY <2>1, <2>2, ReplayFrame
<1>12. CASE UNCHANGED vars
  <2>1. UNCHANGED <<past, chosen, met, raft, node, mode>>
    BY <1>12 DEF vars
  <2>2. QED BY <2>1, ReplayFrame
<1>13. QED
  BY <1>1, <1>2, <1>3, <1>4, <1>5, <1>6, <1>7, <1>8, <1>9, <1>10, <1>11, <1>12 DEF Next, Execute

-----------------------------------------------------------------------------
\* Until a snapshot of the leader is installed, Replay is inductive with Logs.
LEMMA ReplayInvariant == Spec => [](NotInstalled => Replay)
<1> DEFINE Inv == Types /\ Votes /\ (NotInstalled => Logs)
<1>1. Init => (NotInstalled => Replay)
  BY ReplayInit
<1>2. Inv /\ (NotInstalled => Replay) /\ [Next]_vars => (NotInstalled => Replay)'
  BY InstalledStays, ReplayNext
<1>3. Spec => []Inv
  BY LogsInvariant
<1> HIDE DEF Inv
<1>4. QED BY <1>1, <1>2, <1>3, PTL DEF Spec

\* After any number of crashes, and as long as the log starts at its first entry, a
\* node between two Readys has applied each committed command once and in order: the
\* replay starts at the stored first index, never at the stored commit index.
THEOREM LogIsReplayed == Spec => []ReplaysLog
<1>1. (NotInstalled => Replay) => ReplaysLog
  BY DEF NotInstalled, Replay, NodeReplayed, ReplaysLog, Idle
<1>2. QED BY <1>1, ReplayInvariant, PTL

\* A configuration change is not stored when it is applied, but what apply_snapshot
\* stored and the replay of the log restore it, up to one restart from a snapshot.
THEOREM ConfigurationIsRestored == Spec => []ConfigurationSurvives
<1>1. (NotInstalled => Replay) => ConfigurationSurvives
  <2> SUFFICES ASSUME Replay, met \subseteq {"restart"}, Idle, raft.applied = raft.commit
               PROVE  raft.conf = Changes(chosen, raft.applied)
    BY DEF ConfigurationSurvives, NotInstalled
  <2>1. RaftConfigured
    BY DEF Replay, Idle
  <2>2. QED BY <2>1 DEF RaftConfigured, ConfWithin
<1>2. QED BY <1>1, ReplayInvariant, PTL
=============================================================================
