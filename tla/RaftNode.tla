------------------------------- MODULE RaftNode -------------------------------
(***************************************************************************)
(* One Raft node with persistent storage (src/raft/generic/node.rs):       *)
(* on_ready, which persists what raft-rs hands out, applies committed      *)
(* entries and takes snapshots; and what is left of it after a crash.      *)
(*                                                                         *)
(* raft-rs is external: it hands out a Ready whenever its own state        *)
(* changes, within what Raft allows.  on_ready is a sequence of            *)
(* instructions under the lock of the node, so only a crash can come       *)
(* between two of them.                                                    *)
(***************************************************************************)
EXTENDS RocksDBStorage, SequencesExt, FiniteSetsExt

CONSTANTS Peer,             \* node ids that may be voted for
          SnapshotInterval, \* snapshot_interval
          MaxIndex,         \* bounds on the log, the terms and the environment
          MaxTerm,
          MaxFaults         \* crashes and received snapshots

ASSUME NodeAssumption ==
    /\ Peer \subseteq Nat \ {0} /\ NodeId \in Peer
    /\ {SnapshotInterval, MaxIndex, MaxTerm, MaxFaults} \subseteq Nat

VARIABLES
    disk,      \* the database
    past,      \* the images a crash may fall back to, the current one included
    cache,     \* first_index_cache, last_index_cache
    mode,      \* "down", "opening", "running"; "refused" or "ended" for good
    code,      \* instructions of on_ready, or of opening, still to be executed
    raft,      \* raft-rs: term, vote, commit, applied, configuration and the log it
               \*   believes in
    node,      \* RaftNode: state machine, committed_index, last_snapshot_index,
               \*   cached_conf_state
    chosen,    \* ghost: the entries the cluster has committed
    acked,     \* ghost: the log this node has told others of
    promised,  \* ghost: the term and vote this node has told others of
    met,       \* ghost: "install" of a snapshot, "restart" with a snapshot and the
               \*   second such restart, "again", once met
    faults     \* what is left of MaxFaults

diskVars  == <<disk, past, cache>>
ghostVars == <<chosen, acked, promised, met>>
vars == <<disk, past, cache, mode, code, raft, node, chosen, acked, promised, met, faults>>

NewRaft == [term |-> 0, vote |-> 0, commit |-> 0, applied |-> 0, conf |-> {},
            log |-> <<>>]

NewNode == [sm |-> <<>>, committed_index |-> 0, last_snapshot |-> 0, conf |-> {}]

Init ==
    /\ disk = EmptyImage
    /\ past = {EmptyImage}
    /\ cache = [first |-> 0, last |-> 0]
    /\ mode = "down"
    /\ code = <<>>
    /\ raft = NewRaft
    /\ node = NewNode
    /\ chosen = <<>>
    /\ acked = <<>>
    /\ promised = [term |-> 0, vote |-> 0]
    /\ met = {}
    /\ faults = MaxFaults

-----------------------------------------------------------------------------
(***************************************************************************)
(* What Raft makes of entries                                              *)
(***************************************************************************)
IsNormal(e) == e.kind = "Normal"

\* The commands among the entries after `from` up to `upto`, in order.
Commands(log, from, upto) ==
    LET some[i \in from .. upto] ==
            IF i = from THEN <<>>
            ELSE IF IsNormal(log[i]) THEN Append(some[i - 1], log[i]) ELSE some[i - 1]
    IN  some[upto]

Changes(log, n) == {i \in 1 .. n : log[i].kind = "Conf"}

-----------------------------------------------------------------------------
(***************************************************************************)
(* Opening                                                                 *)
(***************************************************************************)
Start ==
    /\ mode = "down"
    /\ mode' = "opening"
    /\ code' = InitializeIfNeeded(disk)
    /\ UNCHANGED <<diskVars, raft, node, ghostVars, faults>>

\* What raft-rs needs to find: a first index, a readable log without gaps, and
\* a commit index within it.
RaftAccepts(img) ==
    LET c == LoadCaches(img)
    IN  /\ c.first > 0
        /\ img.hard_state.commit \in c.first - 1 .. c.last
        /\ c.first .. c.last \subseteq DOMAIN img.entries

\* The log as raft-rs reads it; what precedes it is in the snapshot.
ReadLog(img) ==
    [i \in 1 .. LoadIndex(img.last_index) |->
        IF i < img.first_index THEN chosen[i] ELSE img.entries[i]]

\* RawNode::new takes up what is stored.  The state machine is new and the
\* cached configuration is the initial one: the stored snapshot is not read.
Opened ==
    /\ mode = "opening"
    /\ code = <<>>
    /\ cache' = LoadCaches(disk)
    /\ IF RaftAccepts(disk)
       THEN /\ mode' = "running"
            /\ raft' = [term |-> disk.hard_state.term, vote |-> disk.hard_state.vote,
                        commit |-> disk.hard_state.commit,
                        applied |-> disk.first_index - 1, conf |-> disk.conf_state,
                        log |-> ReadLog(disk)]
            /\ node' = NewNode
            /\ met' = IF disk.first_index = 1 THEN met
                      ELSE met \cup (IF "restart" \in met THEN {"again"} ELSE {"restart"})
       ELSE mode' = "refused" /\ UNCHANGED <<raft, node, met>>
    /\ UNCHANGED <<disk, past, code, chosen, acked, promised, faults>>

\* The process or the machine stops, at any point.
Crash ==
    /\ mode # "down"
    /\ faults > 0
    /\ faults' = faults - 1
    /\ disk' \in past
    /\ past' = {disk'}
    /\ mode' = "down"
    /\ code' = <<>>
    /\ cache' = [first |-> 0, last |-> 0]
    /\ raft' = NewRaft
    /\ node' = NewNode
    /\ UNCHANGED ghostVars

-----------------------------------------------------------------------------
(***************************************************************************)
(* on_ready.  A Ready holds a snapshot, committed entries to apply now     *)
(* (up to `now`), entries to append, a hard state, and in its light part   *)
(* a commit index and the committed entries up to `later`.                 *)
(***************************************************************************)
RestoreI(s) == [op |-> "restore", snap |-> s]
ApplyI(c)   == [op |-> "apply", upto |-> c]
SendI       == [op |-> "send"]
CommitI(c)  == [op |-> "commit", index |-> c]
SnapshotI   == [op |-> "snapshot"]

If(x, instructions) == IF x = None THEN <<>> ELSE instructions

\* Mutant of OnReady: the hard state is persisted before the entries.
MutHardStateFirst(r) ==
    If(r.snap, <<RestoreI(r.snap)>> \o apply_snapshot(r.snap))
    \o <<ApplyI(r.now)>>
    \o If(r.hs, set_hardstate(r.hs))
    \o append(disk, cache, r.entries)
    \o <<SendI>>
    \o If(r.commit, <<CommitI(r.commit), SendI>>)
    \o <<ApplyI(r.later), SnapshotI>>

\* Mutant of OnReady: messages leave before the hard state is persisted.
MutSendFirst(r) ==
    If(r.snap, <<RestoreI(r.snap)>> \o apply_snapshot(r.snap))
    \o <<ApplyI(r.now)>>
    \o append(disk, cache, r.entries)
    \o <<SendI>>
    \o If(r.hs, set_hardstate(r.hs))
    \o If(r.commit, <<CommitI(r.commit), SendI>>)
    \o <<ApplyI(r.later), SnapshotI>>

OnReady(r) ==
    If(r.snap, <<RestoreI(r.snap)>> \o apply_snapshot(r.snap))
    \o <<ApplyI(r.now)>>
    \o append(disk, cache, r.entries)
    \o If(r.hs, set_hardstate(r.hs))
    \o <<SendI>>
    \o If(r.commit, <<CommitI(r.commit), SendI>>)
    \o <<ApplyI(r.later), SnapshotI>>

Idle == mode = "running" /\ code = <<>>

\* The event loop handles messages between two Readys.  One that raft-rs refuses,
\* like a forwarded proposal at a node that is not the leader, ends the loop.
MessageRefused ==
    /\ Idle
    /\ mode' = "ended"
    /\ UNCHANGED <<diskVars, code, raft, node, ghostVars, faults>>

\* raft-rs takes a last_index that does not reach the snapshot for the end of
\* its log, and refuses whatever follows.
LogUsable == cache.first <= cache.last + 1

\* A term begins, or a vote is given in it.
ReadyVote(t, v) ==
    /\ Idle /\ LogUsable
    /\ \/ t > raft.term
       \/ t = raft.term /\ raft.vote = 0 /\ v # 0
    /\ raft' = [raft EXCEPT !.term = t, !.vote = v]
    /\ code' = OnReady([snap |-> None, now |-> raft.applied, entries |-> <<>>,
                        hs |-> [term |-> t, vote |-> v, commit |-> raft.commit],
                        commit |-> None, later |-> raft.applied])
    /\ UNCHANGED <<diskVars, mode, node, ghostVars, faults>>

\* The new entry at index i, if there is one.
NewEntries(i) ==
    {<<>>} \cup {<<[index |-> i, term |-> t, kind |-> k]>>
                    : t \in 1 .. raft.term, k \in {"Normal", "Conf", "Empty"}}

\* Entries arrive, or the commit index moves, or both.  On a follower it comes
\* with the hard state; on the leader the light part brings it, when the new
\* entries were persisted.  Raft commits what agrees with the other nodes.
ReadyLog(i, es, c, way) ==
    LET log == SubSeq(raft.log, 1, i - 1) \o es
    IN  /\ Idle /\ LogUsable
        /\ es = <<>> => i = Len(raft.log) + 1
        /\ es # <<>> /\ i > 1 => raft.log[i - 1].term <= es[1].term
        /\ c \in raft.commit .. Len(log)
        /\ \A j \in 1 .. c : j <= Len(chosen) => log[j] = chosen[j]
        /\ es # <<>> \/ c > raft.commit \/ raft.applied < raft.commit
        /\ chosen' = IF c > Len(chosen) THEN SubSeq(log, 1, c) ELSE chosen
        /\ acked' = IF es = <<>> THEN acked ELSE SubSeq(acked, 1, Min({Len(acked), i - 1}))
        /\ raft' = [raft EXCEPT !.log = log, !.commit = c]
        /\ code' = OnReady(
               [snap    |-> None,
                now     |-> IF way = "hard" THEN Min({c, i - 1}) ELSE raft.commit,
                entries |-> es,
                hs      |-> IF way = "hard" /\ c > raft.commit
                            THEN [term |-> raft.term, vote |-> raft.vote, commit |-> c]
                            ELSE None,
                commit  |-> IF way = "light" /\ c > raft.commit THEN c ELSE None,
                later   |-> c])
        /\ UNCHANGED <<diskVars, mode, node, promised, met, faults>>

\* The leader sends its snapshot of index s: others have committed up to there.
ReadySnapshot(more) ==
    LET all == chosen \o more
        s   == Len(all)
    IN  /\ Idle
        /\ faults > 0
        /\ faults' = faults - 1
        /\ s > raft.commit
        /\ chosen' = all
        /\ acked' = SubSeq(acked, 1, Min({Len(acked), raft.commit}))
        /\ raft' = [raft EXCEPT !.log = all, !.commit = s, !.applied = s,
                               !.conf = Changes(all, s)]
        /\ met' = met \cup {"install"}
        /\ code' = OnReady(
               [snap    |-> [index |-> s, term |-> all[s].term,
                             conf |-> Changes(all, s), data |-> Commands(all, 0, s)],
                now     |-> s,
                entries |-> <<>>,
                hs      |-> [term |-> raft.term, vote |-> raft.vote, commit |-> s],
                commit  |-> None,
                later   |-> s])
        /\ UNCHANGED <<diskVars, mode, node, promised>>

-----------------------------------------------------------------------------
(***************************************************************************)
(* The instructions                                                        *)
(***************************************************************************)
At(op) == code # <<>> /\ Head(code).op = op

DoPut ==
    /\ At("put")
    /\ LET i == Head(code)
       IN  /\ disk' = Put(disk, i.keys)
           /\ past' = IF i.sync = "sync" THEN {disk'} ELSE past \cup {disk'}
           /\ cache' = CacheAfter(cache, i.keys)
    /\ code' = Tail(code)
    /\ UNCHANGED <<mode, raft, node, ghostVars, faults>>

\* The state machine is restored; committed_index stays.
DoRestore ==
    /\ At("restore")
    /\ LET s == Head(code).snap
       IN  node' = [node EXCEPT !.sm = s.data, !.conf = s.conf, !.last_snapshot = s.index]
    /\ code' = Tail(code)
    /\ UNCHANGED <<diskVars, mode, raft, ghostVars, faults>>

\* Mutant of DoApply: what the stored commit index covers counts as applied.
MutApplySkipsStored ==
    /\ At("apply")
    /\ LET c    == Head(code).upto
           cmds == SelectSeq(Commands(raft.log, raft.applied, c),
                             LAMBDA e : e.index > disk.hard_state.commit)
           new  == {i \in raft.applied + 1 .. c : raft.log[i].kind = "Conf"}
           conf == raft.conf \cup new
       IN  /\ node' = [node EXCEPT
                 !.sm = @ \o cmds,
                 !.committed_index = IF cmds = <<>> THEN @ ELSE cmds[Len(cmds)].index,
                 !.conf = IF new = {} THEN @ ELSE conf]
           /\ raft' = [raft EXCEPT !.applied = Max({@, c}), !.conf = conf]
    /\ code' = Tail(code)
    /\ UNCHANGED <<diskVars, mode, ghostVars, faults>>

\* Committed entries in order: commands go to the state machine and move
\* committed_index, empty entries do nothing, and a configuration change goes to
\* raft-rs, whose configuration is then cached.
DoApply ==
    /\ At("apply")
    /\ LET c    == Head(code).upto
           cmds == Commands(raft.log, raft.applied, c)
           new  == {i \in raft.applied + 1 .. c : raft.log[i].kind = "Conf"}
           conf == raft.conf \cup new
       IN  /\ node' = [node EXCEPT
                 !.sm = @ \o cmds,
                 !.committed_index = IF cmds = <<>> THEN @ ELSE cmds[Len(cmds)].index,
                 !.conf = IF new = {} THEN @ ELSE conf]
           /\ raft' = [raft EXCEPT !.applied = Max({@, c}), !.conf = conf]
    /\ code' = Tail(code)
    /\ UNCHANGED <<diskVars, mode, ghostVars, faults>>

\* Messages tell others of the log, the term and the vote.  A peer that cannot
\* be reached is an error, which ends the event loop.
DoSend ==
    /\ At("send")
    /\ acked' = raft.log
    /\ promised' = [term |-> raft.term, vote |-> raft.vote]
    /\ \/ code' = Tail(code) /\ UNCHANGED mode
       \/ code' = <<>> /\ mode' = "ended"
    /\ UNCHANGED <<diskVars, raft, node, chosen, met, faults>>

DoCommit ==
    /\ At("commit")
    /\ disk' = update_commit(disk, Head(code).index)
    /\ past' = {disk'}
    /\ code' = Tail(code)
    /\ UNCHANGED <<cache, mode, raft, node, ghostVars, faults>>

\* Unsigned: a negative difference wraps around, or panics in a debug build.
Underflow == node.committed_index < node.last_snapshot

SnapshotDue ==
    Underflow \/ node.committed_index - node.last_snapshot >= SnapshotInterval

\* maybe_create_snapshot: the term is that of the stored hard state.
DoSnapshot ==
    /\ At("snapshot")
    /\ \/ /\ SnapshotInterval = 0 \/ ~SnapshotDue
          /\ code' = Tail(code)
          /\ UNCHANGED <<mode, node>>
       \/ /\ SnapshotInterval > 0 /\ SnapshotDue
          /\ code' = apply_snapshot([index |-> node.committed_index,
                                     term  |-> disk.hard_state.term,
                                     conf  |-> node.conf, data |-> node.sm])
          /\ node' = [node EXCEPT !.last_snapshot = node.committed_index]
          /\ UNCHANGED mode
       \/ /\ SnapshotInterval > 0 /\ Underflow
          /\ code' = <<>>
          /\ mode' = "ended"
          /\ UNCHANGED node
    /\ UNCHANGED <<diskVars, raft, ghostVars, faults>>

-----------------------------------------------------------------------------
Ready ==
    \/ \E t \in raft.term .. MaxTerm, v \in Peer \cup {0} : ReadyVote(t, v)
    \/ \E i \in raft.commit + 1 .. Len(raft.log) + 1 : i <= MaxIndex + 1 /\
           \E es \in NewEntries(i), c \in raft.commit .. MaxIndex, way \in {"hard", "light"} :
               (es # <<>> => i <= MaxIndex) /\ ReadyLog(i, es, c, way)
    \/ Len(chosen) < MaxIndex /\ \E es \in NewEntries(Len(chosen) + 1) : ReadySnapshot(es)

Execute == DoPut \/ DoRestore \/ DoApply \/ DoSend \/ DoCommit \/ DoSnapshot

Next == Start \/ Opened \/ Crash \/ MessageRefused \/ Ready \/ Execute

Spec == Init /\ [][Next]_vars

-----------------------------------------------------------------------------
(***************************************************************************)
(* Properties                                                              *)
(***************************************************************************)
IsImage(img) ==
    /\ img.hard_state # None => img.hard_state \in HardState
    /\ img.conf_state # None => img.conf_state \subseteq 1 .. MaxIndex
    /\ \A i \in DOMAIN img.entries : img.entries[i] \in Entry /\ img.entries[i].index = i
    /\ img.snapshot # None => img.snapshot \in SnapshotMetadata

\* Every variable has its type, and every entry is stored under its index.
TypeOK ==
    /\ disk \in past /\ \A img \in past : IsImage(img)
    /\ cache \in [first : Nat, last : Nat]
    /\ mode \in {"down", "opening", "running", "refused", "ended"}
    /\ \A i \in DOMAIN raft.log : raft.log[i] \in Entry /\ raft.log[i].index = i
    /\ raft.applied \in 0 .. MaxIndex /\ raft.commit \in 0 .. Len(raft.log)
    /\ met \subseteq {"install", "restart", "again"}

\* Whatever a crash leaves, the node remembers each term and vote it has told
\* others of: it never votes twice in a term.
PromisesKept ==
    \A img \in past :
        promised.term > 0 =>
            /\ img.hard_state # None
            /\ \/ img.hard_state.term > promised.term
               \/ /\ img.hard_state.term = promised.term
                  /\ promised.vote # 0 => img.hard_state.vote = promised.vote

\* Whatever a crash leaves, each entry the node has told others of and was not
\* told to replace is in the log or covered by the stored snapshot.
AcknowledgedSurvive ==
    "install" \notin met =>
        \A img \in past : \A i \in DOMAIN acked :
            \/ /\ i \in DOMAIN img.entries /\ img.entries[i] = acked[i]
               /\ i \in LoadIndex(img.first_index) .. LoadIndex(img.last_index)
            \/ /\ i < LoadIndex(img.first_index)
               /\ img.snapshot # None /\ i <= img.snapshot.index

\* Whatever a crash leaves of an initialized storage, raft-rs can start from.
Restartable ==
    "install" \notin met => \A img \in past : img.first_index # None => RaftAccepts(img)

\* After a restart without a snapshot the log is replayed so that each
\* committed command is applied once, in order.
ReplaysLog ==
    met = {} /\ Idle => node.sm = Commands(chosen, 0, raft.applied)

\* A configuration change is not stored when it is applied, but the stored
\* configuration and the replay of the log restore it.  After a restart from a
\* snapshot the next snapshot may hold the stale cached configuration, so this
\* is claimed for one such restart.
ConfigurationSurvives ==
    met \subseteq {"restart"} /\ Idle /\ raft.applied = raft.commit =>
        raft.conf = Changes(chosen, raft.applied)

\* A node that restarts has the state its log leads to.
RestartKeepsState ==
    Idle => node.sm = Commands(chosen, 0, raft.applied)
=============================================================================
