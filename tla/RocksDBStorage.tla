---------------------------- MODULE RocksDBStorage ----------------------------
(***************************************************************************)
(* The persistent storage of a Raft node                                   *)
(* (src/raft/generic/rocksdb_storage.rs), as operators on an image of the  *)
(* database.                                                               *)
(*                                                                         *)
(* An operation is the sequence of its writes, because the process may     *)
(* stop between two of them.  RocksDB applies a write, or a batch, as a    *)
(* whole.  A lazy write survives the process, but the machine may lose it  *)
(* together with all writes after it until a synchronous one succeeds.     *)
(***************************************************************************)
EXTENDS Naturals, Sequences

CONSTANTS None, NodeId

Entry == [index : Nat, term : Nat, kind : {"Normal", "Conf", "Empty"}]

\* Vote 0 is INVALID_ID: nobody.
HardState == [term : Nat, vote : Nat, commit : Nat]

\* A configuration is named by the configuration changes that led to it; the
\* data of a snapshot by the commands applied to the state machine.
SnapshotMetadata == [index : Nat, term : Nat, conf : SUBSET Nat, data : Seq(Entry)]

\* None is an absent key, and no value.
ASSUME NoneIsNoValue ==
    None \notin Nat /\ None \notin HardState /\ None \notin SnapshotMetadata

\* Column families and keys.
EmptyImage ==
    [node_id |-> None, hard_state |-> None, conf_state |-> None, first_index |-> None,
     last_index |-> None, entries |-> [i \in {} |-> None], snapshot |-> None]

DefaultHardState == [term |-> 0, vote |-> 0, commit |-> 0]

Lazy(keys) == [op |-> "put", sync |-> "lazy", keys |-> keys]
Sync(keys) == [op |-> "put", sync |-> "sync", keys |-> keys]

\* The image after a write.
Put(img, keys) ==
    [k \in DOMAIN img |-> IF k \in DOMAIN keys THEN keys[k] ELSE img[k]]

-----------------------------------------------------------------------------
\* initialize_if_needed: the presence of a hard state means initialized.
InitializeIfNeeded(img) ==
    IF img.hard_state # None THEN <<>>
    ELSE <<Lazy([node_id |-> NodeId]),
           Sync([hard_state |-> DefaultHardState]),
           Lazy([conf_state |-> {}]),
           Lazy([first_index |-> 1]),
           Lazy([last_index |-> 0])>>

\* load_index: an absent index is read as 0.
LoadIndex(index) == IF index = None THEN 0 ELSE index

LoadCaches(img) ==
    [first |-> LoadIndex(img.first_index), last |-> LoadIndex(img.last_index)]

\* Each operation stores in the caches what it puts under the two indices.
CacheAfter(cache, keys) ==
    [first |-> IF "first_index" \in DOMAIN keys THEN keys.first_index ELSE cache.first,
     last  |-> IF "last_index" \in DOMAIN keys THEN keys.last_index ELSE cache.last]

\* Mutant of WithEntries: keys count from 0.
MutKeysFromZero(img, es) ==
    [i \in DOMAIN img.entries \cup {es[j].index - 1 : j \in DOMAIN es} |->
        IF \E j \in DOMAIN es : es[j].index - 1 = i
        THEN es[i - es[1].index + 2] ELSE img.entries[i]]

WithEntries(img, es) ==
    [i \in DOMAIN img.entries \cup {es[j].index : j \in DOMAIN es} |->
        IF \E j \in DOMAIN es : es[j].index = i
        THEN es[i - es[1].index + 1] ELSE img.entries[i]]

\* Mutant of append: last_index is left for later.
MutAppendKeepsLast(img, cache, es) ==
    IF es = <<>> THEN <<>> ELSE <<Sync([entries |-> WithEntries(img, es)])>>

\* append: one synchronous batch.  Entries after the last one stay in the
\* database, out of reach.
append(img, cache, es) ==
    IF es = <<>> THEN <<>>
    ELSE LET keys == [entries    |-> WithEntries(img, es),
                      last_index |-> es[Len(es)].index]
         IN  IF cache.last # 0 THEN <<Sync(keys)>>
             ELSE <<Sync([entries     |-> keys.entries,
                          last_index  |-> keys.last_index,
                          first_index |-> es[1].index])>>

\* Mutant of apply_snapshot: the configuration is not stored.
MutSnapshotWithoutConf(s) ==
    <<Lazy([snapshot |-> s]), Lazy([first_index |-> s.index + 1])>>

\* apply_snapshot: three writes; last_index and the entries stay as they are.
apply_snapshot(s) ==
    <<Lazy([snapshot |-> s]),
      Lazy([conf_state |-> s.conf]),
      Lazy([first_index |-> s.index + 1])>>

set_hardstate(hs) == <<Sync([hard_state |-> hs])>>

update_commit(img, c) == Put(img, [hard_state |-> [img.hard_state EXCEPT !.commit = c]])
=============================================================================
