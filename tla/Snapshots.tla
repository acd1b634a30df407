------------------------------ MODULE Snapshots ------------------------------
(***************************************************************************)
(* Snapshots of stored values, packages/storage-plus: what was a value at  *)
(* the start of an earlier block?                                          *)
(*                                                                         *)
(* Snapshot keeps the checkpoints and, for each key, a changelog: the old  *)
(* value at the heights where it was recorded that the key changed.        *)
(* SnapshotMap and SnapshotItem write it before they change the value;     *)
(* IndexedSnapshotMap also keeps a MultiIndex and a UniqueIndex of the     *)
(* current rows, and IndexedMap is the same without snapshots, which is    *)
(* what the strategy "Never" makes of it.  A behaviour is that of one      *)
(* store, of one form, with one strategy.                                  *)
(*                                                                         *)
(* A call that returns an error is reverted by the chain and changes       *)
(* nothing, so it is a step that is not taken.                             *)
(***************************************************************************)
EXTENDS Integers

CONSTANTS
  Keys,               \* primary keys of the maps
  Unit,               \* the one key () of a SnapshotItem
  Values,             \* values of T
  Buckets, BucketOf,  \* index function of the MultiIndex
  Tags, TagOf,        \* index function of the UniqueIndex
  Stores,             \* the forms of a store a run looks at, each with a strategy
  Absent,             \* Option::None: no value is stored
  Unchanged,          \* no ChangeSet is stored
  Refused,            \* the closure given to update returns an error
  Outcome,            \* what that closure makes of the value it is given
  MaxHeight,          \* bound: block heights
  MaxCheckpoints      \* bound: checkpoints of one height

Maybe == Values \cup {Absent}
Forms == {"map", "indexed", "item"}
Strategies == {"EveryBlock", "Never", "Selected"}
AllKeys == Keys \cup {Unit}
Heights == 0..MaxHeight

ASSUME SnapshotsAssumption ==
  /\ Unit \notin Keys
  /\ BucketOf \in [Values -> Buckets]
  /\ TagOf \in [Values -> Tags]
  /\ Stores \subseteq Forms \X Strategies
  /\ Absent \notin Values \cup [pk : AllKeys, value : Values]
  /\ Unchanged \notin Maybe
  /\ Refused \notin Values
  /\ Outcome \in [Maybe -> Values \cup {Refused}]
  /\ MaxHeight \in Nat
  /\ MaxCheckpoints \in Nat

VARIABLES
  form, strategy,     \* which store this is
  height,             \* env.block.height
  primary,            \* the current values
  checkpoints,        \* how often a height was marked; 0 is no entry
  changelog,          \* the old value, by key and height
  multi,              \* entries of the MultiIndex: bucket and key
  unique,             \* the UniqueIndex: key and copy of the value, by tag
  touched,            \* history: a value was written in this block
  past                \* history: the values at the start of each block

snapshots == <<checkpoints, changelog>>
indexes == <<multi, unique>>
snapshotVars ==
  <<form, strategy, height, primary, snapshots, indexes, touched, past>>

SnapshotsTypeOK ==
  /\ form \in Forms
  /\ strategy \in Strategies
  /\ height \in Heights
  /\ primary \in [AllKeys -> Maybe]
  /\ checkpoints \in [Heights -> Nat]
  /\ changelog \in [AllKeys -> [Heights -> Maybe \cup {Unchanged}]]
  /\ multi \subseteq Buckets \X AllKeys
  /\ unique \in [Tags -> [pk : AllKeys, value : Values] \cup {Absent}]
  /\ touched \in BOOLEAN
  /\ past \in [Heights -> [AllKeys -> Maybe]]

SnapshotsInit ==
  /\ \E store \in Stores : form = store[1] /\ strategy = store[2]
  /\ height = 0
  /\ primary = [k \in AllKeys |-> Absent]
  /\ checkpoints = [h \in Heights |-> 0]
  /\ changelog = [k \in AllKeys |-> [h \in Heights |-> Unchanged]]
  /\ multi = {}
  /\ unique = [t \in Tags |-> Absent]
  /\ touched = FALSE
  /\ past = [h \in Heights |-> [k \in AllKeys |-> Absent]]

-----------------------------------------------------------------------------
(* Snapshot: when to record, and what to read *)

HasChangelog(k, h) == changelog[k][h] # Unchanged
ChangesFrom(k, h) == {c \in Heights : c >= h /\ HasChangelog(k, c)}
IsLatestCheckpoint(h) ==
  checkpoints[h] > 0 /\ \A g \in Heights : checkpoints[g] > 0 => g <= h

(* Mutant: a change before the checkpoint counts as one since then. *)
ShouldCheckpointOnce(k) ==
  \E h \in Heights : IsLatestCheckpoint(h) /\ ChangesFrom(k, 0) = {}

ShouldCheckpointSelected(k) ==
  \E h \in Heights : IsLatestCheckpoint(h) /\ ChangesFrom(k, h) = {}

ShouldCheckpoint(k) ==
  \/ strategy = "EveryBlock"
  \/ strategy = "Selected" /\ ShouldCheckpointSelected(k)

AssertCheckpointed(h) ==
  \/ strategy = "EveryBlock"
  \/ strategy = "Selected" /\ checkpoints[h] > 0

IsFirstChange(k, h, c) == c \in ChangesFrom(k, h) /\ \A d \in ChangesFrom(k, h) : c <= d

MayLoadAtHeight(k, h) ==
  IF ChangesFrom(k, h) = {} THEN primary[k]
  ELSE changelog[k][CHOOSE c \in Heights : IsFirstChange(k, h, c)]

AddCheckpoint ==
  /\ ~ touched \/ checkpoints[height] > 0
  /\ checkpoints[height] < MaxCheckpoints
  /\ checkpoints' = [checkpoints EXCEPT ![height] = @ + 1]
  /\ UNCHANGED <<form, strategy, height, primary, changelog, indexes, touched, past>>

RemoveCheckpoint(h) ==
  /\ checkpoints' = [checkpoints EXCEPT ![h] = IF @ <= 1 THEN 0 ELSE @ - 1]
  /\ UNCHANGED <<form, strategy, height, primary, changelog, indexes, touched, past>>

-----------------------------------------------------------------------------
(* SnapshotMap and SnapshotItem: record the old value, then write *)

WriteChange(k) ==
  changelog' = IF ShouldCheckpoint(k) /\ ~ HasChangelog(k, height)
               THEN [changelog EXCEPT ![k][height] = primary[k]]
               ELSE changelog

Store(k, value) ==
  /\ WriteChange(k)
  /\ primary' = [primary EXCEPT ![k] = value]
  /\ touched' = TRUE
  /\ UNCHANGED <<form, strategy, height, checkpoints, past>>

MapSave(k, value) == form = "map" /\ Store(k, value) /\ UNCHANGED indexes
MapRemove(k) == form = "map" /\ Store(k, Absent) /\ UNCHANGED indexes
MapUpdate(k) ==
  /\ form = "map"
  /\ Outcome[primary[k]] # Refused
  /\ Store(k, Outcome[primary[k]])
  /\ UNCHANGED indexes

ItemSave(value) == form = "item" /\ Store(Unit, value) /\ UNCHANGED indexes
ItemRemove == form = "item" /\ Store(Unit, Absent) /\ UNCHANGED indexes
ItemUpdate ==
  /\ form = "item"
  /\ Outcome[primary[Unit]] # Refused
  /\ Store(Unit, Outcome[primary[Unit]])
  /\ UNCHANGED indexes

-----------------------------------------------------------------------------
(* IndexedSnapshotMap: the entries of the old value go, then those of the  *)
(* new one come, each index in turn, then the row is written               *)

(* Mutant: the entries of the value that is replaced stay. *)
MultiKept(k, old) == multi

MultiWithout(k, old) ==
  IF old = Absent THEN multi ELSE multi \ {<<BucketOf[old], k>>}
MultiWith(entries, k, new) ==
  IF new = Absent THEN entries ELSE entries \cup {<<BucketOf[new], k>>}

UniqueWithout(old) ==
  IF old = Absent THEN unique ELSE [unique EXCEPT ![TagOf[old]] = Absent]
UniqueFree(entries, new) == new # Absent => entries[TagOf[new]] = Absent
UniqueWith(entries, k, new) ==
  IF new = Absent THEN entries
  ELSE [entries EXCEPT ![TagOf[new]] = [pk |-> k, value |-> new]]

Replace(k, new, old) ==
  /\ form = "indexed"
  /\ UniqueFree(UniqueWithout(old), new)
  /\ multi' = MultiWith(MultiWithout(k, old), k, new)
  /\ unique' = UniqueWith(UniqueWithout(old), k, new)
  /\ Store(k, new)

IndexedSave(k, value) == Replace(k, value, primary[k])
IndexedRemove(k) == Replace(k, Absent, primary[k])
IndexedUpdate(k) ==
  Outcome[primary[k]] # Refused /\ Replace(k, Outcome[primary[k]], primary[k])

(* What the indexes answer: the rows of a bucket, read from the map by the  *)
(* keys the index has, and the row a tag stands for.                        *)
AllPks(bucket) == {k \in AllKeys : <<bucket, k>> \in multi}
AllItems(bucket) == {[pk |-> k, value |-> primary[k]] : k \in AllPks(bucket)}
UniqueItem(tag) == unique[tag]

-----------------------------------------------------------------------------
NextBlock ==
  /\ height < MaxHeight
  /\ height' = height + 1
  /\ past' = [past EXCEPT ![height + 1] = primary]
  /\ touched' = FALSE
  /\ UNCHANGED <<form, strategy, primary, snapshots, indexes>>

MapCall(k) ==
  \/ \E value \in Values : MapSave(k, value)
  \/ MapRemove(k)
  \/ MapUpdate(k)
IndexedCall(k) ==
  \/ \E value \in Values : IndexedSave(k, value)
  \/ IndexedRemove(k)
  \/ IndexedUpdate(k)
ItemCall == (\E value \in Values : ItemSave(value)) \/ ItemRemove \/ ItemUpdate
\* bound: the other strategies never look at a checkpoint
CheckpointCall ==
  /\ strategy = "Selected"
  /\ AddCheckpoint \/ \E h \in Heights : RemoveCheckpoint(h)

SnapshotsNext ==
  \/ NextBlock
  \/ CheckpointCall
  \/ ItemCall
  \/ \E k \in Keys : MapCall(k) \/ IndexedCall(k)

SnapshotsSpec == SnapshotsInit /\ [][SnapshotsNext]_snapshotVars

-----------------------------------------------------------------------------
(* A height that can be read gives the values at the start of its block,   *)
(* whatever was written, marked and unmarked since.  With Selected this    *)
(* rests on one record standing for all older checkpoints without one.     *)
HistoryIsKept ==
  \A h \in 0..height : AssertCheckpointed(h) =>
    \A k \in AllKeys : MayLoadAtHeight(k, h) = past[h][k]

(* Each index has the rows of the map and no others: no entry of a         *)
(* replaced or removed row stays, no row loses its entry to another one,   *)
(* and the copies in the unique index are the current values.              *)
IndexesAgree ==
  form = "indexed" =>
    LET stored == {k \in AllKeys : primary[k] # Absent}
    IN  /\ \A b \in Buckets :
             AllItems(b) = {[pk |-> k, value |-> primary[k]] :
                              k \in {s \in stored : BucketOf[primary[s]] = b}}
        /\ \A t \in Tags :
             IF UniqueItem(t) = Absent THEN \A k \in stored : TagOf[primary[k]] # t
             ELSE /\ TagOf[UniqueItem(t).value] = t
                  /\ primary[UniqueItem(t).pk] = UniqueItem(t).value
=============================================================================
