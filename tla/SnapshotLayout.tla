---------------------------- MODULE SnapshotLayout ----------------------------
(***************************************************************************)
(* The stores of Snapshots as they lie in the contract's storage: the      *)
(* cells of their maps under the raw keys of Keyspace, and the reads of    *)
(* Snapshots as the ranges over cells the code makes of them.              *)
(***************************************************************************)
EXTENDS Snapshots, Keyspace

CONSTANTS
  KeySteps,           \* the steps of each key
  BucketBytes,        \* the bytes of each bucket and tag
  TagBytes,
  PkName, CheckpointsName, ChangelogName, MultiName, UniqueName,
  Limits              \* limits of the paged queries

(* The maps of a contract have names of their own, the keys of one map have *)
(* as many steps each.  An item lies under its bare name: as text that does *)
(* not begin like a length, it is not among the keys of a map.              *)
ASSUME SnapshotLayoutAssumption ==
  /\ KeySteps \in [Keys -> Seq(Name)] /\ IsInjective(KeySteps)
  /\ \A j, k \in Keys : KeySteps[k] # <<>> /\ Len(KeySteps[j]) = Len(KeySteps[k])
  /\ BucketBytes \in [Buckets -> Name] /\ IsInjective(BucketBytes)
  /\ TagBytes \in [Tags -> Bytes] /\ IsInjective(TagBytes)
  /\ {PkName, CheckpointsName, ChangelogName, MultiName, UniqueName} \subseteq Name
  /\ IsInjective(<<PkName, CheckpointsName, ChangelogName, MultiName, UniqueName>>)
  /\ \A name \in {CheckpointsName, ChangelogName} :
       LET prefix == PrefixKey(name, <<>>)
       IN  LexLess(PkName, prefix) \/ ~ LexLess(PkName, NamespaceUpperBound(prefix))
  /\ MaxHeight < Radix * Radix
  /\ Limits \subseteq Nat

Steps(k) == IF k = Unit THEN <<>> ELSE KeySteps[k]
RowKey(k) == IF k = Unit THEN PkName ELSE PathKey(PkName, Steps(k))
Cell(key, value) == [key |-> key, value |-> value]

PrimaryCells ==
  {Cell(RowKey(k), <<"row", primary[k]>>) : k \in {j \in AllKeys : primary[j] # Absent}}
CheckpointCells ==
  {Cell(PathKey(CheckpointsName, OneStep(IntKey(h))), <<"count", checkpoints[h]>>) :
     h \in {g \in Heights : checkpoints[g] > 0}}
ChangelogCells ==
  {Cell(PathKey(ChangelogName, TupleSteps(<<Steps(kh[1]), OneStep(IntKey(kh[2]))>>)),
        <<"old", changelog[kh[1]][kh[2]]>>) :
     kh \in {e \in AllKeys \X Heights : HasChangelog(e[1], e[2])}}
MultiCells ==
  LET pk(k) == JoinedKey(Steps(k))
      key(b, k) == TupleSteps(<<OneStep(BucketBytes[b]), OneStep(pk(k))>>)
  IN  {Cell(PathKey(MultiName, key(bk[1], bk[2])), <<"length", Len(pk(bk[2]))>>) : bk \in multi}
UniqueCells ==
  {Cell(PathKey(UniqueName, OneStep(TagBytes[t])), <<"ref", unique[t].pk, unique[t].value>>) :
     t \in {u \in Tags : unique[u] # Absent}}

Cells == PrimaryCells \cup CheckpointCells \cup ChangelogCells \cup MultiCells \cup UniqueCells

-----------------------------------------------------------------------------
(* Reads *)

ChangesRange(cells, k, h) ==
  RangeWithPrefix(cells, PrefixKey(ChangelogName, Steps(k)), Inclusive(IntKey(h)), NoBound)

CheckpointsRange(cells) ==
  RangeWithPrefix(cells, PrefixKey(CheckpointsName, <<>>), NoBound, NoBound)

\* the key of the row is the end of the entry's key, as long as the entry says
DeserializeMulti(cells, entry) ==
  LET pk == SubSeq(entry.key, Len(entry.key) - entry.value[2] + 1, Len(entry.key))
      row == CHOOSE c \in cells : c.key = NamespacesWithKey(<<PkName>>, pk)
  IN  Cell(pk, row.value)

MultiRange(cells, steps) ==
  LET entries == RangeWithPrefix(cells, PrefixKey(MultiName, steps), NoBound, NoBound)
  IN  [i \in DOMAIN entries |-> DeserializeMulti(cells, entries[i])]

-----------------------------------------------------------------------------
Rows == {k \in Keys : primary[k] # Absent}
RowCell(k) == Cell(JoinedKey(Steps(k)), <<"row", primary[k]>>)

(* Every range over the raw store gives the entries of its own map, all of *)
(* them and in the order of their keys, whatever lies before and behind    *)
(* them: no two entries share a raw key, the first change a snapshot reads *)
(* is the first from that height on, the last checkpoint is the latest,    *)
(* an index gives the rows of a bucket, and pages list the rows once each. *)
RangesAreExact ==
  LET cells == Cells
      everything == RangeWithPrefix(cells, PrefixKey(PkName, <<>>), NoBound, NoBound)
  IN  /\ \A c, d \in cells : c.key = d.key => c = d
      /\ \A k \in IF form = "item" THEN {Unit} ELSE Keys, h \in Heights :
           LET found == ChangesRange(cells, k, h)
           IN  /\ found = <<>> <=> ChangesFrom(k, h) = {}
               /\ found # <<>> => \E c \in Heights :
                    /\ IsFirstChange(k, h, c)
                    /\ Head(found) = Cell(IntKey(c), <<"old", changelog[k][c]>>)
      /\ \A h \in Heights :
           IsLatestCheckpoint(h) => Last(CheckpointsRange(cells)).key = IntKey(h)
      /\ form = "indexed" => \A b \in Buckets :
           MultiRange(cells, OneStep(BucketBytes[b]))
             = InKeyOrder({RowCell(k) : k \in {j \in Rows : BucketOf[primary[j]] = b}})
      /\ form # "item" =>
           /\ everything = InKeyOrder({RowCell(k) : k \in Rows})
           /\ \A limit \in Limits :
                Listed(cells, PrefixKey(PkName, <<>>), limit, Len(everything)) = everything
=============================================================================
