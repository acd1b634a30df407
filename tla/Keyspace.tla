------------------------------- MODULE Keyspace -------------------------------
(***************************************************************************)
(* How packages/storage-plus lays maps out in the one ordered store of     *)
(* bytes a contract has, and how it reads ranges of them.                  *)
(*                                                                         *)
(* A map has a namespace, a key has steps.  The raw key is the namespace   *)
(* and all steps but the last, each behind its length in two bytes, then   *)
(* the last step as it is.  A prefix is a namespace and some steps, all    *)
(* behind their lengths.  Bytes are the numbers below Radix, so that a     *)
(* small Radix reaches the carries and the long names of the real 256.     *)
(* A cell is a raw key with its value.                                     *)
(***************************************************************************)
EXTENDS Integers, SequencesExt

CONSTANTS
  Radix,         \* 256 in the code
  NoBound,       \* the range is not limited on this side
  DefaultLimit,  \* DEFAULT_LIMIT of the paged queries, 10
  MaxLimit       \* MAX_LIMIT of the paged queries, 30

Byte == 0..Radix - 1
Bytes == Seq(Byte)

(* What a prefix ends with: its length is below the highest that two bytes  *)
(* can say, behind which no prefix has an upper bound.                      *)
Name == {bytes \in Bytes : Len(bytes) < Radix * Radix - 1}

ASSUME KeyspaceAssumption ==
  /\ Radix \in Nat \ {0, 1}
  /\ NoBound \notin [limit : Bytes, inclusive : BOOLEAN]
  /\ DefaultLimit \in Nat \ {0}
  /\ MaxLimit \in Nat \ {0}

-----------------------------------------------------------------------------
(* Raw keys *)

EncodeLength(namespace) == <<Len(namespace) \div Radix, Len(namespace) % Radix>>

(* Mutant: names are put together without their lengths. *)
Concatenated(namespaces) == FlattenSeq(namespaces)

LengthPrefixed(namespaces) ==
  FlattenSeq([i \in DOMAIN namespaces |-> EncodeLength(namespaces[i]) \o namespaces[i]])

NamespacesWithKey(namespaces, key) == LengthPrefixed(namespaces) \o key

JoinedKey(steps) == NamespacesWithKey(Front(steps), Last(steps))
PathKey(namespace, steps) == NamespacesWithKey(<<namespace>> \o Front(steps), Last(steps))
PrefixKey(namespace, steps) == NamespacesWithKey(<<namespace>> \o steps, <<>>)

(* Bytes, strings, addresses and numbers are keys and prefixes of one step, *)
(* tuples have the steps of their parts.                                    *)
OneStep(bytes) == <<bytes>>
TupleSteps(parts) == FlattenSeq(parts)

\* to_be_bytes: of a fixed width, so that the order of bytes is that of numbers
IntKey(n) == <<n \div Radix, n % Radix>>

-----------------------------------------------------------------------------
(* Ranges *)

LexLess(a, b) ==
  \/ IsStrictPrefix(a, b)
  \/ \E i \in DOMAIN a \cap DOMAIN b :
       a[i] < b[i] /\ \A j \in 1..i - 1 : a[j] = b[j]

\* what the host's storage.range(start, end) returns, as a set
HostRange(cells, start, end) ==
  {c \in cells : ~ LexLess(c.key, start) /\ LexLess(c.key, end)}

Inclusive(limit) == [limit |-> limit, inclusive |-> TRUE]
Exclusive(limit) == [limit |-> limit, inclusive |-> FALSE]

OneByteHigher(limit) == Append(limit, 0)

NamespaceUpperBound(input) ==
  LET below == {i \in DOMAIN input : input[i] # Radix - 1}
  IN  [i \in DOMAIN input |->
         IF \E j \in below : i < j THEN input[i]
         ELSE IF i \in below THEN input[i] + 1
         ELSE 0]

CalcStartBound(namespace, bound) ==
  IF bound = NoBound THEN namespace
  ELSE namespace \o IF bound.inclusive THEN bound.limit ELSE OneByteHigher(bound.limit)

CalcEndBound(namespace, bound) ==
  IF bound = NoBound THEN NamespaceUpperBound(namespace)
  ELSE namespace \o IF bound.inclusive THEN OneByteHigher(bound.limit) ELSE bound.limit

Trim(namespace, key) == SubSeq(key, Len(namespace) + 1, Len(key))

(* The cells of a set in the order of their keys, each at the place that is *)
(* left by those with a smaller key.                                        *)
InKeyOrder(cells) ==
  [n \in 1..Cardinality(cells) |->
     CHOOSE c \in cells : Cardinality({d \in cells : LexLess(d.key, c.key)}) = n - 1]

\* ascending; descending is the reverse
RangeWithPrefix(cells, namespace, start, end) ==
  LET found == HostRange(cells, CalcStartBound(namespace, start), CalcEndBound(namespace, end))
  IN  InKeyOrder({[key |-> Trim(namespace, c.key), value |-> c.value] : c \in found})

-----------------------------------------------------------------------------
(* Paged queries: query_all_accounts and query_all_allowances take up      *)
(* behind the last key of the page before                                  *)

NoLimit == 0
PageSize(limit) ==
  LET asked == IF limit = NoLimit THEN DefaultLimit ELSE limit
  IN  IF asked < MaxLimit THEN asked ELSE MaxLimit

StartAfter(list) == IF list = <<>> THEN NoBound ELSE Exclusive(Last(list).key)

Page(cells, namespace, list, limit) ==
  LET rest == RangeWithPrefix(cells, namespace, StartAfter(list), NoBound)
  IN  SubSeq(rest, 1, IF Len(rest) < PageSize(limit) THEN Len(rest) ELSE PageSize(limit))

\* what a client has that asks for so many pages, one after the other
Listed(cells, namespace, limit, pages) ==
  LET list[n \in 0..pages] ==
        IF n = 0 THEN <<>>
        ELSE list[n - 1] \o Page(cells, namespace, list[n - 1], limit)
  IN  list[pages]
=============================================================================
