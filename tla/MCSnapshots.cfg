SPECIFICATION SnapshotsSpec
CONSTANTS
  a = a
  b = b
  red = red
  blue = blue
  Keys = {a, b}
  Unit = Unit
  Values = {red, blue}
  Buckets = {red, blue}
  BucketOf <- OneBucketEach
  Tags = {"t1", "t2"}
  TagOf <- OneTag
  Stores <- EveryFormAndStrategy
  Absent = Absent
  Unchanged = Unchanged
  Refused = Refused
  Outcome <- RedThenBlue
  MaxHeight = 2
  MaxCheckpoints = 2
  Radix = 4
  NoBound = NoBound
  DefaultLimit = 2
  MaxLimit = 3
  KeySteps <- StepsOfKeys
  BucketBytes <- BytesOfBuckets
  TagBytes <- BytesOfTags
  PkName <- RowsName
  CheckpointsName <- RowsCheckpoints
  ChangelogName <- RowsChangelog
  MultiName <- BucketIndex
  UniqueName <- TagIndex
  Limits = {0, 1}
INVARIANTS
  HistoryIsKept
  IndexesAgree
  RangesAreExact
CHECK_DEADLOCK FALSE
