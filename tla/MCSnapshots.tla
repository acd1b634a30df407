----------------------------- MODULE MCSnapshots -----------------------------
(* Two rows with two values, three blocks.  The names of the maps and the   *)
(* keys are chosen to lie in each other's way: names that begin one another *)
(* or end in the highest byte, keys whose steps only their lengths part.    *)
EXTENDS SnapshotLayout, TLC

CONSTANTS a, b, red, blue

EveryFormAndStrategy ==
  {<<"map", "Selected">>, <<"map", "Never">>, <<"item", "Selected">>, <<"item", "EveryBlock">>,
   <<"indexed", "EveryBlock">>, <<"indexed", "Never">>}

OneBucketEach == red :> red @@ blue :> blue
OneTag == red :> "t1" @@ blue :> "t2"
RedThenBlue == Absent :> red @@ red :> blue @@ blue :> Refused

StepsOfKeys == a :> <<<<2>>, <<3, 0>>>> @@ b :> <<<<2, 3>>, <<0>>>>
BytesOfBuckets == red :> <<3>> @@ blue :> <<3, 3>>
BytesOfTags == "t1" :> <<0>> @@ "t2" :> <<>>

RowsName == <<2>>
RowsCheckpoints == <<2, 3>>
RowsChangelog == <<2, 3, 3>>
BucketIndex == <<3>>
TagIndex == <<3, 3>>
=============================================================================
