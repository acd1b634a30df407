---------------------------- MODULE PackagesProofs ----------------------------
(***************************************************************************)
(* What holds of the factory for any assets and decimals, any bytes of the *)
(* assets, any number of creations of which any may fail half way, and any *)
(* pages that list the pairs; of claims for any amounts, caps and releases;*)
(* of wallets for any lists of coins; of the Anchor integration for any    *)
(* amounts and portions; of the marketing record of a token for any texts  *)
(* and logos; and of the stores of storage-plus for any keys, values,      *)
(* blocks, index functions and update closures, down to the raw keys: what *)
(* the order of byte strings is, that prefixes part the maps of a store,   *)
(* and what a range and a list of pages give of one map.                   *)
(***************************************************************************)
EXTENDS Registry, Controllers, Wallets, Anchor, Marketing, SnapshotLayout, InductionLemmas

-----------------------------------------------------------------------------
(* The factory: the invariant *)

Row == [info : PairInfo, proxy : {Proxy}]
Noted == [key : Seq(Byte), assets : AssetPair, decimals : [1..2 -> Nat]]

EntryOf(cs, i) ==
  [key |-> PairKey(cs[i].info.assets), contract |-> i, info |-> cs[i].info]

(* The pairs cs, with the tokens ts, are those that are registered.         *)
Complete(cs, ts) ==
  /\ \A i \in DOMAIN cs :
       /\ EntryOf(cs, i) \in pairs
       /\ cs[i].info.lpToken \in DOMAIN ts /\ ts[cs[i].info.lpToken] = i
  /\ \A e \in pairs : e.contract \in DOMAIN cs /\ e = EntryOf(cs, e.contract)
  /\ \A e, f \in pairs : e.key = f.key => e = f

NewPair(lpToken) ==
  [info |-> [assets |-> tmp.assets, decimals |-> tmp.decimals, lpToken |-> lpToken],
   proxy |-> Proxy]

(* What the transaction has added to the state it began in.                 *)
InTransaction ==
  /\ stage = "pair" => contracts = before[2] /\ lpTokens = before[3]
  /\ stage = "token" => contracts = Append(before[2], NewPair(None)) /\ lpTokens = before[3]
  /\ stage = "pairReply" => contracts = Append(before[2], NewPair(None))
  /\ stage = "factoryReply" => contracts = Append(before[2], NewPair(Len(lpTokens)))
  /\ stage \in {"pairReply", "factoryReply"} => lpTokens = Append(before[3], Len(contracts))

NotedIsFree ==
  /\ tmp \in Noted
  /\ tmp.key = PairKey(tmp.assets)
  /\ Registered(tmp.key) = {}

RegistryInv ==
  /\ RegistryTypeOK
  /\ before[1] \in Noted \cup {None}
  /\ before[2] \in Seq(Row)
  /\ before[3] \in Seq(Nat)
  /\ InTransaction
  /\ stage = "idle" => Complete(contracts, lpTokens)
  /\ stage # "idle" => Complete(before[2], before[3]) /\ NotedIsFree

-----------------------------------------------------------------------------
(* The order of keys *)

LEMMA PrefixAgrees ==
  ASSUME NEW a \in Seq(Nat), NEW b \in Seq(Nat), IsPrefix(a, b)
  PROVE  /\ Len(a) <= Len(b)
         /\ \A i \in 1..Len(a) : a[i] = b[i]
<1>1. Len(a) <= Len(b) /\ SubSeq(a, 1, Len(a)) = SubSeq(b, 1, Len(a))
  BY DEF IsPrefix
<1>2. ASSUME NEW i \in 1..Len(a) PROVE a[i] = b[i]
  <2>1. SubSeq(a, 1, Len(a))[i] = a[i] /\ SubSeq(b, 1, Len(a))[i] = b[i]
    BY <1>1
  <2> QED BY <1>1, <2>1
<1> QED BY <1>1, <1>2

LEMMA AgreeingIsPrefix ==
  ASSUME NEW a \in Seq(Nat), NEW b \in Seq(Nat), Len(a) <= Len(b),
         \A i \in 1..Len(a) : a[i] = b[i]
  PROVE  IsPrefix(a, b)
<1>1. SubSeq(a, 1, Len(a)) = SubSeq(b, 1, Len(a))
  OBVIOUS
<1> QED BY <1>1 DEF IsPrefix

LEMMA SameSeq ==
  ASSUME NEW a \in Seq(Nat), NEW b \in Seq(Nat), Len(a) = Len(b),
         \A i \in 1..Len(a) : a[i] = b[i]
  PROVE  a = b
OBVIOUS

FirstDifference(a, b, i) ==
  /\ i \in DOMAIN a \cap DOMAIN b
  /\ a[i] < b[i]
  /\ \A j \in 1..i - 1 : a[j] = b[j]

LEMMA LexAsymmetric ==
  ASSUME NEW a \in Seq(Nat), NEW b \in Seq(Nat), LexLess(a, b)
  PROVE  ~ LexLess(b, a)
<1> SUFFICES ASSUME LexLess(b, a) PROVE FALSE
  OBVIOUS
<1>1. IsStrictPrefix(a, b) \/ \E i \in DOMAIN a \cap DOMAIN b : FirstDifference(a, b, i)
  BY DEF LexLess, FirstDifference
<1>2. IsStrictPrefix(b, a) \/ \E i \in DOMAIN a \cap DOMAIN b : FirstDifference(b, a, i)
  BY DEF LexLess, FirstDifference
<1>3. /\ Len(a) \in Nat /\ Len(b) \in Nat /\ DOMAIN a = 1..Len(a) /\ DOMAIN b = 1..Len(b)
      /\ \A i \in DOMAIN a : a[i] \in Nat
      /\ \A i \in DOMAIN b : b[i] \in Nat
  OBVIOUS
<1>4. CASE IsStrictPrefix(a, b) /\ IsStrictPrefix(b, a)
  BY <1>3, <1>4, PrefixAgrees, SameSeq DEF IsStrictPrefix
<1>5. ASSUME NEW i \in DOMAIN a \cap DOMAIN b, FirstDifference(b, a, i), IsStrictPrefix(a, b)
      PROVE  FALSE
  <2>1. /\ i \in DOMAIN a /\ b[i] < a[i]
        /\ a[i] \in Nat /\ b[i] \in Nat
    BY <1>3, <1>5 DEF FirstDifference
  <2>2. \A k \in 1..Len(a) : a[k] = b[k]
    BY <1>5, PrefixAgrees DEF IsStrictPrefix
  <2> QED BY <1>3, <2>1, <2>2
<1>6. ASSUME NEW i \in DOMAIN a \cap DOMAIN b, FirstDifference(a, b, i), IsStrictPrefix(b, a)
      PROVE  FALSE
  <2>1. /\ i \in DOMAIN b /\ a[i] < b[i]
        /\ a[i] \in Nat /\ b[i] \in Nat
    BY <1>3, <1>6 DEF FirstDifference
  <2>2. \A k \in 1..Len(b) : b[k] = a[k]
    BY <1>6, PrefixAgrees DEF IsStrictPrefix
  <2> QED BY <1>3, <2>1, <2>2
<1>7. ASSUME NEW i \in DOMAIN a \cap DOMAIN b, NEW j \in DOMAIN a \cap DOMAIN b,
             FirstDifference(a, b, i), FirstDifference(b, a, j)
      PROVE  FALSE
  <2>1. /\ i \in Nat \ {0} /\ a[i] < b[i] /\ a[i] \in Nat /\ b[i] \in Nat
        /\ \A k \in 1..i - 1 : a[k] = b[k]
    BY <1>3, <1>7 DEF FirstDifference
  <2>2. /\ j \in Nat \ {0} /\ b[j] < a[j] /\ a[j] \in Nat /\ b[j] \in Nat
        /\ \A k \in 1..j - 1 : b[k] = a[k]
    BY <1>3, <1>7 DEF FirstDifference
  <2>3. i < j \/ j < i \/ i = j
    BY <2>1, <2>2
  <2>4. i < j => i \in 1..j - 1
    BY <2>1, <2>2
  <2>5. j < i => j \in 1..i - 1
    BY <2>1, <2>2
  <2> QED BY <2>1, <2>2, <2>3, <2>4, <2>5
<1> QED BY <1>1, <1>2, <1>4, <1>5, <1>6, <1>7

LEMMA LexTotal ==
  ASSUME NEW a \in Seq(Nat), NEW b \in Seq(Nat), a # b
  PROVE  LexLess(a, b) \/ LexLess(b, a)
<1> DEFINE Both == DOMAIN a \cap DOMAIN b
           D == {i \in Both : a[i] # b[i]}
<1>1. /\ Len(a) \in Nat /\ Len(b) \in Nat /\ DOMAIN a = 1..Len(a) /\ DOMAIN b = 1..Len(b)
      /\ \A i \in DOMAIN a : a[i] \in Nat
      /\ \A i \in DOMAIN b : b[i] \in Nat
  OBVIOUS
<1>2. CASE D = {}
  <2>1. CASE Len(a) <= Len(b)
    <3>1. \A i \in 1..Len(a) : i \in Both
      BY <1>1, <2>1
    <3>2. \A i \in Both : a[i] = b[i]
      BY <1>2
    <3> HIDE DEF Both
    <3>3. \A i \in 1..Len(a) : a[i] = b[i]
      BY <3>1, <3>2
    <3> QED BY <2>1, <3>3, AgreeingIsPrefix DEF LexLess, IsStrictPrefix
  <2>2. CASE Len(b) <= Len(a)
    <3>1. \A i \in 1..Len(b) : i \in Both
      BY <1>1, <2>2
    <3>2. \A i \in Both : a[i] = b[i]
      BY <1>2
    <3> HIDE DEF Both
    <3>3. \A i \in 1..Len(b) : b[i] = a[i]
      BY <3>1, <3>2
    <3> QED BY <2>2, <3>3, AgreeingIsPrefix DEF LexLess, IsStrictPrefix
  <2> QED BY <1>1, <2>1, <2>2
<1>3. CASE D # {}
  <2>1. D \in SUBSET (1..Len(a))
    BY <1>1
  <2>2. PICK i \in D : \A j \in D : i <= j
    <3> HIDE DEF D
    <3> QED BY <1>1, <1>3, <2>1, MinimumExists
  <2>3. i \in DOMAIN a /\ i \in DOMAIN b /\ a[i] # b[i] /\ \A j \in 1..i - 1 : a[j] = b[j]
    <3>1. i \in Both /\ a[i] # b[i]
      OBVIOUS
    <3>2. \A j \in 1..i - 1 : j \in Both /\ j \in Nat /\ i \in Nat /\ j < i
      BY <1>1, <3>1
    <3>3. \A j \in 1..i - 1 : j \notin D
      BY <2>2, <3>2
    <3> QED BY <3>1, <3>2, <3>3
  <2>4. a[i] < b[i] \/ b[i] < a[i]
    BY <1>1, <2>3
  <2> HIDE DEF D, Both
  <2> QED BY <2>3, <2>4 DEF LexLess
<1> QED BY <1>2, <1>3

LEMMA BytesType ==
  ASSUME NEW x \in Assets
  PROVE  AssetBytes[x] \in Seq(Byte) /\ AssetBytes[x] \in Seq(Nat)
<1>1. AssetBytes[x] \in Seq(Byte)
  BY RegistryAssumption DEF RegistryAssumption
<1>2. \A n \in Byte : n \in Nat
  BY KeyspaceAssumption DEF KeyspaceAssumption, Byte
<1> HIDE DEF Byte
<1>3. AssetBytes[x] \in Seq(Nat)
  BY <1>1, <1>2
<1> QED BY <1>1, <1>3

LEMMA PairKeyType ==
  ASSUME NEW assets \in AssetPair
  PROVE  PairKey(assets) \in Seq(Byte)
<1>1. assets[1] \in Assets /\ assets[2] \in Assets
  BY DEF AssetPair
<1>2. AssetBytes[assets[1]] \in Seq(Byte) /\ AssetBytes[assets[2]] \in Seq(Byte)
  BY <1>1, BytesType
<1> HIDE DEF Byte
<1> QED BY <1>2 DEF PairKey

(* The key does not depend on the order in which the assets are given.      *)
LEMMA KeyIgnoresOrder ==
  ASSUME NEW assets \in AssetPair
  PROVE  PairKey(<<assets[2], assets[1]>>) = PairKey(assets)
<1> DEFINE a == AssetBytes[assets[1]]
           b == AssetBytes[assets[2]]
<1>1. a \in Seq(Nat) /\ b \in Seq(Nat)
  BY BytesType DEF AssetPair
<1>2. /\ PairKey(assets) = IF LexLess(b, a) THEN b \o a ELSE a \o b
      /\ PairKey(<<assets[2], assets[1]>>) = IF LexLess(a, b) THEN a \o b ELSE b \o a
  BY DEF PairKey
<1> HIDE DEF a, b
<1>3. CASE a = b
  <2>1. a \o b = b \o a
    BY <1>3
  <2>2. PairKey(assets) = a \o b
    BY <1>2, <2>1
  <2>3. PairKey(<<assets[2], assets[1]>>) = a \o b
    BY <1>2, <2>1
  <2> QED BY <2>2, <2>3
<1>4. CASE a # b
  <2>1. LexLess(a, b) \/ LexLess(b, a)
    BY <1>1, <1>4, LexTotal
  <2>2. ~ (LexLess(a, b) /\ LexLess(b, a))
    BY <1>1, LexAsymmetric
  <2> QED BY <1>2, <2>1, <2>2
<1> QED BY <1>3, <1>4

-----------------------------------------------------------------------------
(* The invariant *)

LEMMA LastReplaced ==
  ASSUME NEW S, NEW s \in Seq(S), NEW x \in S, NEW y \in S
  PROVE  [Append(s, x) EXCEPT ![Len(s) + 1] = y] = Append(s, y)
<1> DEFINE t == [Append(s, x) EXCEPT ![Len(s) + 1] = y]
           u == Append(s, y)
<1>1. /\ Append(s, x) \in Seq(S) /\ DOMAIN Append(s, x) = 1..(Len(s) + 1)
      /\ u \in Seq(S) /\ Len(u) = Len(s) + 1 /\ DOMAIN u = 1..(Len(s) + 1)
      /\ Len(s) \in Nat
  OBVIOUS
<1>2. t = [i \in 1..(Len(s) + 1) |-> IF i = Len(s) + 1 THEN y ELSE Append(s, x)[i]]
  BY <1>1
<1>3. \A i \in 1..(Len(s) + 1) : u[i] = IF i = Len(s) + 1 THEN y ELSE Append(s, x)[i]
  OBVIOUS
<1> HIDE DEF t, u
<1>4. u \in [1..(Len(s) + 1) -> S]
  BY <1>1
<1>5. u = [i \in 1..(Len(s) + 1) |-> u[i]]
  BY <1>4
<1> QED BY <1>2, <1>3, <1>5 DEF t, u

LEMMA InitInv == RegistryInit => RegistryInv
<1> SUFFICES ASSUME RegistryInit PROVE RegistryInv
  OBVIOUS
<1>1. config \in Config
  BY RegistryAssumption DEF RegistryAssumption, RegistryInit, Config
<1>2. /\ contracts = <<>> /\ lpTokens = <<>> /\ pairs = {} /\ stage = "idle"
      /\ before = <<None, <<>>, <<>>>> /\ tmp = None /\ funded = {}
  BY DEF RegistryInit
<1>3. RegistryTypeOK
  BY <1>1, <1>2 DEF RegistryTypeOK, Stages
<1>4. before[1] \in Noted \cup {None} /\ before[2] \in Seq(Row) /\ before[3] \in Seq(Nat)
  BY <1>2
<1>5. Complete(contracts, lpTokens)
  BY <1>2 DEF Complete
<1>6. InTransaction
  BY <1>2 DEF InTransaction
<1> QED BY <1>2, <1>3, <1>4, <1>5, <1>6 DEF RegistryInv

LEMMA UpdateConfigInv ==
  ASSUME RegistryInv, NEW sender \in Users, NEW owner \in Users, NEW p \in PairCodes,
         NEW t \in TokenCodes, UpdateConfig(sender, owner, p, t)
  PROVE  RegistryInv'
<1>1. config' \in Config
  BY DEF UpdateConfig, Config
<1>2. UNCHANGED <<funded, pairs, tmp, contracts, lpTokens, stage, before>> /\ stage = "idle"
  BY DEF UpdateConfig, created
<1>3. Complete(contracts, lpTokens)'
  BY <1>2 DEF RegistryInv, Complete, EntryOf
<1> QED BY <1>1, <1>2, <1>3 DEF RegistryInv, RegistryTypeOK, InTransaction

LEMMA FundInv ==
  ASSUME RegistryInv, NEW asset \in Natives, Fund(asset)
  PROVE  RegistryInv'
<1>1. funded' \subseteq Natives
  BY DEF Fund, RegistryInv, RegistryTypeOK
<1>2. UNCHANGED <<config, pairs, tmp, contracts, lpTokens, stage, before>> /\ stage = "idle"
  BY DEF Fund, created
<1>3. Complete(contracts, lpTokens)'
  BY <1>2 DEF RegistryInv, Complete, EntryOf
<1> QED BY <1>1, <1>2, <1>3 DEF RegistryInv, RegistryTypeOK, InTransaction

LEMMA CreatePairInv ==
  ASSUME RegistryInv, NEW x \in Assets, NEW y \in Assets, CreatePair(x, y)
  PROVE  RegistryInv'
<1> DEFINE assets == <<x, y>>
           decimals == <<QueryDecimals(x), QueryDecimals(y)>>
<1>1. assets \in AssetPair
  BY DEF CreatePair, AssetPair
<1>2. decimals \in [1..2 -> Nat]
  <2>1. QueryDecimals(x) \in Nat /\ QueryDecimals(y) \in Nat
    BY RegistryAssumption DEF RegistryAssumption, QueryDecimals, Assets
  <2> QED BY <2>1
<1>3. PairKey(assets) \in Seq(Byte)
  BY <1>1, PairKeyType
<1>4. /\ tmp' = [key |-> PairKey(assets), assets |-> assets, decimals |-> decimals]
      /\ Registered(PairKey(assets)) = {}
      /\ stage = "idle" /\ stage' = "pair" /\ before' = <<tmp, contracts, lpTokens>>
      /\ UNCHANGED <<config, funded, pairs, contracts, lpTokens>>
  BY DEF CreatePair, created
<1> HIDE DEF assets, decimals
<1>5. NotedIsFree'
  BY <1>1, <1>2, <1>3, <1>4 DEF NotedIsFree, Noted, Registered, PairKey
<1>6. before'[1] = tmp /\ before'[2] = contracts /\ before'[3] = lpTokens
  BY <1>4
<1>7. Complete(before[2], before[3])'
  BY <1>4, <1>6 DEF RegistryInv, Complete, EntryOf
<1>8. RegistryTypeOK'
  BY <1>4, <1>5 DEF RegistryInv, RegistryTypeOK, NotedIsFree, Noted, Stages
<1>9. InTransaction'
  BY <1>4, <1>6 DEF InTransaction
<1>10. tmp \in Noted \cup {None} /\ contracts \in Seq(Row) /\ lpTokens \in Seq(Nat)
  BY DEF RegistryInv, RegistryTypeOK, Noted, Row
<1> QED BY <1>4, <1>5, <1>6, <1>7, <1>8, <1>9, <1>10 DEF RegistryInv

LEMMA NewPairType ==
  ASSUME tmp \in Noted, NEW lpToken \in Nat \cup {None}
  PROVE  NewPair(lpToken) \in Row
BY DEF NewPair, Noted, Row, PairInfo

(* The steps of the transaction before the last one.                        *)
LEMMA ProgressInv ==
  ASSUME RegistryInv, PairInstantiate \/ TokenInstantiate \/ PairReply
  PROVE  RegistryInv'
<1>1. /\ UNCHANGED <<config, funded, pairs, tmp, before>>
      /\ stage # "idle" /\ stage' # "idle" /\ stage' \in Stages
  BY DEF PairInstantiate, TokenInstantiate, PairReply, Stages
<1>2. /\ Complete(before[2], before[3])' /\ NotedIsFree'
  BY <1>1 DEF RegistryInv, Complete, EntryOf, NotedIsFree, Registered, PairKey
<1>3. before[2] \in Seq(Row) /\ before[3] \in Seq(Nat) /\ lpTokens \in Seq(Nat)
      /\ tmp \in Noted
  BY <1>1 DEF RegistryInv, RegistryTypeOK, NotedIsFree
<1>4. NewPair(None)' = NewPair(None) /\ \A n : NewPair(n)' = NewPair(n)
  BY <1>1 DEF NewPair
<1>5. InTransaction' /\ contracts' \in Seq(Row) /\ lpTokens' \in Seq(Nat)
  <2>1. NewPair(None) \in Row
    BY <1>3, NewPairType
  <2>2. CASE PairInstantiate
    <3>1. stage = "pair" /\ stage' = "token" /\ lpTokens' = lpTokens
          /\ contracts' = Append(contracts, NewPair(None))
      BY <2>2 DEF PairInstantiate, NewPair
    <3>2. contracts = before[2] /\ lpTokens = before[3]
      BY <3>1 DEF RegistryInv, InTransaction
    <3>3. InTransaction'
      BY <1>1, <1>4, <3>1, <3>2 DEF InTransaction
    <3> QED BY <1>3, <2>1, <3>1, <3>2, <3>3
  <2>3. CASE TokenInstantiate
    <3>1. stage = "token" /\ stage' = "pairReply" /\ contracts' = contracts
          /\ lpTokens' = Append(lpTokens, Len(contracts))
      BY <2>3 DEF TokenInstantiate
    <3>2. contracts = Append(before[2], NewPair(None)) /\ lpTokens = before[3]
      BY <3>1 DEF RegistryInv, InTransaction
    <3>3. InTransaction'
      BY <1>1, <1>4, <3>1, <3>2 DEF InTransaction
    <3>4. contracts \in Seq(Row)
      BY <1>3, <2>1, <3>2
    <3>5. Len(contracts) \in Nat
      BY <3>4
    <3> QED BY <1>3, <3>1, <3>3, <3>4, <3>5
  <2>4. CASE PairReply
    <3>1. stage = "pairReply" /\ stage' = "factoryReply" /\ lpTokens' = lpTokens
          /\ contracts' = [contracts EXCEPT ![Len(contracts)].info.lpToken = Len(lpTokens)]
      BY <2>4 DEF PairReply
    <3>2. contracts = Append(before[2], NewPair(None))
          /\ lpTokens = Append(before[3], Len(contracts))
      BY <3>1 DEF RegistryInv, InTransaction
    <3> DEFINE n == Len(before[2])
               old == NewPair(None)
               new == NewPair(Len(lpTokens))
    <3>3. n \in Nat /\ Len(contracts) = n + 1 /\ contracts[n + 1] = old
      BY <1>3, <2>1, <3>2
    <3>4. new = [old EXCEPT !.info.lpToken = Len(lpTokens)]
      BY DEF NewPair
    <3>5. new \in Row
      <4>1. Len(lpTokens) \in Nat
        BY <1>3
      <4> QED BY <1>3, <4>1, NewPairType
    <3>6. contracts' = [contracts EXCEPT ![n + 1] = new]
      BY <3>1, <3>3, <3>4
    <3> HIDE DEF old, new
    <3>7. contracts' = Append(before[2], new)
      <4>1. contracts = Append(before[2], old) /\ old \in Row
        BY <2>1, <3>2 DEF old
      <4>2. [Append(before[2], old) EXCEPT ![n + 1] = new] = Append(before[2], new)
        <5>1. PICK s \in Seq(Row), x \in Row, y \in Row : s = before[2] /\ x = old /\ y = new
          BY <1>3, <3>5, <4>1
        <5>2. [Append(s, x) EXCEPT ![Len(s) + 1] = y] = Append(s, y)
          BY LastReplaced
        <5> QED BY <5>1, <5>2
      <4> QED BY <3>6, <4>1, <4>2
    <3>8. Len(contracts') = Len(contracts)
      BY <1>3, <3>3, <3>5, <3>7
    <3>9. InTransaction'
      <4>1. contracts' = Append(before[2], NewPair(Len(lpTokens)))
        BY <3>7 DEF new
      <4>2. NewPair(Len(lpTokens))' = NewPair(Len(lpTokens))
        BY <1>1, <3>1 DEF NewPair
      <4> QED BY <1>1, <3>1, <3>2, <3>8, <4>1, <4>2 DEF InTransaction
    <3>10. contracts' \in Seq(Row)
      BY <1>3, <3>5, <3>7
    <3>11. lpTokens' \in Seq(Nat)
      BY <1>3, <3>1
    <3> QED BY <3>9, <3>10, <3>11
  <2> QED BY <2>2, <2>3, <2>4
<1>6. RegistryTypeOK'
  BY <1>1, <1>5 DEF RegistryInv, RegistryTypeOK, Row
<1>7. /\ before'[1] \in Noted \cup {None} /\ before'[2] \in Seq(Row) /\ before'[3] \in Seq(Nat)
  BY <1>1 DEF RegistryInv
<1> QED BY <1>1, <1>2, <1>5, <1>6, <1>7 DEF RegistryInv

LEMMA FactoryReplyInv ==
  ASSUME RegistryInv, FactoryReply
  PROVE  RegistryInv'
<1> DEFINE cs == before[2]
           ts == before[3]
           n == Len(cs)
           lp == Len(lpTokens)
           entry == [assets |-> tmp.assets, decimals |-> tmp.decimals, lpToken |-> lp]
           new == [key |-> tmp.key, contract |-> n + 1, info |-> entry]
<1>1. /\ stage = "factoryReply" /\ stage' = "idle"
      /\ UNCHANGED <<config, funded, tmp, contracts, lpTokens, before>>
  BY DEF FactoryReply, created
<1>2. /\ cs \in Seq(Row) /\ ts \in Seq(Nat) /\ Complete(cs, ts)
      /\ tmp \in Noted /\ tmp.key = PairKey(tmp.assets) /\ Registered(tmp.key) = {}
      /\ contracts = Append(cs, NewPair(lp)) /\ lpTokens = Append(ts, Len(contracts))
      /\ contracts \in Seq(Row) /\ lpTokens \in Seq(Nat) /\ pairs \subseteq Entry
  BY <1>1 DEF RegistryInv, RegistryTypeOK, InTransaction, NotedIsFree, Row
<1>3. lp \in Nat /\ lp = Len(ts) + 1 /\ n \in Nat /\ Len(contracts) = n + 1
  <2>1. NewPair(lp) \in Row
    <3>1. lp \in Nat
      BY <1>2
    <3> QED BY <1>2, <3>1, NewPairType
  <2> QED BY <1>2, <2>1
<1>4. NewPair(lp).info = entry /\ entry \in PairInfo
  BY <1>2, <1>3 DEF NewPair, PairInfo, Noted
<1>5. /\ contracts[n + 1].info = entry
      /\ \A i \in 1..n : contracts[i] = cs[i]
  <2>1. contracts[n + 1] = NewPair(lp)
    BY <1>2
  <2>2. \A i \in 1..n : contracts[i] = cs[i]
    BY <1>2
  <2> HIDE DEF entry
  <2> QED BY <1>4, <2>1, <2>2
<1>6. \A e \in pairs : e.key # tmp.key
  BY <1>2 DEF Registered
<1>7. pairs' = pairs \cup {new}
  BY <1>1, <1>3, <1>5, <1>6 DEF FactoryReply
<1>8. new \in Entry /\ new.key = tmp.key /\ new.contract = n + 1 /\ new.info = entry
  <2> HIDE DEF entry
  <2> QED BY <1>2, <1>3, <1>4 DEF Entry, Noted
<1>9. EntryOf(contracts, n + 1) = new
  <2>1. contracts[n + 1].info.assets = tmp.assets
    BY <1>5
  <2> HIDE DEF entry
  <2> QED BY <1>2, <1>5, <2>1 DEF EntryOf
<1>10. \A i \in 1..n : EntryOf(contracts, i) = EntryOf(cs, i)
  BY <1>5 DEF EntryOf
<1>11. \A i \in DOMAIN ts : i \in DOMAIN lpTokens /\ lpTokens[i] = ts[i]
  BY <1>2, <1>3
<1>12. entry.lpToken = lp /\ lp \in DOMAIN lpTokens /\ lpTokens[lp] = n + 1
  BY <1>2, <1>3
<1>13. DOMAIN cs = 1..n /\ DOMAIN contracts = 1..(n + 1)
  BY <1>2, <1>3
<1> HIDE DEF cs, ts, n, entry, new, lp
<1>14. ASSUME NEW i \in DOMAIN contracts
       PROVE  /\ EntryOf(contracts, i) \in pairs'
              /\ contracts[i].info.lpToken \in DOMAIN lpTokens
              /\ lpTokens[contracts[i].info.lpToken] = i
  <2>1. CASE i = n + 1
    BY <1>5, <1>7, <1>9, <1>12, <2>1
  <2>2. CASE i # n + 1
    <3>1. i \in 1..n
      BY <1>3, <1>13, <2>2
    <3>2. /\ EntryOf(cs, i) \in pairs
          /\ cs[i].info.lpToken \in DOMAIN ts /\ ts[cs[i].info.lpToken] = i
      BY <1>2, <1>13, <3>1 DEF Complete
    <3> QED BY <1>5, <1>7, <1>10, <1>11, <3>1, <3>2
  <2> QED BY <2>1, <2>2
<1>15. ASSUME NEW e \in pairs'
       PROVE  e.contract \in DOMAIN contracts /\ e = EntryOf(contracts, e.contract)
  <2>1. CASE e = new
    BY <1>3, <1>8, <1>9, <1>13, <2>1
  <2>2. CASE e \in pairs
    <3>1. e.contract \in 1..n /\ e = EntryOf(cs, e.contract)
      BY <1>2, <1>13, <2>2 DEF Complete
    <3> QED BY <1>3, <1>10, <1>13, <3>1
  <2> QED BY <1>7, <2>1, <2>2
<1>16. \A e, f \in pairs' : e.key = f.key => e = f
  BY <1>2, <1>6, <1>7, <1>8 DEF Complete
<1>17. Complete(contracts, lpTokens)'
  <2>1. \A i : EntryOf(contracts, i)' = EntryOf(contracts, i)
    BY <1>1 DEF EntryOf, PairKey
  <2> QED BY <1>1, <1>14, <1>15, <1>16, <2>1 DEF Complete
<1>18. pairs' \subseteq Entry
  BY <1>2, <1>7, <1>8
<1>19. RegistryTypeOK'
  BY <1>1, <1>18 DEF RegistryInv, RegistryTypeOK, Stages
<1>20. InTransaction'
  BY <1>1 DEF InTransaction
<1> QED BY <1>1, <1>17, <1>19, <1>20 DEF RegistryInv

LEMMA AbortInv ==
  ASSUME RegistryInv, Abort
  PROVE  RegistryInv'
<1>1. /\ stage # "idle" /\ stage' = "idle" /\ tmp' = before[1]
      /\ contracts' = before[2] /\ lpTokens' = before[3]
      /\ UNCHANGED <<config, funded, pairs, before>>
  BY DEF Abort
<1>2. Complete(contracts, lpTokens)'
  BY <1>1 DEF RegistryInv, Complete, EntryOf, PairKey
<1>3. RegistryTypeOK'
  BY <1>1 DEF RegistryInv, RegistryTypeOK, Row, Noted, Stages
<1> QED BY <1>1, <1>2, <1>3 DEF RegistryInv, InTransaction

LEMMA NextInv ==
  ASSUME RegistryInv, [RegistryNext]_registryVars
  PROVE  RegistryInv'
<1>1. CASE RegistryCall
  BY <1>1, UpdateConfigInv, CreatePairInv DEF RegistryCall
<1>2. CASE CreationStep
  BY <1>2, ProgressInv, FactoryReplyInv DEF CreationStep
<1>3. CASE Abort
  BY <1>3, AbortInv
<1>4. ASSUME NEW asset \in Natives, Fund(asset) PROVE RegistryInv'
  BY <1>4, FundInv
<1>5. CASE UNCHANGED registryVars
  <2>1. UNCHANGED <<config, funded, pairs, tmp, contracts, lpTokens, stage, before>>
    BY <1>5 DEF registryVars, created
  <2> QED BY <2>1 DEF RegistryInv, RegistryTypeOK, InTransaction, NewPair, Complete, EntryOf,
                      PairKey, NotedIsFree, Registered
<1> QED BY <1>1, <1>2, <1>3, <1>4, <1>5 DEF RegistryNext

LEMMA CompleteIsRegistered == RegistryInv => PairsAreRegistered
<1> SUFFICES ASSUME RegistryInv, stage = "idle" PROVE PairsAreRegistered
  BY DEF PairsAreRegistered
<1>1. Complete(contracts, lpTokens) /\ contracts \in Seq(Row)
  BY DEF RegistryInv, RegistryTypeOK, Row
<1>2. ASSUME NEW i \in DOMAIN contracts
      PROVE  LET entry == contracts[i].info
             IN  /\ QueryPair(entry.assets)
                      = {[key |-> PairKey(entry.assets), contract |-> i, info |-> entry]}
                 /\ QueryPair(<<entry.assets[2], entry.assets[1]>>) = QueryPair(entry.assets)
                 /\ entry.lpToken \in DOMAIN lpTokens /\ lpTokens[entry.lpToken] = i
  <2> DEFINE assets == contracts[i].info.assets
  <2>1. assets \in AssetPair
    <3>1. contracts[i] \in Row
      BY <1>1
    <3> QED BY <3>1 DEF Row, PairInfo
  <2>2. PairKey(<<assets[2], assets[1]>>) = PairKey(assets)
    BY <2>1, KeyIgnoresOrder
  <2>3. EntryOf(contracts, i) \in pairs /\ EntryOf(contracts, i).key = PairKey(assets)
    BY <1>1 DEF Complete, EntryOf
  <2>4. \A e \in pairs : e.key = PairKey(assets) => e = EntryOf(contracts, i)
    BY <1>1, <2>3 DEF Complete
  <2>5. QueryPair(assets) = {EntryOf(contracts, i)}
    <3> HIDE DEF assets
    <3> QED BY <2>3, <2>4 DEF QueryPair, Registered
  <2>6. QueryPair(<<assets[2], assets[1]>>) = QueryPair(assets)
    <3> HIDE DEF assets
    <3> QED BY <2>2 DEF QueryPair
  <2> QED BY <1>1, <2>5, <2>6 DEF Complete, EntryOf
<1>3. \A e \in pairs : e.contract \in DOMAIN contracts
  BY <1>1 DEF Complete
<1> QED BY <1>2, <1>3 DEF PairsAreRegistered

-----------------------------------------------------------------------------
(* Anchor: two shares of an amount, each rounded down, are not above it *)

LEMMA ShareIsBelow ==
  ASSUME NEW n \in Nat, NEW p \in Portion
  PROVE  Share(n, p) \in Nat /\ Share(n, p) * One <= n * p
<1>1. One \in Nat /\ One > 0 /\ n * p \in Nat
  BY AnchorAssumption DEF Portion
<1> DEFINE m == n * p
<1>2. m \in Nat
  BY <1>1
<1> HIDE DEF m
<1>3. m \div One \in Nat /\ (m \div One) * One <= m
  BY <1>1, <1>2
<1> QED BY <1>3 DEF Share, m

LEMMA SharesFit ==
  ASSUME NEW n \in Nat, NEW a \in Portion, NEW l \in Portion, a + l = One
  PROVE  Share(n, a) + Share(n, l) <= n
<1> DEFINE x == Share(n, a)
           y == Share(n, l)
<1>1. x \in Nat /\ y \in Nat /\ x * One <= n * a /\ y * One <= n * l
  BY ShareIsBelow
<1>2. One \in Nat /\ One > 0 /\ a \in Nat /\ l \in Nat
  BY AnchorAssumption DEF Portion
<1> HIDE DEF x, y
<1>3. n * a + n * l = n * One
  BY <1>2
<1>4. (x + y) * One <= n * One
  BY <1>1, <1>2, <1>3
<1>5. x + y <= n
  <2> SUFFICES ASSUME x + y >= n + 1 PROVE FALSE
    BY <1>1
  <2> DEFINE d == x + y - (n + 1)
  <2>1. d \in Nat /\ x + y = n + 1 + d
    BY <1>1
  <2> HIDE DEF d
  <2>2. (x + y) * One = n * One + One + d * One
    BY <2>1, <1>2
  <2>3. d * One >= 0
    BY <2>1, <1>2
  <2>4. n * One \in Nat /\ d * One \in Nat
    BY <2>1, <1>2
  <2> QED BY <2>2, <2>3, <2>4, <1>4, <1>2
<1> QED BY <1>5 DEF x, y

(* The portions make up the whole, and the total is what Anchor was sent.   *)
AnchorInv ==
  /\ AnchorTypeOK
  /\ SumToOne(account.anchor, account.luna)
  /\ account.total = market.stable

LEMMA AnchorInitInv == AnchorInit => AnchorInv
BY AnchorAssumption DEF AnchorInit, AnchorInv, AnchorTypeOK, SumToOne

LEMMA AnchorNextInv ==
  AnchorInv /\ [AnchorNext]_anchorVars
    => /\ AnchorInv'
       /\ [/\ (paidIn' > paidIn => cash' >= cash)
           /\ account'.total = market'.stable]_anchorVars
<1> SUFFICES ASSUME AnchorInv, [AnchorNext]_anchorVars
             PROVE  AnchorInv' /\ (paidIn' > paidIn => cash' >= cash)
  BY DEF AnchorInv
<1> USE DEF AnchorInv, AnchorTypeOK
<1>1. StableAmounts \subseteq Nat /\ 0..MaxStable \subseteq Nat
  BY AnchorAssumption
<1>2. ASSUME NEW amount \in StableAmounts, NEW minted \in 0..MaxStable,
             ExecuteDeposit(amount, minted)
      PROVE  AnchorInv' /\ (paidIn' > paidIn => cash' >= cash)
  <2>1. amount \in Nat /\ minted \in Nat
    BY <1>1
  <2>2. account.anchor \in Portion /\ account.luna \in Portion
    OBVIOUS
  <2>3. /\ Share(amount, account.anchor) \in Nat
        /\ Share(amount, account.luna) \in Nat
        /\ Share(amount, account.anchor) + Share(amount, account.luna) <= amount
    BY <2>1, <2>2, ShareIsBelow, SharesFit DEF SumToOne
  <2> DEFINE x == Share(amount, account.anchor)
             y == Share(amount, account.luna)
  <2>4. /\ paidIn' = paidIn + amount
        /\ cash + amount >= x + y
        /\ cash' = cash + amount - x - y
        /\ account' = [account EXCEPT !.total = @ + x]
        /\ market' = [market EXCEPT !.stable = @ + x, !.swapped = @ + y]
        /\ aust' = aust + minted
    BY <1>2 DEF ExecuteDeposit
  <2> HIDE DEF x, y
  <2>5. x \in Nat /\ y \in Nat /\ x + y <= amount
    BY <2>3 DEF x, y
  <2>6. cash' \in Nat /\ cash' >= cash /\ aust' \in Nat /\ paidIn' \in Nat
    BY <2>1, <2>4, <2>5
  <2>7. /\ account' \in [owner : Investors, total : Nat, anchor : Portion, luna : Portion]
        /\ account'.anchor = account.anchor /\ account'.luna = account.luna
        /\ account'.total = account.total + x
    BY <2>4, <2>5
  <2>8. /\ market' \in [stable : Nat, aust : Nat, swapped : Nat]
        /\ market'.stable = market.stable + x
    <3>1. market \in [stable : Nat, aust : Nat, swapped : Nat]
      OBVIOUS
    <3>2. market' = [stable |-> market.stable + x, aust |-> market.aust,
                     swapped |-> market.swapped + y]
      BY <2>4, <3>1
    <3> QED BY <2>5, <3>1, <3>2
  <2> QED BY <2>4, <2>6, <2>7, <2>8 DEF SumToOne
<1>3. ASSUME NEW amount \in StableAmounts, ExecuteWithdraw(amount)
      PROVE  AnchorInv' /\ (paidIn' > paidIn => cash' >= cash)
  BY <1>1, <1>3 DEF ExecuteWithdraw
<1>4. ASSUME NEW caller \in Investors, NEW amount \in StableAmounts,
             ExecuteSendToWallet(caller, amount)
      PROVE  AnchorInv' /\ (paidIn' > paidIn => cash' >= cash)
  BY <1>1, <1>4 DEF ExecuteSendToWallet
<1>5. ASSUME NEW caller \in Investors, NEW new \in Investors, ExecuteSetOwner(caller, new)
      PROVE  AnchorInv' /\ (paidIn' > paidIn => cash' >= cash)
  <2>1. /\ account' \in [owner : Investors, total : Nat, anchor : Portion, luna : Portion]
        /\ account'.anchor = account.anchor /\ account'.luna = account.luna
        /\ account'.total = account.total
    BY <1>5 DEF ExecuteSetOwner
  <2>2. UNCHANGED <<cash, aust, market, paidIn>>
    BY <1>5 DEF ExecuteSetOwner
  <2> QED BY <2>1, <2>2 DEF SumToOne
<1>6. ASSUME NEW caller \in Investors, NEW a \in Portion, NEW l \in Portion,
             ExecuteChangePortion(caller, a, l)
      PROVE  AnchorInv' /\ (paidIn' > paidIn => cash' >= cash)
  <2>1. /\ account' \in [owner : Investors, total : Nat, anchor : Portion, luna : Portion]
        /\ account'.anchor = a /\ account'.luna = l
        /\ account'.total = account.total
    BY <1>6 DEF ExecuteChangePortion
  <2>2. a + l = One /\ UNCHANGED <<cash, aust, market, paidIn>>
    BY <1>6 DEF ExecuteChangePortion, SumToOne
  <2> QED BY <2>1, <2>2 DEF SumToOne
<1>7. CASE UNCHANGED anchorVars
  BY <1>7 DEF anchorVars
<1> QED BY <1>2, <1>3, <1>4, <1>5, <1>6, <1>7 DEF AnchorNext

-----------------------------------------------------------------------------
(* Marketing: the record and the logo are written together *)

MarketingInv == MarketingTypeOK /\ InfoMatchesLogo

LEMMA MarketingInitInv == MarketingInit => MarketingInv
<1> SUFFICES ASSUME MarketingInit PROVE MarketingInv
  OBVIOUS
<1> USE DEF MarketingInv, MarketingTypeOK, InfoMatchesLogo, QueryMarketingInfo, Downloadable,
            LogoInfo
<1>1. CASE info = NoInfo /\ logo = NoLogo
  BY <1>1, MarketingAssumption
<1>2. CASE /\ logo \in {NoLogo} \cup {l \in Logo : VerifyLogo(l)}
           /\ info \in {i \in MarketingInfo : i.logo = LogoInfo(logo)}
  <2>1. info \in MarketingInfo /\ info.logo = LogoInfo(logo) /\ info # NoInfo
    BY <1>2, MarketingAssumption
  <2>2. logo # NoLogo /\ logo.kind # "url" => logo.proper /\ logo.size <= LogoSizeCap
    BY <1>2 DEF Logo, VerifyLogo, VerifyXmlLogo, VerifyPngLogo
  <2>3. LogoInfo(logo) = "embedded" <=> logo # NoLogo /\ logo.kind # "url"
    BY MarketingAssumption
  <2> QED BY <1>2, <2>1, <2>2, <2>3
<1> QED BY <1>1, <1>2 DEF MarketingInit

LEMMA MarketingNextInv == MarketingInv /\ [MarketingNext]_marketingVars => MarketingInv'
<1> SUFFICES ASSUME MarketingInv, [MarketingNext]_marketingVars PROVE MarketingInv'
  OBVIOUS
<1> USE DEF MarketingInv, MarketingTypeOK, InfoMatchesLogo, QueryMarketingInfo, Downloadable,
            LogoInfo
<1>1. ASSUME NEW sender \in Marketers,
             NEW project \in Texts \cup {Blank, NotGiven},
             NEW description \in Texts \cup {Blank, NotGiven},
             NEW marketing \in Marketers \cup {Blank, NotGiven},
             ExecuteUpdateMarketing(sender, project, description, marketing)
      PROVE  MarketingInv'
  <2> DEFINE new == [info EXCEPT !.project = Updated(@, project),
                                 !.description = Updated(@, description),
                                 !.marketing = Updated(@, marketing)]
  <2>1. info \in MarketingInfo /\ UNCHANGED logo
    BY <1>1 DEF ExecuteUpdateMarketing, MayMarket
  <2>2. new \in MarketingInfo /\ new.logo = info.logo
    BY <2>1, MarketingAssumption, ZenonT(30) DEF MarketingInfo, Updated
  <2>3. info' = IF SaysNothing(new) THEN NoInfo ELSE new
    BY <1>1 DEF ExecuteUpdateMarketing
  <2> HIDE DEF new
  <2>4. SaysNothing(new) => new.logo = NotGiven
    BY DEF SaysNothing
  <2> QED BY <2>1, <2>2, <2>3, <2>4, MarketingAssumption
<1>2. ASSUME NEW sender \in Marketers, NEW new \in Logo, ExecuteUploadLogo(sender, new)
      PROVE  MarketingInv'
  <2>1. info \in MarketingInfo /\ logo' = new /\ VerifyLogo(new) /\ new # NoLogo
    BY <1>2, MarketingAssumption DEF ExecuteUploadLogo, MayMarket
  <2>2. info' \in MarketingInfo /\ info'.logo = LogoInfo(new)
    BY <1>2, <2>1, MarketingAssumption DEF ExecuteUploadLogo, MarketingInfo
  <2>3. new.kind # "url" => new.proper /\ new.size <= LogoSizeCap
    BY <2>1 DEF Logo, VerifyLogo, VerifyXmlLogo, VerifyPngLogo
  <2> QED BY <2>1, <2>2, <2>3, MarketingAssumption
<1>3. CASE UNCHANGED marketingVars
  BY <1>3 DEF marketingVars
<1> QED BY <1>1, <1>2, <1>3 DEF MarketingNext

-----------------------------------------------------------------------------
(* Theorems *)

LEMMA Invariance == RegistrySpec => []RegistryInv
<1>1. RegistryInit => RegistryInv
  BY InitInv
<1>2. RegistryInv /\ [RegistryNext]_registryVars => RegistryInv'
  BY NextInv
<1> QED BY <1>1, <1>2, PTL DEF RegistrySpec

(* The records of the factory, the pairs and their tokens are complete      *)
(* between transactions and typed within them.                              *)
THEOREM TypeCorrect == RegistrySpec => []RegistryTypeOK
<1>1. RegistryInv => RegistryTypeOK
  BY DEF RegistryInv
<1> QED BY <1>1, Invariance, PTL

(* Every pair is found under its assets in either order, once, as it is,    *)
(* with a liquidity token of its own, wherever a creation was aborted.      *)
THEOREM PairsAreFound == RegistrySpec => []PairsAreRegistered
<1>1. RegistryInv => PairsAreRegistered
  BY CompleteIsRegistered
<1> QED BY <1>1, Invariance, PTL

(* Whatever the portions are changed to between deposits, no deposit takes  *)
(* from the coins the contract holds, and total_deposit is what was sent.   *)
THEOREM SharesFitDeposits == AnchorSpec => DepositsPayThemselves
BY AnchorInitInv, AnchorNextInv, PTL DEF AnchorSpec, DepositsPayThemselves

(* The record always names the kind of the logo that is stored, and what it *)
(* calls embedded can be downloaded and has passed the checks.              *)
THEOREM LogosAreNamed == MarketingSpec => []InfoMatchesLogo
<1>1. MarketingInv => InfoMatchesLogo
  BY DEF MarketingInv
<1> QED BY <1>1, MarketingInitInv, MarketingNextInv, PTL DEF MarketingSpec

-----------------------------------------------------------------------------
(* The stores of storage-plus: records and indexes                          *)

(* Records are of blocks up to this one; a block in which nothing was      *)
(* written has none, and its values are those of its start.                *)
RecordsAreOld ==
  /\ \A k \in AllKeys, c \in Heights : HasChangelog(k, c) => c <= height
  /\ \A c \in Heights : checkpoints[c] > 0 => c <= height

QuietBlock ==
  ~ touched => \A k \in AllKeys : primary[k] = past[height][k] /\ ~ HasChangelog(k, height)

HistoryInv == SnapshotsTypeOK /\ RecordsAreOld /\ QuietBlock /\ HistoryIsKept

(* Every row is the one its tag stands for. *)
RowsKeepTheirTag ==
  \A k \in AllKeys : primary[k] # Absent =>
    unique[TagOf[primary[k]]] # Absent /\ unique[TagOf[primary[k]]].pk = k

TagsAreCopies ==
  \A t \in Tags : unique[t] # Absent =>
    TagOf[unique[t].value] = t /\ primary[unique[t].pk] = unique[t].value

BucketsAreRows ==
  \A b \in Buckets, k \in AllKeys :
    <<b, k>> \in multi <=> primary[k] # Absent /\ BucketOf[primary[k]] = b

IndexInv ==
  /\ SnapshotsTypeOK
  /\ form = "indexed" => RowsKeepTheirTag /\ TagsAreCopies /\ BucketsAreRows

-----------------------------------------------------------------------------
(* Heights *)

LEMMA LargestHeight ==
  ASSUME NEW S \in SUBSET Heights, S # {}
  PROVE  \E x \in S : \A y \in S : y <= x
<1> DEFINE T == {t \in 1..(MaxHeight + 1) : t - 1 \in S}
<1>1. MaxHeight \in Nat /\ Heights = 0..MaxHeight
  BY SnapshotsAssumption DEF SnapshotsAssumption, Heights
<1>2. \A h \in S : h \in 0..MaxHeight /\ h + 1 \in T
  BY <1>1
<1>3. T \in SUBSET (1..(MaxHeight + 1)) /\ T # {} /\ MaxHeight + 1 \in Nat
  <2>1. T \in SUBSET (1..(MaxHeight + 1))
    OBVIOUS
  <2>2. T # {}
    BY <1>2
  <2> QED BY <1>1, <2>1, <2>2
<1>4. PICK t \in T : \A u \in T : t >= u
  BY <1>3, MaximumExists
<1>5. t - 1 \in S /\ \A y \in S : y <= t - 1
  BY <1>1, <1>2, <1>4
<1> QED BY <1>5

LEMMA SmallestHeight ==
  ASSUME NEW S \in SUBSET Heights, S # {}
  PROVE  \E x \in S : \A y \in S : x <= y
<1> DEFINE T == {t \in 0..MaxHeight : MaxHeight - t \in S}
<1>1. MaxHeight \in Nat /\ Heights = 0..MaxHeight
  BY SnapshotsAssumption DEF SnapshotsAssumption, Heights
<1>2. \A h \in S : h \in 0..MaxHeight /\ MaxHeight - h \in T
  BY <1>1
<1>3. T \in SUBSET Heights /\ T # {}
  BY <1>1, <1>2
<1>4. PICK t \in T : \A u \in T : u <= t
  BY <1>3, LargestHeight
<1>5. MaxHeight - t \in S /\ \A y \in S : MaxHeight - t <= y
  BY <1>1, <1>2, <1>4
<1> QED BY <1>5

(* The earliest record is the only height the definition chooses. *)
LEMMA ChooseFirst ==
  ASSUME NEW D \in SUBSET Heights, NEW c \in D, \A d \in D : c <= d
  PROVE  (CHOOSE x \in Heights : x \in D /\ \A d \in D : x <= d) = c
<1>1. MaxHeight \in Nat /\ Heights = 0..MaxHeight
  BY SnapshotsAssumption DEF SnapshotsAssumption, Heights
<1>2. ASSUME NEW x \in Heights, x \in D /\ \A d \in D : x <= d PROVE x = c
  BY <1>1, <1>2
<1> QED BY <1>2

-----------------------------------------------------------------------------
(* Types *)

LEMMA StoreType ==
  ASSUME SnapshotsTypeOK, NEW k \in AllKeys, NEW value \in Maybe, Store(k, value),
         multi' \subseteq Buckets \X AllKeys,
         unique' \in [Tags -> [pk : AllKeys, value : Values] \cup {Absent}]
  PROVE  SnapshotsTypeOK'
<1>1. changelog' \in [AllKeys -> [Heights -> Maybe \cup {Unchanged}]]
  BY DEF SnapshotsTypeOK, Store, WriteChange
<1>2. primary' \in [AllKeys -> Maybe]
  BY DEF SnapshotsTypeOK, Store
<1> QED BY <1>1, <1>2 DEF SnapshotsTypeOK, Store

LEMMA IndexType ==
  ASSUME SnapshotsTypeOK, NEW k \in AllKeys, NEW new \in Maybe, NEW old \in Maybe,
         Replace(k, new, old)
  PROVE  SnapshotsTypeOK'
<1>1. BucketOf \in [Values -> Buckets] /\ TagOf \in [Values -> Tags]
  BY SnapshotsAssumption DEF SnapshotsAssumption
<1>2. new # Absent => new \in Values
  BY DEF Maybe
<1>3. old # Absent => old \in Values
  BY DEF Maybe
<1>4. multi' \subseteq Buckets \X AllKeys
  BY <1>1, <1>2 DEF SnapshotsTypeOK, Replace, MultiWith, MultiWithout
<1>5. UniqueWithout(old) \in [Tags -> [pk : AllKeys, value : Values] \cup {Absent}]
  BY <1>1, <1>3 DEF SnapshotsTypeOK, UniqueWithout
<1>6. unique' \in [Tags -> [pk : AllKeys, value : Values] \cup {Absent}]
  <2> DEFINE U == UniqueWithout(old)
  <2>1. unique' = UniqueWith(U, k, new)
    BY DEF Replace
  <2>2. U \in [Tags -> [pk : AllKeys, value : Values] \cup {Absent}]
    BY <1>5
  <2> HIDE DEF U
  <2> QED BY <1>1, <1>2, <2>1, <2>2 DEF UniqueWith
<1> QED BY <1>4, <1>6, StoreType DEF Replace

LEMMA OutcomeType ==
  ASSUME NEW v \in Maybe, Outcome[v] # Refused
  PROVE  Outcome[v] \in Maybe
BY SnapshotsAssumption DEF SnapshotsAssumption, Maybe

(* Every call on a store is a Store, with the indexes replaced or left alone. *)
LEMMA CallsAreStores ==
  ASSUME SnapshotsTypeOK,
         \/ ItemCall
         \/ \E k \in Keys : MapCall(k) \/ IndexedCall(k)
  PROVE  \E k \in AllKeys, value \in Maybe :
           \/ form # "indexed" /\ Store(k, value) /\ UNCHANGED indexes
           \/ Replace(k, value, primary[k])
<1> DEFINE Good(k, value) == \/ form # "indexed" /\ Store(k, value) /\ UNCHANGED indexes
                             \/ Replace(k, value, primary[k])
<1>1. Unit \in AllKeys /\ \A k \in Keys : k \in AllKeys
  BY DEF AllKeys
<1>2. Absent \in Maybe /\ \A v \in Values : v \in Maybe
  BY DEF Maybe
<1>3. \A k \in AllKeys : primary[k] \in Maybe
  BY DEF SnapshotsTypeOK
<1>4. CASE ItemCall
  <2>1. PICK value \in Maybe : form = "item" /\ Store(Unit, value) /\ UNCHANGED indexes
    BY <1>1, <1>2, <1>3, <1>4, OutcomeType DEF ItemCall, ItemSave, ItemRemove, ItemUpdate
  <2> QED BY <1>1, <2>1
<1>5. ASSUME NEW k \in Keys, MapCall(k) PROVE \E value \in Maybe : Good(k, value)
  <2>1. PICK value \in Maybe : form = "map" /\ Store(k, value) /\ UNCHANGED indexes
    BY <1>1, <1>2, <1>3, <1>5, OutcomeType DEF MapCall, MapSave, MapRemove, MapUpdate
  <2> QED BY <2>1
<1>6. ASSUME NEW k \in Keys, IndexedCall(k) PROVE \E value \in Maybe : Good(k, value)
  <2>1. PICK value \in Maybe : Replace(k, value, primary[k])
    BY <1>1, <1>2, <1>3, <1>6, OutcomeType
    DEF IndexedCall, IndexedSave, IndexedRemove, IndexedUpdate
  <2> QED BY <2>1
<1> QED BY <1>1, <1>4, <1>5, <1>6

LEMMA InitType == SnapshotsInit => SnapshotsTypeOK
<1> SUFFICES ASSUME SnapshotsInit PROVE SnapshotsTypeOK
  OBVIOUS
<1>1. MaxHeight \in Nat /\ Heights = 0..MaxHeight
  BY SnapshotsAssumption DEF SnapshotsAssumption, Heights
<1>2. form \in Forms /\ strategy \in Strategies
  BY SnapshotsAssumption DEF SnapshotsAssumption, SnapshotsInit
<1>3. /\ height \in Heights
      /\ primary \in [AllKeys -> Maybe]
      /\ checkpoints \in [Heights -> Nat]
  BY <1>1 DEF SnapshotsInit, Maybe
<1>4. changelog \in [AllKeys -> [Heights -> Maybe \cup {Unchanged}]]
  BY DEF SnapshotsInit
<1>5. past \in [Heights -> [AllKeys -> Maybe]]
  BY DEF SnapshotsInit, Maybe
<1>6. /\ multi \subseteq Buckets \X AllKeys
      /\ unique \in [Tags -> [pk : AllKeys, value : Values] \cup {Absent}]
      /\ touched \in BOOLEAN
  BY DEF SnapshotsInit
<1> QED BY <1>2, <1>3, <1>4, <1>5, <1>6 DEF SnapshotsTypeOK

LEMMA NextType ==
  ASSUME SnapshotsTypeOK, [SnapshotsNext]_snapshotVars
  PROVE  SnapshotsTypeOK'
<1>0. MaxHeight \in Nat /\ Heights = 0..MaxHeight
  BY SnapshotsAssumption DEF SnapshotsAssumption, Heights
<1>1. CASE NextBlock
  <2>1. height' \in Heights
    BY <1>0, <1>1 DEF NextBlock, SnapshotsTypeOK
  <2>2. past' \in [Heights -> [AllKeys -> Maybe]]
    BY <1>1 DEF NextBlock, SnapshotsTypeOK
  <2> QED BY <1>1, <2>1, <2>2 DEF NextBlock, SnapshotsTypeOK, snapshots, indexes
<1>2. CASE CheckpointCall
  <2>1. CASE AddCheckpoint
    BY <2>1 DEF AddCheckpoint, SnapshotsTypeOK, indexes
  <2>2. ASSUME NEW h \in Heights, RemoveCheckpoint(h) PROVE SnapshotsTypeOK'
    <3>1. checkpoints' \in [Heights -> Nat]
      BY <2>2 DEF RemoveCheckpoint, SnapshotsTypeOK
    <3> QED BY <2>2, <3>1 DEF RemoveCheckpoint, SnapshotsTypeOK, indexes
  <2> QED BY <1>2, <2>1, <2>2 DEF CheckpointCall
<1>3. CASE ItemCall \/ \E k \in Keys : MapCall(k) \/ IndexedCall(k)
  <2>1. PICK k \in AllKeys, value \in Maybe :
          \/ form # "indexed" /\ Store(k, value) /\ UNCHANGED indexes
          \/ Replace(k, value, primary[k])
    BY <1>3, CallsAreStores
  <2>2. primary[k] \in Maybe
    BY DEF SnapshotsTypeOK
  <2>3. CASE Replace(k, value, primary[k])
    BY <2>2, <2>3, IndexType
  <2>4. CASE Store(k, value) /\ UNCHANGED indexes
    BY <2>4, StoreType DEF SnapshotsTypeOK, indexes
  <2> QED BY <2>1, <2>3, <2>4
<1>4. CASE UNCHANGED snapshotVars
  BY <1>4 DEF snapshotVars, snapshots, indexes, SnapshotsTypeOK
<1> QED BY <1>1, <1>2, <1>3, <1>4 DEF SnapshotsNext

(* Keys, heights, records and index entries are of the kinds the library    *)
(* declares, in every store after any calls.                                *)
THEOREM StoresAreTyped == SnapshotsSpec => []SnapshotsTypeOK
<1>1. SnapshotsInit => SnapshotsTypeOK
  BY InitType
<1>2. SnapshotsTypeOK /\ [SnapshotsNext]_snapshotVars => SnapshotsTypeOK'
  BY NextType
<1> QED BY <1>1, <1>2, PTL DEF SnapshotsSpec

-----------------------------------------------------------------------------
(* History *)

LEMMA ReadFirst ==
  ASSUME NEW k, NEW h, NEW c \in ChangesFrom(k, h), \A d \in ChangesFrom(k, h) : c <= d
  PROVE  MayLoadAtHeight(k, h) = changelog[k][c]
<1> DEFINE D == ChangesFrom(k, h)
<1>1. D \in SUBSET Heights /\ c \in D /\ \A d \in D : c <= d
  BY DEF ChangesFrom
<1>2. (CHOOSE x \in Heights : x \in D /\ \A d \in D : x <= d) = c
  <2> HIDE DEF D
  <2> QED BY <1>1, ChooseFirst
<1> QED BY <1>2 DEF MayLoadAtHeight, IsFirstChange

LEMMA StoreHistory ==
  ASSUME HistoryInv, NEW k \in AllKeys, NEW value, Store(k, value), SnapshotsTypeOK'
  PROVE  HistoryInv'
<1> DEFINE Records == ShouldCheckpoint(k) /\ ~ HasChangelog(k, height)
<1>1. MaxHeight \in Nat /\ Heights = 0..MaxHeight /\ height \in Heights
  BY SnapshotsAssumption DEF SnapshotsAssumption, Heights, HistoryInv, SnapshotsTypeOK
<1>2. /\ height' = height /\ past' = past /\ checkpoints' = checkpoints
      /\ strategy' = strategy /\ touched'
  BY DEF Store
<1>3. \A j \in AllKeys : j # k => changelog'[j] = changelog[j] /\ primary'[j] = primary[j]
  BY DEF Store, WriteChange, HistoryInv, SnapshotsTypeOK
<1>4. ~ Records => changelog' = changelog
  BY DEF Store, WriteChange
<1>5. Records => changelog'[k] = [changelog[k] EXCEPT ![height] = primary[k]]
  BY DEF Store, WriteChange, HistoryInv, SnapshotsTypeOK
<1>6. changelog[k] \in [Heights -> Maybe \cup {Unchanged}] /\ primary[k] # Unchanged
  BY SnapshotsAssumption DEF SnapshotsAssumption, HistoryInv, SnapshotsTypeOK
<1>7. RecordsAreOld' /\ QuietBlock'
  <2>1. ASSUME NEW j \in AllKeys, NEW c \in Heights, HasChangelog(j, c)' PROVE c <= height
    <3>1. HasChangelog(j, c) => c <= height
      BY DEF HistoryInv, RecordsAreOld
    <3>2. c # height /\ j = k /\ Records => changelog'[k][c] = changelog[k][c]
      BY <1>5, <1>6
    <3> QED BY <1>1, <1>3, <1>4, <2>1, <3>1, <3>2 DEF HasChangelog
  <2>2. \A c \in Heights : checkpoints[c] > 0 => c <= height
    BY DEF HistoryInv, RecordsAreOld
  <2> QED BY <1>2, <2>1, <2>2 DEF RecordsAreOld, QuietBlock
<1>8. ASSUME NEW j \in AllKeys, NEW h \in 0..height, AssertCheckpointed(h)
      PROVE  MayLoadAtHeight(j, h)' = past[h][j]
  <2>1. h \in Heights /\ height \in Nat /\ h <= height
    BY <1>1
  <2>2. MayLoadAtHeight(j, h) = past[h][j]
    BY <1>8 DEF HistoryInv, HistoryIsKept
  <2>3. CASE j # k
    BY <1>3, <2>2, <2>3 DEF MayLoadAtHeight, IsFirstChange, ChangesFrom, HasChangelog
  <2>4. CASE j = k /\ ~ Records
    <3>1. ChangesFrom(k, h) # {}
      <4>1. CASE HasChangelog(k, height)
        BY <1>1, <2>1, <4>1 DEF ChangesFrom
      <4>2. CASE strategy = "Selected" /\ checkpoints[h] > 0 /\ ~ ShouldCheckpoint(k)
        <5> DEFINE C == {g \in Heights : checkpoints[g] > 0}
        <5>1. C \in SUBSET Heights /\ h \in C
          BY <2>1, <4>2
        <5>2. PICK l \in C : \A g \in C : g <= l
          BY <5>1, LargestHeight
        <5>3. l \in Heights /\ IsLatestCheckpoint(l) /\ h <= l
          BY <5>1, <5>2 DEF IsLatestCheckpoint
        <5>4. ChangesFrom(k, l) # {}
          BY <4>2, <5>3 DEF ShouldCheckpoint, ShouldCheckpointSelected
        <5> QED BY <1>1, <2>1, <5>3, <5>4 DEF ChangesFrom
      <4> QED BY <1>8, <2>4, <4>1, <4>2 DEF AssertCheckpointed, ShouldCheckpoint
    <3> QED BY <1>4, <2>2, <2>4, <3>1
        DEF MayLoadAtHeight, IsFirstChange, ChangesFrom, HasChangelog
  <2>5. CASE j = k /\ Records
    <3>1. \A c \in Heights : HasChangelog(k, c)' <=> c = height \/ HasChangelog(k, c)
      BY <1>5, <1>6, <2>5 DEF HasChangelog
    <3>2. ChangesFrom(k, h)' = ChangesFrom(k, h) \cup {height}
      BY <1>1, <2>1, <3>1 DEF ChangesFrom
    <3>3. \A c \in ChangesFrom(k, h) : c <= height
      BY DEF HistoryInv, RecordsAreOld, ChangesFrom
    <3>4. height \notin ChangesFrom(k, h)
      BY <2>5 DEF ChangesFrom
    <3>5. CASE ChangesFrom(k, h) = {}
      <4>1. MayLoadAtHeight(k, h)' = changelog'[k][height]
        <5>1. (CHOOSE x \in Heights : x \in {height} /\ \A d \in {height} : x <= d) = height
          BY <1>1, ChooseFirst
        <5>2. ChangesFrom(k, h)' = {height}
          BY <3>2, <3>5
        <5> QED BY <5>1, <5>2 DEF MayLoadAtHeight, IsFirstChange
      <4> QED BY <1>1, <1>5, <1>6, <2>2, <2>5, <3>5, <4>1 DEF MayLoadAtHeight
    <3>6. CASE ChangesFrom(k, h) # {}
      <4>1. ChangesFrom(k, h) \in SUBSET Heights
        BY DEF ChangesFrom
      <4>2. PICK c \in ChangesFrom(k, h) : \A d \in ChangesFrom(k, h) : c <= d
        BY <3>6, <4>1, SmallestHeight
      <4>3. MayLoadAtHeight(k, h) = changelog[k][c]
        BY <4>2, ReadFirst
      <4>4. MayLoadAtHeight(k, h)' = changelog'[k][c]
        <5> DEFINE D == ChangesFrom(k, h)'
        <5>1. D \in SUBSET Heights /\ c \in D /\ \A d \in D : c <= d
          BY <1>1, <3>2, <3>3, <4>1, <4>2
        <5>2. (CHOOSE x \in Heights : x \in D /\ \A d \in D : x <= d) = c
          <6> HIDE DEF D
          <6> QED BY <5>1, ChooseFirst
        <5> QED BY <5>1, <5>2 DEF MayLoadAtHeight, IsFirstChange
      <4>5. changelog'[k][c] = changelog[k][c]
        BY <1>5, <1>6, <2>5, <3>4, <4>1, <4>2
      <4> QED BY <2>2, <2>5, <4>3, <4>4, <4>5
    <3> QED BY <3>5, <3>6
  <2> QED BY <2>3, <2>4, <2>5
<1>9. HistoryIsKept'
  BY <1>2, <1>8 DEF HistoryIsKept, AssertCheckpointed
<1> QED BY <1>7, <1>9 DEF HistoryInv

LEMMA InitHistory == SnapshotsInit => HistoryInv
<1> SUFFICES ASSUME SnapshotsInit PROVE HistoryInv
  OBVIOUS
<1>1. MaxHeight \in Nat /\ Heights = 0..MaxHeight /\ height = 0
  BY SnapshotsAssumption DEF SnapshotsAssumption, Heights, SnapshotsInit
<1>2. \A k \in AllKeys, c \in Heights : ~ HasChangelog(k, c)
  BY DEF SnapshotsInit, HasChangelog
<1>3. \A c \in Heights : ~ (checkpoints[c] > 0)
  BY DEF SnapshotsInit
<1>4. \A k \in AllKeys : primary[k] = Absent /\ past[0][k] = Absent
  BY <1>1 DEF SnapshotsInit
<1>5. \A k \in AllKeys, h \in Heights : MayLoadAtHeight(k, h) = primary[k]
  BY <1>2 DEF MayLoadAtHeight, ChangesFrom
<1>6. HistoryIsKept
  BY <1>1, <1>4, <1>5 DEF HistoryIsKept
<1>7. RecordsAreOld /\ QuietBlock
  BY <1>1, <1>2, <1>3, <1>4 DEF RecordsAreOld, QuietBlock
<1> QED BY <1>6, <1>7, InitType DEF HistoryInv

LEMMA NextBlockHistory ==
  ASSUME HistoryInv, NextBlock, SnapshotsTypeOK'
  PROVE  HistoryInv'
<1>1. /\ MaxHeight \in Nat /\ Heights = 0..MaxHeight /\ height \in Heights
      /\ height + 1 \in Heights /\ height' = height + 1
  BY SnapshotsAssumption
  DEF SnapshotsAssumption, Heights, HistoryInv, SnapshotsTypeOK, NextBlock
<1>2. /\ changelog' = changelog /\ checkpoints' = checkpoints /\ primary' = primary
      /\ strategy' = strategy
  BY DEF NextBlock, snapshots
<1>3. /\ past'[height + 1] = primary
      /\ \A h \in Heights : h # height + 1 => past'[h] = past[h]
  BY <1>1 DEF NextBlock, HistoryInv, SnapshotsTypeOK
<1>4. \A k \in AllKeys, c \in Heights : HasChangelog(k, c) => c <= height
  BY DEF HistoryInv, RecordsAreOld
<1>5. \A k \in AllKeys, h \in Heights : MayLoadAtHeight(k, h)' = MayLoadAtHeight(k, h)
  BY <1>2 DEF MayLoadAtHeight, IsFirstChange, ChangesFrom, HasChangelog
<1>6. RecordsAreOld'
  BY <1>1, <1>2 DEF HistoryInv, RecordsAreOld, HasChangelog
<1>7. QuietBlock'
  BY <1>1, <1>2, <1>3, <1>4 DEF QuietBlock, HasChangelog
<1>8. ASSUME NEW h \in 0..(height + 1), AssertCheckpointed(h), NEW k \in AllKeys
      PROVE  MayLoadAtHeight(k, h) = past'[h][k]
  <2>1. CASE h = height + 1
    <3>1. ChangesFrom(k, h) = {}
      BY <1>1, <1>4, <2>1 DEF ChangesFrom
    <3> QED BY <1>3, <2>1, <3>1 DEF MayLoadAtHeight
  <2>2. CASE h # height + 1
    <3>1. h \in 0..height /\ h \in Heights
      BY <1>1, <2>2
    <3> QED BY <1>3, <1>8, <2>2, <3>1 DEF HistoryInv, HistoryIsKept
  <2> QED BY <2>1, <2>2
<1>9. HistoryIsKept'
  <2>1. \A h \in 0..(height + 1) : h \in Heights
    BY <1>1
  <2> QED BY <1>1, <1>2, <1>5, <1>8, <2>1 DEF HistoryIsKept, AssertCheckpointed
<1> QED BY <1>6, <1>7, <1>9 DEF HistoryInv

LEMMA CheckpointHistory ==
  ASSUME HistoryInv, CheckpointCall, SnapshotsTypeOK'
  PROVE  HistoryInv'
<1>1. MaxHeight \in Nat /\ Heights = 0..MaxHeight /\ height \in Heights
  BY SnapshotsAssumption DEF SnapshotsAssumption, Heights, HistoryInv, SnapshotsTypeOK
<1>2. /\ changelog' = changelog /\ height' = height /\ primary' = primary
      /\ past' = past /\ touched' = touched /\ strategy' = strategy
  BY DEF CheckpointCall, AddCheckpoint, RemoveCheckpoint
<1>3. checkpoints \in [Heights -> Nat] /\ strategy = "Selected"
  BY DEF HistoryInv, SnapshotsTypeOK, CheckpointCall
<1>4. \A k \in AllKeys, h \in Heights : MayLoadAtHeight(k, h)' = MayLoadAtHeight(k, h)
  BY <1>2 DEF MayLoadAtHeight, IsFirstChange, ChangesFrom, HasChangelog
<1>5. QuietBlock'
  BY <1>2 DEF HistoryInv, QuietBlock, HasChangelog
<1>6. ASSUME NEW h \in Heights, checkpoints'[h] > 0
      PROVE  \/ checkpoints[h] > 0
             \/ h = height /\ ~ touched
  <2>1. CASE AddCheckpoint
    BY <1>3, <1>6, <2>1 DEF AddCheckpoint
  <2>2. CASE \E g \in Heights : RemoveCheckpoint(g)
    BY <1>3, <1>6, <2>2 DEF RemoveCheckpoint
  <2> QED BY <2>1, <2>2 DEF CheckpointCall
<1>7. RecordsAreOld'
  BY <1>1, <1>2, <1>6 DEF HistoryInv, RecordsAreOld, HasChangelog
<1>8. ASSUME NEW h \in 0..height, checkpoints'[h] > 0, NEW k \in AllKeys
      PROVE  MayLoadAtHeight(k, h) = past[h][k]
  <2>1. h \in Heights
    BY <1>1
  <2>2. CASE checkpoints[h] > 0
    BY <1>3, <2>2 DEF HistoryInv, HistoryIsKept, AssertCheckpointed
  <2>3. CASE h = height /\ ~ touched
    <3>1. ChangesFrom(k, height) = {}
      BY <1>1, <2>3 DEF HistoryInv, QuietBlock, RecordsAreOld, ChangesFrom
    <3> QED BY <2>3, <3>1 DEF HistoryInv, QuietBlock, MayLoadAtHeight
  <2> QED BY <1>6, <1>8, <2>1, <2>2, <2>3
<1>9. HistoryIsKept'
  <2>1. \A h \in 0..height : h \in Heights
    BY <1>1
  <2> QED BY <1>2, <1>3, <1>4, <1>8, <2>1 DEF HistoryIsKept, AssertCheckpointed
<1> QED BY <1>5, <1>7, <1>9 DEF HistoryInv

LEMMA NextHistory ==
  ASSUME HistoryInv, [SnapshotsNext]_snapshotVars
  PROVE  HistoryInv'
<1>1. SnapshotsTypeOK /\ SnapshotsTypeOK'
  BY NextType DEF HistoryInv
<1>2. CASE NextBlock
  BY <1>1, <1>2, NextBlockHistory
<1>3. CASE CheckpointCall
  BY <1>1, <1>3, CheckpointHistory
<1>4. CASE ItemCall \/ \E k \in Keys : MapCall(k) \/ IndexedCall(k)
  <2>1. PICK k \in AllKeys, value \in Maybe : Store(k, value)
    BY <1>1, <1>4, CallsAreStores DEF Replace
  <2> QED BY <1>1, <2>1, StoreHistory
<1>5. CASE UNCHANGED snapshotVars
  <2>1. /\ height' = height /\ strategy' = strategy /\ primary' = primary /\ past' = past
        /\ changelog' = changelog /\ checkpoints' = checkpoints /\ touched' = touched
    BY <1>5 DEF snapshotVars, snapshots
  <2>2. RecordsAreOld' /\ QuietBlock'
    BY <2>1 DEF HistoryInv, RecordsAreOld, QuietBlock, HasChangelog
  <2>3. HistoryIsKept'
    BY <2>1 DEF HistoryInv, HistoryIsKept, AssertCheckpointed, MayLoadAtHeight,
                IsFirstChange, ChangesFrom, HasChangelog
  <2> QED BY <1>1, <2>2, <2>3 DEF HistoryInv
<1> QED BY <1>2, <1>3, <1>4, <1>5 DEF SnapshotsNext

(* Every height that can be read gives the values at the start of its      *)
(* block, for each strategy and after any number of blocks and marks: a    *)
(* record is missing only where an older one answers for it.               *)
THEOREM PastIsKept == SnapshotsSpec => []HistoryIsKept
<1>1. SnapshotsInit => HistoryInv
  BY InitHistory
<1>2. HistoryInv /\ [SnapshotsNext]_snapshotVars => HistoryInv'
  BY NextHistory
<1>3. HistoryInv => HistoryIsKept
  BY DEF HistoryInv
<1> QED BY <1>1, <1>2, <1>3, PTL DEF SnapshotsSpec

-----------------------------------------------------------------------------
(* Indexes *)

LEMMA ReplaceIndexes ==
  ASSUME IndexInv, SnapshotsTypeOK', NEW k \in AllKeys, NEW new \in Maybe,
         Replace(k, new, primary[k])
  PROVE  IndexInv'
<1> DEFINE old == primary[k]
<1> DEFINE U == UniqueWithout(old)
<1>1. /\ form = "indexed" /\ form' = form
      /\ RowsKeepTheirTag /\ TagsAreCopies /\ BucketsAreRows
  BY DEF Replace, Store, IndexInv
<1>2. BucketOf \in [Values -> Buckets] /\ TagOf \in [Values -> Tags] /\ Absent \notin Values
  BY SnapshotsAssumption DEF SnapshotsAssumption
<1>3. /\ primary \in [AllKeys -> Maybe]
      /\ unique \in [Tags -> [pk : AllKeys, value : Values] \cup {Absent}]
  BY DEF IndexInv, SnapshotsTypeOK
<1>4. primary' = [primary EXCEPT ![k] = new]
  BY DEF Replace, Store
<1>5. /\ primary'[k] = new
      /\ \A j \in AllKeys : j # k => primary'[j] = primary[j]
  BY <1>3, <1>4
<1>6. /\ \A j \in AllKeys : primary[j] # Absent => primary[j] \in Values
      /\ new # Absent => new \in Values
  BY <1>3 DEF Maybe
<1>7. BucketsAreRows'
  <2>1. multi' = MultiWith(MultiWithout(k, old), k, new)
    BY DEF Replace
  <2>2. ASSUME NEW b \in Buckets, NEW j \in AllKeys, j # k
        PROVE  <<b, j>> \in multi' <=> <<b, j>> \in multi
    BY <2>1, <2>2 DEF MultiWith, MultiWithout
  <2>3. ASSUME NEW b \in Buckets
        PROVE  <<b, k>> \in MultiWithout(k, old) <=> FALSE
    <3>1. <<b, k>> \in multi <=> old # Absent /\ BucketOf[old] = b
      BY <1>1 DEF BucketsAreRows
    <3> QED BY <3>1 DEF MultiWithout
  <2>4. ASSUME NEW b \in Buckets
        PROVE  <<b, k>> \in multi' <=> new # Absent /\ BucketOf[new] = b
    BY <2>1, <2>3 DEF MultiWith
  <2> QED BY <1>1, <1>5, <2>2, <2>4, ZenonT(30) DEF BucketsAreRows
<1>8. \A t \in Tags : U[t] # Absent => U[t] = unique[t] /\ U[t].pk # k
  <2>1. CASE old = Absent
    <3>1. U = unique
      BY <2>1 DEF UniqueWithout
    <3>2. ASSUME NEW t \in Tags, unique[t] # Absent PROVE unique[t].pk # k
      <4>1. unique[t].value \in Values /\ primary[unique[t].pk] = unique[t].value
        BY <1>1, <1>3, <3>2 DEF TagsAreCopies
      <4> QED BY <1>2, <2>1, <4>1
    <3> QED BY <3>1, <3>2
  <2>2. CASE old # Absent
    <3>1. U = [unique EXCEPT ![TagOf[old]] = Absent]
      BY <2>2 DEF UniqueWithout
    <3>2. \A t \in Tags : U[t] = IF t = TagOf[old] THEN Absent ELSE unique[t]
      BY <1>3, <3>1
    <3>3. ASSUME NEW t \in Tags, unique[t] # Absent, unique[t].pk = k PROVE t = TagOf[old]
      BY <1>1, <3>3 DEF TagsAreCopies
    <3> HIDE DEF U
    <3> QED BY <3>2, <3>3
  <2> QED BY <2>1, <2>2
<1>9. \A j \in AllKeys : j # k /\ primary[j] # Absent =>
        U[TagOf[primary[j]]] = unique[TagOf[primary[j]]]
  <2>1. CASE old = Absent
    BY <2>1 DEF UniqueWithout
  <2>2. CASE old # Absent
    <3>1. \A t \in Tags : U[t] = IF t = TagOf[old] THEN Absent ELSE unique[t]
      BY <1>3, <2>2 DEF UniqueWithout
    <3>2. unique[TagOf[old]].pk = k
      BY <1>1, <2>2 DEF RowsKeepTheirTag
    <3>3. ASSUME NEW j \in AllKeys, j # k, primary[j] # Absent
          PROVE  TagOf[primary[j]] # TagOf[old] /\ TagOf[primary[j]] \in Tags
      <4>1. unique[TagOf[primary[j]]].pk = j
        BY <1>1, <3>3 DEF RowsKeepTheirTag
      <4> QED BY <1>2, <1>6, <3>2, <3>3, <4>1
    <3> HIDE DEF U
    <3> QED BY <3>1, <3>3
  <2> QED BY <2>1, <2>2
<1>10. U \in [Tags -> [pk : AllKeys, value : Values] \cup {Absent}]
  BY <1>2, <1>3, <1>6 DEF UniqueWithout
<1>11. unique' = UniqueWith(U, k, new) /\ UniqueFree(U, new)
  BY DEF Replace
<1> HIDE DEF U, old
<1>12. CASE new = Absent
  <2>1. unique' = U
    BY <1>11, <1>12 DEF UniqueWith
  <2>2. TagsAreCopies'
    BY <1>1, <1>3, <1>5, <1>8, <2>1 DEF TagsAreCopies
  <2>3. RowsKeepTheirTag'
    BY <1>1, <1>5, <1>9, <1>12, <2>1 DEF RowsKeepTheirTag
  <2> QED BY <1>1, <1>7, <2>2, <2>3 DEF IndexInv
<1>13. CASE new # Absent
  <2>1. unique' = [U EXCEPT ![TagOf[new]] = [pk |-> k, value |-> new]]
    BY <1>11, <1>13 DEF UniqueWith
  <2>2. TagOf[new] \in Tags /\ U[TagOf[new]] = Absent
    BY <1>2, <1>6, <1>11, <1>13 DEF UniqueFree
  <2>3. /\ unique'[TagOf[new]] = [pk |-> k, value |-> new]
        /\ \A t \in Tags : t # TagOf[new] => unique'[t] = U[t]
    BY <1>10, <2>1, <2>2
  <2>4. TagsAreCopies'
    <3>1. ASSUME NEW t \in Tags, unique'[t] # Absent
          PROVE  TagOf[unique'[t].value] = t /\ primary'[unique'[t].pk] = unique'[t].value
      <4>1. CASE t = TagOf[new]
        BY <1>5, <2>3, <4>1
      <4>2. CASE t # TagOf[new]
        <5>1. unique'[t] = unique[t] /\ unique[t].pk # k /\ unique[t] # Absent
          BY <1>8, <2>3, <3>1, <4>2
        <5>2. unique[t].pk \in AllKeys
          BY <1>3, <5>1
        <5> QED BY <1>1, <1>5, <5>1, <5>2 DEF TagsAreCopies
      <4> QED BY <4>1, <4>2
    <3> QED BY <3>1 DEF TagsAreCopies
  <2>5. RowsKeepTheirTag'
    <3>1. ASSUME NEW j \in AllKeys, primary'[j] # Absent
          PROVE  /\ unique'[TagOf[primary'[j]]] # Absent
                 /\ unique'[TagOf[primary'[j]]].pk = j
      <4>1. CASE j = k
        <5>1. unique'[TagOf[new]].pk = k /\ unique'[TagOf[new]] \in [pk : AllKeys, value : Values]
          BY <1>6, <1>13, <2>3
        <5>2. unique'[TagOf[new]] # Absent
          BY <5>1, SnapshotsAssumption DEF SnapshotsAssumption
        <5> QED BY <1>5, <4>1, <5>1, <5>2
      <4>2. CASE j # k
        <5>1. primary'[j] = primary[j]
          BY <1>5, <4>2
        <5>2. U[TagOf[primary[j]]] = unique[TagOf[primary[j]]] /\ TagOf[primary[j]] \in Tags
          BY <1>2, <1>6, <1>9, <3>1, <4>2, <5>1
        <5>3. unique[TagOf[primary[j]]] # Absent /\ unique[TagOf[primary[j]]].pk = j
          BY <1>1, <3>1, <5>1 DEF RowsKeepTheirTag
        <5> QED BY <2>2, <2>3, <5>1, <5>2, <5>3
      <4> QED BY <4>1, <4>2
    <3> QED BY <3>1 DEF RowsKeepTheirTag
  <2> QED BY <1>1, <1>7, <2>4, <2>5 DEF IndexInv
<1> QED BY <1>12, <1>13

LEMMA NextIndexes ==
  ASSUME IndexInv, [SnapshotsNext]_snapshotVars
  PROVE  IndexInv'
<1>1. SnapshotsTypeOK /\ SnapshotsTypeOK'
  BY NextType DEF IndexInv
<1>2. ASSUME UNCHANGED <<form, primary, indexes>> PROVE IndexInv'
  BY <1>1, <1>2 DEF IndexInv, RowsKeepTheirTag, TagsAreCopies, BucketsAreRows, indexes
<1>3. CASE NextBlock
  BY <1>2, <1>3 DEF NextBlock
<1>4. CASE CheckpointCall
  BY <1>2, <1>4 DEF CheckpointCall, AddCheckpoint, RemoveCheckpoint
<1>5. CASE ItemCall \/ \E k \in Keys : MapCall(k) \/ IndexedCall(k)
  <2>1. PICK k \in AllKeys, value \in Maybe :
          \/ form # "indexed" /\ Store(k, value) /\ UNCHANGED indexes
          \/ Replace(k, value, primary[k])
    BY <1>1, <1>5, CallsAreStores
  <2>2. CASE Replace(k, value, primary[k])
    BY <1>1, <2>2, ReplaceIndexes
  <2>3. CASE form # "indexed" /\ Store(k, value)
    BY <1>1, <2>3 DEF IndexInv, Store
  <2> QED BY <2>1, <2>2, <2>3
<1>6. CASE UNCHANGED snapshotVars
  BY <1>2, <1>6 DEF snapshotVars
<1> QED BY <1>3, <1>4, <1>5, <1>6 DEF SnapshotsNext

LEMMA InvIndexes == IndexInv => IndexesAgree
<1> SUFFICES ASSUME IndexInv, form = "indexed" PROVE IndexesAgree
  BY DEF IndexesAgree
<1> DEFINE stored == {k \in AllKeys : primary[k] # Absent}
<1>1. RowsKeepTheirTag /\ TagsAreCopies /\ BucketsAreRows
  BY DEF IndexInv
<1>2. ASSUME NEW b \in Buckets
      PROVE  AllItems(b) = {[pk |-> k, value |-> primary[k]] :
                              k \in {s \in stored : BucketOf[primary[s]] = b}}
  <2>1. AllPks(b) = {s \in stored : BucketOf[primary[s]] = b}
    BY <1>1 DEF AllPks, BucketsAreRows
  <2> QED BY <2>1 DEF AllItems
<1>3. ASSUME NEW t \in Tags
      PROVE  IF UniqueItem(t) = Absent THEN \A k \in stored : TagOf[primary[k]] # t
             ELSE /\ TagOf[UniqueItem(t).value] = t
                  /\ primary[UniqueItem(t).pk] = UniqueItem(t).value
  BY <1>1 DEF UniqueItem, RowsKeepTheirTag, TagsAreCopies
<1> QED BY <1>2, <1>3 DEF IndexesAgree

(* Both indexes of an indexed map have the rows of the map and no others:   *)
(* a replaced or removed row leaves no entry, and a tag that another row    *)
(* has is refused, so no row loses its entry.                               *)
THEOREM IndexesFollowRows == SnapshotsSpec => []IndexesAgree
<1>1. SnapshotsInit => IndexInv
  <2> SUFFICES ASSUME SnapshotsInit PROVE IndexInv
    OBVIOUS
  <2>1. RowsKeepTheirTag /\ TagsAreCopies /\ BucketsAreRows
    BY DEF SnapshotsInit, RowsKeepTheirTag, TagsAreCopies, BucketsAreRows
  <2> QED BY <2>1, InitType DEF IndexInv
<1>2. IndexInv /\ [SnapshotsNext]_snapshotVars => IndexInv'
  BY NextIndexes
<1>3. IndexInv => IndexesAgree
  BY InvIndexes
<1> QED BY <1>1, <1>2, <1>3, PTL DEF SnapshotsSpec

-----------------------------------------------------------------------------
(* The claims: payments of a holder *)

Split == [toSend : Nat, waiting : Seq(Claim)]
ClaimLists == Seq(Claim)

(* Of the first n claims of list, those of waiting are left, in their       *)
(* order, and what is not left has expired.                                 *)
LeftOf(place, waiting, list, n) ==
  /\ place \in [DOMAIN waiting -> 1..n]
  /\ \A i, j \in DOMAIN waiting : i < j => place[i] < place[j]
  /\ \A i \in DOMAIN waiting : waiting[i] = list[place[i]]
  /\ \A i \in 1..n : (\A j \in DOMAIN waiting : place[j] # i) => IsExpired(list[i].release, chain)

AmountOf(list) == [i \in DOMAIN list |-> list[i].amount]
FirstAmounts(list, n) == SumFunctionOnSet(AmountOf(list), 1..n)

TakenSoFar(split, list, cap, n) ==
  /\ split \in Split
  /\ FirstAmounts(list, n) = Amounts(split.waiting) + split.toSend
  /\ Within(split.toSend, cap)
  /\ \A i \in DOMAIN split.waiting :
       IsExpired(split.waiting[i].release, chain)
         => ~ Within(split.toSend + split.waiting[i].amount, cap)
  /\ \E place : LeftOf(place, split.waiting, list, n)

LEMMA ClaimFields ==
  ASSUME NEW claim \in Claim
  PROVE  claim.amount \in Nat
BY ControllersAssumption DEF ControllersAssumption, Claim

LEMMA AmountsTerms ==
  ASSUME NEW list \in ClaimLists
  PROVE  /\ DOMAIN list = 1..Len(list) /\ Len(list) \in Nat
         /\ \A i \in 1..Len(list) : list[i] \in Claim /\ AmountOf(list)[i] \in Nat
                                    /\ AmountOf(list)[i] = list[i].amount
         /\ Amounts(list) = FirstAmounts(list, Len(list))
         /\ Amounts(list) \in Nat
<1>1. DOMAIN list = 1..Len(list) /\ Len(list) \in Nat /\ \A i \in 1..Len(list) : list[i] \in Claim
  BY DEF ClaimLists
<1>2. \A i \in 1..Len(list) : AmountOf(list)[i] \in Nat /\ AmountOf(list)[i] = list[i].amount
  BY <1>1, ClaimFields DEF AmountOf
<1>3. Amounts(list) = FirstAmounts(list, Len(list))
  BY <1>1 DEF Amounts, FirstAmounts, AmountOf, SumFunction
<1>4. IsFiniteSet(1..Len(list))
  BY <1>1, FS_Interval
<1>5. FirstAmounts(list, Len(list)) \in Nat
  BY <1>2, <1>4, SumNat DEF FirstAmounts
<1> QED BY <1>1, <1>2, <1>3, <1>5

LEMMA AmountsAppended ==
  ASSUME NEW list \in ClaimLists, NEW claim \in Claim
  PROVE  Amounts(Append(list, claim)) = Amounts(list) + claim.amount
<1> DEFINE n == Len(list)
           longer == Append(list, claim)
<1>1. longer \in ClaimLists /\ Len(longer) = n + 1 /\ n \in Nat
  BY DEF ClaimLists
<1>2. longer[n+1] = claim /\ \A i \in 1..n : longer[i] = list[i]
  BY DEF ClaimLists
<1> HIDE DEF longer, n
<1>3. \A i \in 1..(n+1) : AmountOf(longer)[i] \in Int /\ AmountOf(longer)[i] = longer[i].amount
  BY <1>1, AmountsTerms
<1>4. FirstAmounts(longer, n+1) = FirstAmounts(longer, n) + AmountOf(longer)[n+1]
  BY <1>1, <1>3, SumNext DEF FirstAmounts
<1>5. FirstAmounts(longer, n) = FirstAmounts(list, n)
  <2>1. IsFiniteSet(1..n)
    BY <1>1, FS_Interval
  <2>2. \A i \in 1..n : AmountOf(list)[i] \in Int /\ AmountOf(longer)[i] = AmountOf(list)[i]
    BY <1>1, <1>2, <1>3, AmountsTerms DEF n
  <2> QED BY <2>1, <2>2, SumSame DEF FirstAmounts
<1>6. n + 1 \in 1..(n+1)
  BY <1>1
<1>7. Amounts(longer) = FirstAmounts(longer, n+1) /\ Amounts(list) = FirstAmounts(list, n)
  BY <1>1, AmountsTerms DEF n
<1>8. AmountOf(longer)[n+1] = claim.amount
  BY <1>2, <1>3, <1>6
<1> QED BY <1>4, <1>5, <1>7, <1>8 DEF longer

LEMMA PayOrKeepType ==
  ASSUME NEW split \in Split, NEW claim \in Claim, NEW cap
  PROVE  PayOrKeep(split, claim, cap) \in Split
<1>1. split.toSend + claim.amount \in Nat
  BY ClaimFields DEF Split
<1>2. Append(split.waiting, claim) \in Seq(Claim)
  BY DEF Split
<1>3. [split EXCEPT !.toSend = @ + claim.amount] \in Split
  BY <1>1 DEF Split
<1>4. [split EXCEPT !.waiting = Append(@, claim)] \in Split
  BY <1>2 DEF Split
<1> QED BY <1>3, <1>4 DEF PayOrKeep

LEMMA PayOrKeepSplit ==
  ASSUME NEW list \in ClaimLists, NEW cap \in Caps \cup {NoCap},
         NEW n \in 1..Len(list), NEW split, TakenSoFar(split, list, cap, n - 1)
  PROVE  TakenSoFar(PayOrKeep(split, list[n], cap), list, cap, n)
<1> DEFINE claim == list[n]
           new == PayOrKeep(split, claim, cap)
           waiting == split.waiting
           toSend == split.toSend
           fits == IsExpired(claim.release, chain) /\ Within(toSend + claim.amount, cap)
<1>1. /\ split \in Split /\ waiting \in ClaimLists /\ toSend \in Nat
      /\ claim \in Claim /\ claim.amount \in Nat
      /\ n \in Nat /\ n - 1 \in Nat
  BY AmountsTerms, ClaimFields DEF TakenSoFar, Split, ClaimLists
<1>2. FirstAmounts(list, n) = FirstAmounts(list, n - 1) + claim.amount
  <2> DEFINE m == n - 1
  <2>1. m \in Nat /\ n = m + 1
    BY <1>1
  <2>2. \A i \in 1..n : AmountOf(list)[i] \in Int
    BY AmountsTerms
  <2>3. AmountOf(list)[n] = claim.amount
    BY AmountsTerms
  <2> HIDE DEF m
  <2>4. FirstAmounts(list, m+1) = FirstAmounts(list, m) + AmountOf(list)[m+1]
    BY <2>1, <2>2, SumNext DEF FirstAmounts
  <2> QED BY <2>1, <2>3, <2>4 DEF m
<1>3. Amounts(waiting) \in Nat
  BY <1>1, AmountsTerms
<1>4. PICK place : LeftOf(place, waiting, list, n - 1)
  BY DEF TakenSoFar
<1>5. /\ FirstAmounts(list, n - 1) = Amounts(waiting) + toSend
      /\ Within(toSend, cap)
      /\ \A i \in DOMAIN waiting :
           IsExpired(waiting[i].release, chain) => ~ Within(toSend + waiting[i].amount, cap)
  BY DEF TakenSoFar
<1>6. DOMAIN waiting = 1..Len(waiting) /\ Len(waiting) \in Nat
      /\ \A i \in DOMAIN waiting : waiting[i].amount \in Nat
  BY <1>1, AmountsTerms
<1>7. cap = NoCap \/ cap \in Nat
  BY ControllersAssumption DEF ControllersAssumption
<1> HIDE DEF claim, waiting, toSend
<1>8. CASE fits
  <2>1. /\ new = [toSend |-> toSend + claim.amount, waiting |-> waiting]
        /\ new.toSend = toSend + claim.amount /\ new.waiting = waiting
        /\ new \in Split
    BY <1>1, <1>8 DEF PayOrKeep, Split, ClaimLists, toSend, waiting
  <2> HIDE DEF new
  <2>2. FirstAmounts(list, n) = Amounts(new.waiting) + new.toSend
    BY <1>1, <1>2, <1>3, <1>5, <2>1
  <2>3. \A i \in DOMAIN waiting :
          IsExpired(waiting[i].release, chain) => ~ Within(new.toSend + waiting[i].amount, cap)
    BY <1>1, <1>5, <1>6, <1>7, <2>1 DEF Within
  <2>4. LeftOf(place, waiting, list, n)
    <3>1. place \in [DOMAIN waiting -> 1..n]
      BY <1>1, <1>4 DEF LeftOf
    <3>2. ASSUME NEW i \in 1..n, \A j \in DOMAIN waiting : place[j] # i
          PROVE  IsExpired(list[i].release, chain)
      <4>1. CASE i = n
        BY <1>8, <4>1 DEF claim
      <4>2. CASE i # n
        <5>1. i \in 1..(n-1)
          BY <1>1, <4>2
        <5> QED BY <1>4, <3>2, <5>1 DEF LeftOf
      <4> QED BY <4>1, <4>2
    <3> QED BY <1>4, <3>1, <3>2 DEF LeftOf
  <2> QED BY <1>8, <2>1, <2>2, <2>3, <2>4 DEF TakenSoFar, new, claim
<1>9. CASE ~ fits
  <2> DEFINE longer == Append(waiting, claim)
  <2>1. /\ new.toSend = toSend /\ new.waiting = longer /\ new \in Split
    <3>1. new = [split EXCEPT !.waiting = Append(@, claim)]
      BY <1>9 DEF PayOrKeep, toSend
    <3>2. split = [toSend |-> toSend, waiting |-> waiting]
      BY <1>1 DEF Split, toSend, waiting
    <3>3. new = [toSend |-> toSend, waiting |-> longer]
      BY <3>1, <3>2
    <3>4. new \in Split
      BY <1>1, PayOrKeepType
    <3> QED BY <3>3, <3>4
  <2> HIDE DEF new
  <2>2. Amounts(longer) = Amounts(waiting) + claim.amount
    BY <1>1, AmountsAppended
  <2>3. DOMAIN longer = 1..(Len(waiting) + 1) /\ longer[Len(waiting) + 1] = claim
        /\ \A i \in DOMAIN waiting : longer[i] = waiting[i]
    BY <1>1, <1>6 DEF ClaimLists
  <2> HIDE DEF longer
  <2>4. FirstAmounts(list, n) = Amounts(new.waiting) + new.toSend
    BY <1>1, <1>2, <1>3, <1>5, <2>1, <2>2
  <2>5. ASSUME NEW i \in DOMAIN longer, IsExpired(longer[i].release, chain)
        PROVE  ~ Within(toSend + longer[i].amount, cap)
    <3>1. CASE i \in DOMAIN waiting
      BY <1>5, <2>3, <2>5, <3>1
    <3>2. CASE i \notin DOMAIN waiting
      <4>1. longer[i] = claim
        BY <1>6, <2>3, <3>2
      <4> QED BY <1>9, <2>5, <4>1
    <3> QED BY <3>1, <3>2
  <2>6. \E q : LeftOf(q, longer, list, n)
    <3> DEFINE q == [i \in DOMAIN longer |-> IF i = Len(waiting) + 1 THEN n ELSE place[i]]
    <3>1. \A i \in DOMAIN longer : i \in DOMAIN waiting \/ i = Len(waiting) + 1
      BY <1>6, <2>3
    <3>2. /\ q[Len(waiting) + 1] = n
          /\ \A i \in DOMAIN waiting : q[i] = place[i] /\ q[i] \in 1..(n-1)
      BY <1>4, <1>6, <2>3 DEF LeftOf
    <3>3. q \in [DOMAIN longer -> 1..n]
      <4>1. n \in 1..n /\ 1..(n-1) \subseteq 1..n
        BY <1>1
      <4>2. \A i \in DOMAIN longer : q[i] \in 1..n
        BY <3>1, <3>2, <4>1
      <4> QED BY <4>2
    <3>4. DOMAIN waiting \subseteq DOMAIN longer /\ Len(waiting) + 1 \in DOMAIN longer
      BY <1>6, <2>3
    <3> HIDE DEF q
    <3>5. ASSUME NEW i \in DOMAIN longer, NEW j \in DOMAIN longer, i < j PROVE q[i] < q[j]
      <4>1. i \in DOMAIN waiting
        BY <1>6, <2>3, <3>5
      <4>2. CASE j \in DOMAIN waiting
        BY <1>4, <3>2, <3>5, <4>1, <4>2 DEF LeftOf
      <4>3. CASE j = Len(waiting) + 1
        BY <1>1, <3>2, <4>1, <4>3
      <4> QED BY <3>1, <4>2, <4>3
    <3>6. ASSUME NEW i \in DOMAIN longer PROVE longer[i] = list[q[i]]
      <4>1. CASE i \in DOMAIN waiting
        BY <1>4, <2>3, <3>2, <4>1 DEF LeftOf
      <4>2. CASE i = Len(waiting) + 1
        BY <2>3, <3>2, <4>2 DEF claim
      <4> QED BY <3>1, <4>1, <4>2
    <3>7. ASSUME NEW i \in 1..n, \A j \in DOMAIN longer : q[j] # i
          PROVE  IsExpired(list[i].release, chain)
      <4>1. i # n
        BY <3>2, <3>4, <3>7
      <4>2. i \in 1..(n-1)
        BY <1>1, <4>1
      <4>3. \A j \in DOMAIN waiting : place[j] # i
        BY <3>2, <3>4, <3>7
      <4> QED BY <1>4, <4>2, <4>3 DEF LeftOf
    <3>8. LeftOf(q, longer, list, n)
      BY <3>3, <3>5, <3>6, <3>7 DEF LeftOf
    <3> QED BY <3>8
  <2> QED BY <1>5, <2>1, <2>4, <2>5, <2>6 DEF TakenSoFar, new, claim
<1> QED BY <1>8, <1>9

(* What claim_tokens makes of the claims of a holder.                       *)
LEMMA PartitionSplits ==
  ASSUME NEW h \in Holders, claims[h] \in ClaimLists, NEW cap \in Caps \cup {NoCap}
  PROVE  TakenSoFar(Partition(h, cap), claims[h], cap, Len(claims[h]))
<1> DEFINE list == claims[h]
           N == Len(list)
           base == [toSend |-> 0, waiting |-> <<>>]
           split == CHOOSE f : f = [n \in 0..N |->
                      IF n = 0 THEN base ELSE PayOrKeep(f[n-1], list[n], cap)]
           step == [n \in 1..N |-> [s \in Split |-> PayOrKeep(s, list[n], cap)]]
<1>1. N \in Nat /\ \A n \in 1..N : list[n] \in Claim /\ list[n].amount \in Nat
  BY AmountsTerms
<1>2. base \in Split
  BY DEF Split
<1>3. ASSUME NEW n \in 1..N, NEW s \in Split PROVE PayOrKeep(s, list[n], cap) \in Split
  <2>1. list[n] \in Claim /\ list[n].amount \in Nat
    BY <1>1
  <2> QED BY <2>1, PayOrKeepType
<1>4. step \in [1..N -> [Split -> Split]]
  BY <1>3
<1>5. Partition(h, cap) = split[N]
  BY DEF Partition
<1>6. list \in ClaimLists
  OBVIOUS
<1> HIDE DEF N, base, list
<1>7. PICK f : IsLoop(f, N, Split, base, step)
  <2> HIDE DEF step
  <2> QED BY <1>1, <1>2, <1>4, LoopExists
<1>8. f = [n \in 0..N |-> IF n = 0 THEN base ELSE PayOrKeep(f[n-1], list[n], cap)]
  <2>1. ASSUME NEW n \in 1..N PROVE f[n] = PayOrKeep(f[n-1], list[n], cap)
    <3>1. n - 1 \in 0..N
      BY <1>1
    <3>2. f[n-1] \in Split
      BY <1>7, <3>1 DEF IsLoop
    <3> QED BY <1>7, <3>2 DEF IsLoop
  <2> HIDE DEF step
  <2> QED BY <1>7, <2>1 DEF IsLoop
<1>9. split = [n \in 0..N |-> IF n = 0 THEN base ELSE PayOrKeep(split[n-1], list[n], cap)]
  BY <1>8
<1> HIDE DEF split
<1> DEFINE P == {n \in 0..N : TakenSoFar(split[n], list, cap, n)}
<1>10. 0 \in P
  <2>1. split[0] = base /\ 0 \in 0..N
    BY <1>1, <1>9
  <2>2. base.toSend = 0 /\ base.waiting = <<>> /\ DOMAIN base.waiting = {}
    BY DEF base
  <2>3. FirstAmounts(list, 0) = 0
    <3>1. 1..0 = {}
      OBVIOUS
    <3> QED BY <3>1, SumEmpty DEF FirstAmounts
  <2>4. Amounts(<<>>) = 0
    <3>1. DOMAIN [i \in DOMAIN <<>> |-> <<>>[i].amount] = {}
      OBVIOUS
    <3> QED BY <3>1, SumEmpty DEF Amounts, SumFunction
  <2>5. Within(0, cap)
    BY ControllersAssumption DEF ControllersAssumption, Within
  <2>6. LeftOf([i \in {} |-> 0], <<>>, list, 0)
    BY DEF LeftOf
  <2>7. TakenSoFar(base, list, cap, 0)
    <3>1. FirstAmounts(list, 0) = Amounts(base.waiting) + base.toSend
      BY <2>2, <2>3, <2>4
    <3>2. \E place : LeftOf(place, base.waiting, list, 0)
      BY <2>2, <2>6
    <3> QED BY <1>2, <2>2, <2>5, <3>1, <3>2 DEF TakenSoFar
  <2> QED BY <2>1, <2>7
<1>11. ASSUME NEW n \in 1..N, n - 1 \in P PROVE n \in P
  <2>1. split[n] = PayOrKeep(split[n-1], list[n], cap)
    BY <1>1, <1>9
  <2>2. TakenSoFar(PayOrKeep(split[n-1], list[n], cap), list, cap, n)
    BY <1>6, <1>11, PayOrKeepSplit DEF N
  <2> QED BY <2>1, <2>2
<1>12. N \in P
  <2> HIDE DEF P
  <2>1. 0..N \subseteq P
    BY <1>1, <1>10, <1>11, UpTo
  <2> QED BY <1>1, <2>1
<1> QED BY <1>5, <1>12 DEF N, list

-----------------------------------------------------------------------------
(* The claims: what each step keeps *)

ClaimTypes ==
  /\ claims \in [Holders -> ClaimLists] /\ entered \in [Holders -> ClaimLists]
  /\ chain \in Block
  /\ released \in [Holders -> Nat]

Stays(list, all) == \E place \in [DOMAIN list -> DOMAIN all] : StayInOrder(place, list, all)
PendingOrPaid(h) == Amounts(entered[h]) = Amounts(claims[h]) + released[h]

ClaimsInv ==
  /\ ClaimTypes
  /\ \A h \in Holders : PendingOrPaid(h) /\ Stays(claims[h], entered[h])

LEMMA ReleasesAreExpirations ==
  ASSUME chain \in Block, NEW r \in Releases
  PROVE  r \in Expiration
<1> DEFINE once == {Never} \cup {After(d, chain) : d \in Periods}
<1>1. \A d \in Periods : d \in Duration
  BY ControllersAssumption DEF ControllersAssumption
<1>2. \A d \in Duration : After(d, chain) \in Expiration
  BY DEF After, Expiration, Duration, Block, Finite
<1>3. once \subseteq Expiration
  BY <1>1, <1>2 DEF Never, Expiration
<1>4. \A e \in Expiration, d \in Duration : Later(e, d) \in Expiration
  BY DEF Later, Expiration, Duration
<1> HIDE DEF once
<1>5. Releases = once \cup {Later(q[1], q[2]) : q \in {p \in once \X Periods : Addable(p[1], p[2])}}
  BY DEF Releases, once
<1> QED BY <1>1, <1>3, <1>4, <1>5

LEMMA ClaimTokensTakes ==
  ASSUME ClaimTypes, NEW h \in Holders, NEW cap \in Caps \cup {NoCap}, ClaimTokens(h, cap)
  PROVE  \E split : /\ TakenSoFar(split, claims[h], cap, Len(claims[h]))
                    /\ claims' = [claims EXCEPT ![h] = split.waiting]
                    /\ released' = [released EXCEPT ![h] = @ + split.toSend]
                    /\ UNCHANGED <<chain, entered>>
<1>1. claims[h] \in ClaimLists
  BY DEF ClaimTypes
<1>2. TakenSoFar(Partition(h, cap), claims[h], cap, Len(claims[h]))
  BY <1>1, PartitionSplits
<1> QED BY <1>2 DEF ClaimTokens

LEMMA WhatTheCapLeaves ==
  ASSUME ClaimTypes, NEW h \in Holders, NEW cap \in Caps \cup {NoCap}, ClaimTokens(h, cap)
  PROVE  /\ Within(released'[h] - released[h], cap)
         /\ \A i \in DOMAIN claims'[h] :
              IsExpired(claims'[h][i].release, chain)
                => ~ Within(released'[h] - released[h] + claims'[h][i].amount, cap)
<1>1. PICK split : /\ TakenSoFar(split, claims[h], cap, Len(claims[h]))
                   /\ claims' = [claims EXCEPT ![h] = split.waiting]
                   /\ released' = [released EXCEPT ![h] = @ + split.toSend]
  BY ClaimTokensTakes
<1>2. /\ claims'[h] = split.waiting
      /\ released'[h] = released[h] + split.toSend
  BY <1>1 DEF ClaimTypes
<1>3. split.toSend \in Nat /\ released[h] \in Nat
  BY <1>1 DEF TakenSoFar, Split, ClaimTypes
<1>4. released'[h] - released[h] = split.toSend
  BY <1>2, <1>3
<1>5. /\ Within(split.toSend, cap)
      /\ \A i \in DOMAIN split.waiting :
           IsExpired(split.waiting[i].release, chain)
             => ~ Within(split.toSend + split.waiting[i].amount, cap)
  BY <1>1 DEF TakenSoFar
<1> QED BY <1>2, <1>4, <1>5

LEMMA CreateClaimKeeps ==
  ASSUME ClaimsInv, NEW h \in Holders, NEW k \in Holders, NEW claim \in Claim,
         CreateClaim(k, claim)
  PROVE  PendingOrPaid(h)' /\ Stays(claims'[h], entered'[h])
<1>1. /\ claims[h] \in ClaimLists /\ entered[h] \in ClaimLists /\ released[h] \in Nat
      /\ PendingOrPaid(h) /\ Stays(claims[h], entered[h]) /\ released' = released
  BY DEF ClaimsInv, ClaimTypes, CreateClaim
<1>2. CASE h # k
  <2>1. claims'[h] = claims[h] /\ entered'[h] = entered[h] /\ released'[h] = released[h]
    BY <1>2 DEF CreateClaim, ClaimsInv, ClaimTypes
  <2> QED BY <1>1, <2>1 DEF PendingOrPaid
<1>3. CASE h = k
  <2> DEFINE list == claims[h]
             all == entered[h]
             longer == Append(list, claim)
             more == Append(all, claim)
             m == Len(list)
             n == Len(all)
  <2>1. claims'[h] = longer /\ entered'[h] = more /\ released'[h] = released[h]
    BY <1>3 DEF CreateClaim, ClaimsInv, ClaimTypes
  <2>2. /\ Amounts(longer) = Amounts(list) + claim.amount
        /\ Amounts(more) = Amounts(all) + claim.amount
        /\ Amounts(list) \in Nat /\ Amounts(all) \in Nat /\ claim.amount \in Nat
    BY <1>1, AmountsAppended, AmountsTerms, ClaimFields
  <2>3. /\ m \in Nat /\ n \in Nat
        /\ DOMAIN list = 1..m /\ DOMAIN all = 1..n
        /\ DOMAIN longer = 1..(m+1) /\ DOMAIN more = 1..(n+1)
        /\ longer[m+1] = claim /\ more[n+1] = claim
        /\ \A i \in 1..m : longer[i] = list[i]
        /\ \A i \in 1..n : more[i] = all[i]
    BY <1>1 DEF ClaimLists
  <2>4. PICK place \in [DOMAIN list -> DOMAIN all] : StayInOrder(place, list, all)
    BY <1>1 DEF Stays
  <2> HIDE DEF longer, more, m, n
  <2>5. PendingOrPaid(h)'
    <3> HIDE DEF list, all
    <3>1. Amounts(all) = Amounts(list) + released[h]
      BY <1>1 DEF PendingOrPaid, list, all
    <3>2. Amounts(more) = Amounts(longer) + released[h]
      BY <1>1, <2>2, <3>1
    <3>3. Amounts(entered'[h]) = Amounts(claims'[h]) + released'[h]
      BY <2>1, <3>2
    <3> QED BY <3>3 DEF PendingOrPaid, Amounts
  <2>6. StayInOrder(place, list, all)
    BY <2>4
  <2> HIDE DEF list, all
  <2> DEFINE q == [i \in DOMAIN longer |-> IF i = m + 1 THEN n + 1 ELSE place[i]]
  <2>7. \A i \in DOMAIN longer : i \in 1..m \/ i = m + 1
    BY <2>3
  <2>8. /\ q[m+1] = n + 1
        /\ \A i \in 1..m : q[i] = place[i] /\ q[i] \in 1..n
    BY <2>3, <2>4
  <2>9. q \in [DOMAIN longer -> DOMAIN more]
    <3>1. n + 1 \in DOMAIN more /\ 1..n \subseteq DOMAIN more
      BY <2>3
    <3>2. \A i \in DOMAIN longer : q[i] \in DOMAIN more
      BY <2>7, <2>8, <3>1
    <3> QED BY <3>2
  <2>10. 1..m \subseteq DOMAIN longer /\ m + 1 \in DOMAIN longer
    BY <2>3
  <2> HIDE DEF q
  <2>11. ASSUME NEW i \in DOMAIN longer, NEW j \in DOMAIN longer, i < j PROVE q[i] < q[j]
    <3>1. i \in 1..m
      BY <2>3, <2>11
    <3>2. CASE j \in 1..m
      BY <2>3, <2>6, <2>8, <2>11, <3>1, <3>2 DEF StayInOrder
    <3>3. CASE j = m + 1
      BY <2>3, <2>8, <3>1, <3>3
    <3> QED BY <2>7, <3>2, <3>3
  <2>12. ASSUME NEW i \in DOMAIN longer PROVE longer[i] = more[q[i]]
    <3>1. CASE i \in 1..m
      BY <2>3, <2>6, <2>8, <3>1 DEF StayInOrder
    <3>2. CASE i = m + 1
      BY <2>3, <2>8, <3>2
    <3> QED BY <2>7, <3>1, <3>2
  <2>13. ASSUME NEW i \in DOMAIN more, \A j \in DOMAIN longer : q[j] # i
         PROVE  IsExpired(more[i].release, chain)
    <3>1. i # n + 1
      BY <2>8, <2>10, <2>13
    <3>2. i \in 1..n
      BY <2>3, <3>1
    <3>3. \A j \in 1..m : place[j] # i
      BY <2>8, <2>10, <2>13
    <3> QED BY <2>3, <2>6, <3>2, <3>3 DEF StayInOrder
  <2>14. StayInOrder(q, longer, more)
    BY <2>11, <2>12, <2>13 DEF StayInOrder
  <2> QED BY <2>1, <2>5, <2>9, <2>14 DEF Stays
<1> QED BY <1>2, <1>3

LEMMA ClaimTokensKeeps ==
  ASSUME ClaimsInv, NEW h \in Holders, NEW k \in Holders, NEW cap \in Caps \cup {NoCap},
         ClaimTokens(k, cap)
  PROVE  PendingOrPaid(h)' /\ Stays(claims'[h], entered'[h])
<1>1. /\ claims[h] \in ClaimLists /\ entered[h] \in ClaimLists /\ released[h] \in Nat
      /\ PendingOrPaid(h) /\ Stays(claims[h], entered[h])
  BY DEF ClaimsInv, ClaimTypes
<1>2. PICK split : /\ TakenSoFar(split, claims[k], cap, Len(claims[k]))
                   /\ claims' = [claims EXCEPT ![k] = split.waiting]
                   /\ released' = [released EXCEPT ![k] = @ + split.toSend]
                   /\ UNCHANGED <<chain, entered>>
  BY ClaimTokensTakes DEF ClaimsInv
<1>3. CASE h # k
  <2>1. claims'[h] = claims[h] /\ entered'[h] = entered[h] /\ released'[h] = released[h]
    BY <1>2, <1>3 DEF ClaimsInv, ClaimTypes
  <2> QED BY <1>1, <2>1 DEF PendingOrPaid
<1>4. CASE h = k
  <2> DEFINE list == claims[h]
             all == entered[h]
             left == split.waiting
  <2>1. claims'[h] = left /\ entered'[h] = all /\ released'[h] = released[h] + split.toSend
    BY <1>2, <1>4 DEF ClaimsInv, ClaimTypes
  <2>2. /\ split.toSend \in Nat /\ left \in ClaimLists
        /\ FirstAmounts(list, Len(list)) = Amounts(left) + split.toSend
        /\ \E p : LeftOf(p, left, list, Len(list))
    BY <1>2, <1>4 DEF TakenSoFar, Split, ClaimLists
  <2>3. /\ DOMAIN list = 1..Len(list) /\ Len(list) \in Nat
        /\ Amounts(list) = FirstAmounts(list, Len(list))
        /\ Amounts(list) \in Nat /\ Amounts(left) \in Nat
    BY <1>1, <2>2, AmountsTerms
  <2>4. Amounts(all) = Amounts(list) + released[h]
    BY <1>1 DEF PendingOrPaid
  <2> HIDE DEF list, all, left
  <2>5. Amounts(all) = Amounts(left) + (released[h] + split.toSend)
    BY <1>1, <2>2, <2>3, <2>4
  <2>6. PendingOrPaid(h)'
    <3>1. Amounts(entered'[h]) = Amounts(claims'[h]) + released'[h]
      BY <2>1, <2>5
    <3> QED BY <3>1 DEF PendingOrPaid, Amounts
  <2>7. PICK p : LeftOf(p, left, list, Len(list))
    BY <2>2
  <2>8. PICK place \in [DOMAIN list -> DOMAIN all] : StayInOrder(place, list, all)
    BY <1>1 DEF Stays, list, all
  <2> DEFINE q == [i \in DOMAIN left |-> place[p[i]]]
  <2>9. \A i \in DOMAIN left : p[i] \in DOMAIN list /\ q[i] = place[p[i]]
    BY <2>3, <2>7 DEF LeftOf
  <2>10. q \in [DOMAIN left -> DOMAIN all]
    BY <2>8, <2>9
  <2> HIDE DEF q
  <2>11. ASSUME NEW i \in DOMAIN left, NEW j \in DOMAIN left, i < j PROVE q[i] < q[j]
    <3>1. p[i] < p[j]
      BY <2>7, <2>11 DEF LeftOf
    <3> QED BY <2>8, <2>9, <3>1 DEF StayInOrder
  <2>12. ASSUME NEW i \in DOMAIN left PROVE left[i] = all[q[i]]
    <3>1. left[i] = list[p[i]]
      BY <2>7 DEF LeftOf
    <3> QED BY <2>8, <2>9, <3>1 DEF StayInOrder
  <2>13. ASSUME NEW i \in DOMAIN all, \A j \in DOMAIN left : q[j] # i
         PROVE  IsExpired(all[i].release, chain)
    <3>1. CASE \A n \in DOMAIN list : place[n] # i
      BY <2>8, <3>1 DEF StayInOrder
    <3>2. CASE \E n \in DOMAIN list : place[n] = i
      <4>1. PICK n \in DOMAIN list : place[n] = i
        BY <3>2
      <4>2. \A j \in DOMAIN left : p[j] # n
        BY <2>9, <2>13, <4>1
      <4>3. IsExpired(list[n].release, chain)
        BY <2>3, <2>7, <4>2 DEF LeftOf
      <4>4. list[n] = all[i]
        BY <2>8, <4>1 DEF StayInOrder
      <4> QED BY <4>3, <4>4
    <3> QED BY <3>1, <3>2
  <2>14. StayInOrder(q, left, all)
    BY <2>11, <2>12, <2>13 DEF StayInOrder
  <2> QED BY <2>1, <2>6, <2>10, <2>14 DEF Stays
<1> QED BY <1>3, <1>4

(* Time only adds to what has expired.                                      *)
LEMMA StaysLater ==
  ASSUME ClaimTypes, ClaimTypes', UNCHANGED chain \/ Tick, NEW h \in Holders,
         Stays(claims'[h], entered'[h])
  PROVE  Stays(claims[h], entered[h])'
<1> DEFINE list == claims'[h]
           all == entered'[h]
<1>1. PICK place \in [DOMAIN list -> DOMAIN all] : StayInOrder(place, list, all)
  BY DEF Stays
<1>2. /\ chain \in Block /\ chain' \in Block
      /\ chain'.height >= chain.height /\ chain'.time >= chain.time
  BY DEF ClaimTypes, Tick, Block
<1>3. ASSUME NEW i \in DOMAIN all, IsExpired(all[i].release, chain)
      PROVE  IsExpired(all[i].release, chain')
  <2>1. all \in ClaimLists
    BY DEF ClaimTypes
  <2>2. all[i].release \in Expiration
    BY <2>1, AmountsTerms DEF Claim
  <2> HIDE DEF all
  <2> QED BY <1>2, <1>3, <2>2 DEF IsExpired, Expiration, Block
<1>4. /\ \A m, n \in DOMAIN list : m < n => place[m] < place[n]
      /\ \A n \in DOMAIN list : list[n] = all[place[n]]
      /\ \A i \in DOMAIN all :
           (\A n \in DOMAIN list : place[n] # i) => IsExpired(all[i].release, chain')
  BY <1>1, <1>3 DEF StayInOrder
<1> QED BY <1>1, <1>4 DEF Stays, StayInOrder, IsExpired

LEMMA NoClaims ==
  /\ <<>> \in ClaimLists /\ Amounts(<<>>) = 0 /\ Stays(<<>>, <<>>)
<1>1. DOMAIN [i \in DOMAIN <<>> |-> <<>>[i].amount] = {}
  OBVIOUS
<1>2. Amounts(<<>>) = 0
  BY <1>1, SumEmpty DEF Amounts, SumFunction
<1>3. StayInOrder([i \in {} |-> 0], <<>>, <<>>)
  BY DEF StayInOrder
<1>4. Stays(<<>>, <<>>)
  <2>1. DOMAIN <<>> = {}
    OBVIOUS
  <2>2. [i \in {} |-> 0] \in [DOMAIN <<>> -> DOMAIN <<>>]
    BY <2>1
  <2> QED BY <1>3, <2>2 DEF Stays
<1> QED BY <1>2, <1>4 DEF ClaimLists

LEMMA ClaimsInit == ControllersInit => ClaimsInv
<1> SUFFICES ASSUME ControllersInit PROVE ClaimsInv
  OBVIOUS
<1>1. ClaimTypes
  BY NoClaims DEF ControllersInit, ClaimTypes, Block
<1>2. ASSUME NEW h \in Holders PROVE PendingOrPaid(h) /\ Stays(claims[h], entered[h])
  <2>1. claims[h] = <<>> /\ entered[h] = <<>> /\ released[h] = 0
    BY DEF ControllersInit
  <2> QED BY <2>1, NoClaims DEF PendingOrPaid
<1> QED BY <1>1, <1>2 DEF ClaimsInv

LEMMA ClaimsNext ==
  ASSUME ClaimsInv, [ControllersNext]_controllersVars
  PROVE  /\ ClaimsInv'
         /\ \A h \in Holders : PendingOrPaid(h)' /\ Stays(claims'[h], entered'[h])
<1>1. ClaimTypes
  BY DEF ClaimsInv
<1>2. CASE UNCHANGED <<claims, entered, released>> /\ (UNCHANGED chain \/ Tick)
  <2>1. ClaimTypes'
    BY <1>1, <1>2 DEF ClaimTypes, Tick, Block
  <2>2. ASSUME NEW h \in Holders PROVE PendingOrPaid(h)' /\ Stays(claims'[h], entered'[h])
    BY <1>2 DEF ClaimsInv, PendingOrPaid, Amounts
  <2> QED BY <1>1, <1>2, <2>1, <2>2, StaysLater DEF ClaimsInv
<1>3. CASE \E k \in Holders, a \in ClaimAmounts, r \in Releases :
             CreateClaim(k, [amount |-> a, release |-> r])
  <2>1. PICK k \in Holders, a \in ClaimAmounts, r \in Releases :
               CreateClaim(k, [amount |-> a, release |-> r])
    BY <1>3
  <2> DEFINE claim == [amount |-> a, release |-> r]
  <2>2. claim \in Claim
    BY <1>1, ReleasesAreExpirations DEF Claim, ClaimTypes
  <2>3. CreateClaim(k, claim)
    BY <2>1
  <2> HIDE DEF claim
  <2>4. ASSUME NEW h \in Holders PROVE PendingOrPaid(h)' /\ Stays(claims'[h], entered'[h])
    BY <2>2, <2>3, CreateClaimKeeps
  <2>5. ClaimTypes'
    <3>1. Append(claims[k], claim) \in ClaimLists /\ Append(entered[k], claim) \in ClaimLists
      BY <1>1, <2>2 DEF ClaimTypes, ClaimLists
    <3> QED BY <1>1, <2>3, <3>1 DEF ClaimTypes, CreateClaim
  <2>6. UNCHANGED chain
    BY <2>3 DEF CreateClaim
  <2> QED BY <1>1, <2>4, <2>5, <2>6, StaysLater DEF ClaimsInv
<1>4. CASE \E k \in Holders, cap \in Caps \cup {NoCap} : ClaimTokens(k, cap)
  <2>1. PICK k \in Holders, cap \in Caps \cup {NoCap} : ClaimTokens(k, cap)
    BY <1>4
  <2>2. ASSUME NEW h \in Holders PROVE PendingOrPaid(h)' /\ Stays(claims'[h], entered'[h])
    BY <2>1, ClaimTokensKeeps
  <2>3. PICK split : /\ TakenSoFar(split, claims[k], cap, Len(claims[k]))
                     /\ claims' = [claims EXCEPT ![k] = split.waiting]
                     /\ released' = [released EXCEPT ![k] = @ + split.toSend]
                     /\ UNCHANGED <<chain, entered>>
    BY <1>1, <2>1, ClaimTokensTakes
  <2>4. split.toSend \in Nat /\ split.waiting \in ClaimLists
    BY <2>3 DEF TakenSoFar, Split, ClaimLists
  <2>5. released[k] + split.toSend \in Nat
    BY <1>1, <2>4 DEF ClaimTypes
  <2>6. ClaimTypes'
    BY <1>1, <2>3, <2>4, <2>5 DEF ClaimTypes
  <2> QED BY <1>1, <2>2, <2>3, <2>6, StaysLater DEF ClaimsInv
<1> QED BY <1>2, <1>3, <1>4 DEF ControllersNext, controllersVars, ExecuteUpdateAdmin,
          ExecuteAddHook, ExecuteRemoveHook, Tick

(* Whatever claims a contract creates and whenever holders claim, a payment *)
(* takes whole mature claims within its cap and leaves only what does not   *)
(* fit, the rest keeps its order, and each token is pending or paid once.   *)
THEOREM ClaimsArePaidOnce == ControllersSpec => ClaimsTakeWhatFits
<1>1. ControllersSpec => []ClaimsInv
  BY ClaimsInit, ClaimsNext, PTL DEF ControllersSpec
<1>2. ClaimsInv /\ [ControllersNext]_controllersVars =>
        [\A h \in Holders :
           /\ Amounts(entered'[h]) = Amounts(claims'[h]) + released'[h]
           /\ \E place \in [DOMAIN claims'[h] -> DOMAIN entered'[h]] :
                StayInOrder(place, claims'[h], entered'[h])
           /\ \A cap \in Caps \cup {NoCap} :
                (claims'[h] # claims[h] /\ ClaimTokens(h, cap)) =>
                  LET sent == released'[h] - released[h] IN
                  /\ Within(sent, cap)
                  /\ \A i \in DOMAIN claims'[h] :
                       IsExpired(claims'[h][i].release, chain)
                         => ~ Within(sent + claims'[h][i].amount, cap)]_controllersVars
  <2> SUFFICES ASSUME ClaimsInv, [ControllersNext]_controllersVars, NEW h \in Holders
      PROVE  /\ Amounts(entered'[h]) = Amounts(claims'[h]) + released'[h]
             /\ \E place \in [DOMAIN claims'[h] -> DOMAIN entered'[h]] :
                  StayInOrder(place, claims'[h], entered'[h])
             /\ \A cap \in Caps \cup {NoCap} :
                  (claims'[h] # claims[h] /\ ClaimTokens(h, cap)) =>
                    /\ Within(released'[h] - released[h], cap)
                    /\ \A i \in DOMAIN claims'[h] :
                         IsExpired(claims'[h][i].release, chain)
                           => ~ Within(released'[h] - released[h] + claims'[h][i].amount, cap)
    OBVIOUS
  <2>1. PendingOrPaid(h)' /\ Stays(claims'[h], entered'[h])
    BY ClaimsNext
  <2>2. Amounts(entered'[h]) = Amounts(claims'[h]) + released'[h]
    BY <2>1 DEF PendingOrPaid, Amounts
  <2>3. \E place \in [DOMAIN claims'[h] -> DOMAIN entered'[h]] :
          StayInOrder(place, claims'[h], entered'[h])
    BY <2>1 DEF Stays
  <2> QED BY <2>2, <2>3, WhatTheCapLeaves DEF ClaimsInv
<1> QED BY <1>1, <1>2, PTL DEF ControllersSpec, ClaimsTakeWhatFits

-----------------------------------------------------------------------------
(* Wallets: lists of coins *)

CoinSeqs == Seq(Coin)

(* t is s with e in it at position p.                                       *)
HasInside(t, s, p, e, S) ==
  /\ s \in Seq(S) /\ t \in Seq(S) /\ e \in S
  /\ p \in 1..Len(t) /\ Len(t) = Len(s) + 1
  /\ t[p] = e
  /\ \A i \in 1..(p-1) : t[i] = s[i]
  /\ \A i \in p..Len(s) : t[i+1] = s[i]

LEMMA InsertAtPlaces ==
  ASSUME NEW S, NEW s \in Seq(S), NEW p \in 1..(Len(s) + 1), NEW e \in S
  PROVE  HasInside(InsertAt(s, p, e), s, p, e, S)
<1> DEFINE n == Len(s)
           a == SubSeq(s, 1, p - 1)
           b == SubSeq(s, p, n)
           h == a \o <<e>>
           t == h \o b
<1>1. n \in Nat /\ p \in Nat /\ p - 1 \in Int /\ \A i \in 1..n : s[i] \in S
  BY LenProperties
<1>2. /\ a \in Seq(S) /\ Len(a) = p - 1
      /\ \A i \in 1..(p-1) : a[i] = s[i]
  <2>1. \A i \in 1..(p-1) : s[i] \in S
    BY <1>1
  <2>2. /\ a \in Seq(S) /\ Len(a) = IF 1 <= p-1 THEN p-1-1+1 ELSE 0
        /\ \A i \in 1..(p-1-1+1) : a[i] = s[1+i-1]
    BY <1>1, <2>1, SubSeqProperties
  <2> HIDE DEF a
  <2> QED BY <1>1, <2>2
<1>3. /\ b \in Seq(S) /\ Len(b) = n - p + 1
      /\ \A i \in 1..(n-p+1) : b[i] = s[p+i-1]
  <2>1. \A i \in p..n : s[i] \in S
    BY <1>1
  <2>2. /\ b \in Seq(S) /\ Len(b) = IF p <= n THEN n-p+1 ELSE 0
        /\ \A i \in 1..(n-p+1) : b[i] = s[p+i-1]
    BY <1>1, <2>1, SubSeqProperties
  <2> HIDE DEF b
  <2> QED BY <1>1, <2>2
<1>4. <<e>> \in Seq(S) /\ Len(<<e>>) = 1 /\ <<e>>[1] = e
  OBVIOUS
<1> HIDE DEF a, b
<1>5. /\ h \in Seq(S) /\ Len(h) = p
      /\ \A i \in 1..(p-1) : h[i] = s[i]
      /\ h[p] = e
  <2>1. /\ h \in Seq(S) /\ Len(h) = Len(a) + 1
        /\ \A i \in 1..(Len(a) + 1) : h[i] = IF i <= Len(a) THEN a[i] ELSE <<e>>[i - Len(a)]
    BY <1>2, <1>4, ConcatProperties
  <2> HIDE DEF h
  <2>2. Len(a) + 1 = p
    BY <1>1, <1>2
  <2>3. \A i \in 1..(p-1) : h[i] = s[i]
    <3> SUFFICES ASSUME NEW i \in 1..(p-1) PROVE h[i] = s[i]
      OBVIOUS
    <3>1. i \in 1..(Len(a) + 1) /\ i <= Len(a)
      BY <1>1, <1>2
    <3> QED BY <1>2, <2>1, <3>1
  <2>4. h[p] = e
    <3>1. p \in 1..(Len(a) + 1) /\ ~ (p <= Len(a)) /\ p - Len(a) = 1
      BY <1>1, <1>2
    <3> QED BY <1>4, <2>1, <3>1
  <2> QED BY <2>1, <2>2, <2>3, <2>4
<1> HIDE DEF h
<1>6. /\ t \in Seq(S) /\ Len(t) = Len(h) + Len(b)
      /\ \A i \in 1..(Len(h) + Len(b)) : t[i] = IF i <= Len(h) THEN h[i] ELSE b[i - Len(h)]
  BY <1>3, <1>5, ConcatProperties
<1>7. t = InsertAt(s, p, e)
  BY DEF InsertAt, t, h, a, b
<1> HIDE DEF t
<1>8. Len(t) = n + 1 /\ p \in 1..(n+1)
  BY <1>1, <1>3, <1>5, <1>6
<1>9. t[p] = e
  BY <1>1, <1>3, <1>5, <1>6
<1>10. ASSUME NEW i \in 1..(p-1) PROVE t[i] = s[i]
  <2>1. i \in 1..(n+1) /\ i <= p
    BY <1>1
  <2> QED BY <1>1, <1>3, <1>5, <1>6, <2>1
<1>11. ASSUME NEW i \in p..n PROVE t[i+1] = s[i]
  <2>1. i + 1 \in 1..(n+1) /\ ~ (i + 1 <= p) /\ i + 1 - p \in 1..(n-p+1) /\ p + (i + 1 - p) - 1 = i
    BY <1>1
  <2>2. t[i+1] = b[i+1-p]
    BY <1>1, <1>3, <1>5, <1>6, <2>1
  <2>3. b[i+1-p] = s[p + (i+1-p) - 1]
    BY <1>3, <2>1
  <2> QED BY <2>1, <2>2, <2>3
<1> QED BY <1>6, <1>7, <1>8, <1>9, <1>10, <1>11 DEF HasInside, n

LEMMA RemoveAtTakes ==
  ASSUME NEW S, NEW s \in Seq(S), NEW p \in 1..Len(s)
  PROVE  HasInside(s, RemoveAt(s, p), p, s[p], S)
<1> DEFINE n == Len(s)
           a == SubSeq(s, 1, p - 1)
           b == SubSeq(s, p + 1, n)
           t == a \o b
<1>1. n \in Nat /\ p \in Nat /\ p - 1 \in Int /\ p + 1 \in Int /\ \A i \in 1..n : s[i] \in S
  BY LenProperties
<1>2. /\ a \in Seq(S) /\ Len(a) = p - 1
      /\ \A i \in 1..(p-1) : a[i] = s[i]
  <2>1. \A i \in 1..(p-1) : s[i] \in S
    BY <1>1
  <2>2. /\ a \in Seq(S) /\ Len(a) = IF 1 <= p-1 THEN p-1-1+1 ELSE 0
        /\ \A i \in 1..(p-1-1+1) : a[i] = s[1+i-1]
    BY <1>1, <2>1, SubSeqProperties
  <2> HIDE DEF a
  <2> QED BY <1>1, <2>2
<1>3. /\ b \in Seq(S) /\ Len(b) = n - p
      /\ \A i \in 1..(n-p) : b[i] = s[p+i]
  <2>1. \A i \in (p+1)..n : s[i] \in S
    BY <1>1
  <2>2. /\ b \in Seq(S) /\ Len(b) = IF p + 1 <= n THEN n-(p+1)+1 ELSE 0
        /\ \A i \in 1..(n-(p+1)+1) : b[i] = s[(p+1)+i-1]
    BY <1>1, <2>1, SubSeqProperties
  <2> HIDE DEF b
  <2>3. Len(b) = n - p
    BY <1>1, <2>2
  <2>4. ASSUME NEW i \in 1..(n-p) PROVE b[i] = s[p+i]
    <3>1. i \in 1..(n-(p+1)+1) /\ (p+1)+i-1 = p + i
      BY <1>1
    <3> QED BY <2>2, <3>1
  <2> QED BY <2>2, <2>3, <2>4
<1> HIDE DEF a, b
<1>4. /\ t \in Seq(S) /\ Len(t) = Len(a) + Len(b)
      /\ \A i \in 1..(Len(a) + Len(b)) : t[i] = IF i <= Len(a) THEN a[i] ELSE b[i - Len(a)]
  BY <1>2, <1>3, ConcatProperties
<1>5. t = RemoveAt(s, p)
  BY DEF RemoveAt, a, b
<1> HIDE DEF t
<1>6. n = Len(t) + 1
  BY <1>1, <1>2, <1>3, <1>4
<1>7. ASSUME NEW i \in 1..(p-1) PROVE s[i] = t[i]
  <2>1. i \in 1..(Len(a) + Len(b)) /\ i <= Len(a)
    BY <1>1, <1>2, <1>3
  <2>2. t[i] = a[i]
    BY <1>4, <2>1
  <2> QED BY <1>2, <2>2
<1>8. ASSUME NEW i \in p..Len(t) PROVE s[i+1] = t[i]
  <2>1. i \in 1..(Len(a) + Len(b)) /\ ~ (i <= Len(a)) /\ i - Len(a) \in 1..(n-p)
        /\ p + (i - Len(a)) = i + 1
    BY <1>1, <1>2, <1>3, <1>4
  <2>2. t[i] = b[i - Len(a)]
    BY <1>4, <2>1
  <2>3. b[i - Len(a)] = s[p + (i - Len(a))]
    BY <1>3, <2>1
  <2> QED BY <2>1, <2>2, <2>3
<1> QED BY <1>1, <1>4, <1>5, <1>6, <1>7, <1>8 DEF HasInside, n

LEMMA ConsPlaces ==
  ASSUME NEW S, NEW s \in Seq(S), NEW e \in S
  PROVE  HasInside(<<e>> \o s, s, 1, e, S)
<1> DEFINE t == <<e>> \o s
<1>1. <<e>> \in Seq(S) /\ Len(<<e>>) = 1 /\ <<e>>[1] = e /\ Len(s) \in Nat
  OBVIOUS
<1>2. /\ t \in Seq(S) /\ Len(t) = 1 + Len(s)
      /\ \A i \in 1..(1 + Len(s)) : t[i] = IF i <= 1 THEN <<e>>[i] ELSE s[i - 1]
  BY <1>1, ConcatProperties
<1> HIDE DEF t
<1>3. t[1] = e /\ 1 \in 1..Len(t) /\ Len(t) = Len(s) + 1
  BY <1>1, <1>2
<1>4. ASSUME NEW i \in 1..Len(s) PROVE t[i+1] = s[i]
  <2>1. i + 1 \in 1..(1 + Len(s)) /\ ~ (i + 1 <= 1) /\ i + 1 - 1 = i
    BY <1>1
  <2> QED BY <1>2, <2>1
<1> QED BY <1>1, <1>2, <1>3, <1>4 DEF HasInside, t

-----------------------------------------------------------------------------
(* What a list of coins is worth *)

Terms(list, d) == [i \in DOMAIN list |-> IF list[i].denom = d THEN list[i].amount ELSE 0]
FirstTerms(list, d, n) == SumFunctionOnSet(Terms(list, d), 1..n)

StrictlySorted(list) == \A i, j \in DOMAIN list : i < j => list[i].denom < list[j].denom

LEMMA TotalTerms ==
  ASSUME NEW list \in CoinSeqs, NEW d
  PROVE  /\ DOMAIN list = 1..Len(list) /\ Len(list) \in Nat
         /\ \A i \in 1..Len(list) :
              /\ list[i] \in Coin /\ list[i].denom \in Denoms /\ list[i].denom \in Nat
              /\ list[i].amount \in Nat
              /\ Terms(list, d)[i] \in Nat
              /\ Terms(list, d)[i] = IF list[i].denom = d THEN list[i].amount ELSE 0
         /\ Total(list, d) = FirstTerms(list, d, Len(list))
         /\ \A n \in 0..Len(list) : FirstTerms(list, d, n) \in Nat
         /\ Total(list, d) \in Nat
<1>1. DOMAIN list = 1..Len(list) /\ Len(list) \in Nat /\ \A i \in 1..Len(list) : list[i] \in Coin
  BY DEF CoinSeqs
<1>2. ASSUME NEW i \in 1..Len(list)
      PROVE  /\ list[i].denom \in Denoms /\ list[i].denom \in Nat
             /\ list[i].amount \in Nat
             /\ Terms(list, d)[i] \in Nat
             /\ Terms(list, d)[i] = IF list[i].denom = d THEN list[i].amount ELSE 0
  <2>1. list[i].denom \in Denoms /\ list[i].amount \in Nat
    BY <1>1 DEF Coin
  <2>2. Terms(list, d)[i] = IF list[i].denom = d THEN list[i].amount ELSE 0
    BY <1>1 DEF Terms
  <2> QED BY <2>1, <2>2, WalletsAssumption DEF WalletsAssumption
<1>3. Total(list, d) = FirstTerms(list, d, Len(list))
  BY <1>1 DEF Total, FirstTerms, Terms, SumFunction
<1>4. ASSUME NEW n \in 0..Len(list) PROVE FirstTerms(list, d, n) \in Nat
  <2>1. n \in Nat /\ 1..n \subseteq 1..Len(list)
    BY <1>1
  <2>2. IsFiniteSet(1..n)
    BY <2>1, FS_Interval
  <2>3. \A i \in 1..n : Terms(list, d)[i] \in Nat
    BY <1>2, <2>1
  <2> QED BY <2>2, <2>3, SumNat DEF FirstTerms
<1>5. Total(list, d) \in Nat
  BY <1>1, <1>3, <1>4
<1> QED BY <1>1, <1>2, <1>3, <1>4, <1>5

LEMMA TotalInside ==
  ASSUME NEW s, NEW t, NEW p, NEW e, HasInside(t, s, p, e, Coin), NEW d
  PROVE  Total(t, d) = Total(s, d) + IF e.denom = d THEN e.amount ELSE 0
<1> DEFINE n == Len(s)
           k == p - 1
           x == IF e.denom = d THEN e.amount ELSE 0
           f == Terms(s, d)
           g == Terms(t, d)
<1>1. /\ s \in CoinSeqs /\ t \in CoinSeqs /\ e \in Coin
      /\ n \in Nat /\ Len(t) = n + 1 /\ k \in 0..n /\ p = k + 1
  BY DEF HasInside, CoinSeqs
<1>2. /\ t[k+1] = e
      /\ \A i \in 1..k : t[i] = s[i]
      /\ \A i \in (k+1)..n : t[i+1] = s[i]
  BY <1>1 DEF HasInside
<1>3. x \in Int
  BY <1>1 DEF Coin
<1>4. /\ \A i \in 1..n : f[i] \in Int /\ f[i] = IF s[i].denom = d THEN s[i].amount ELSE 0
      /\ \A i \in 1..(n+1) : g[i] = IF t[i].denom = d THEN t[i].amount ELSE 0
      /\ Total(s, d) = SumFunctionOnSet(f, 1..n)
      /\ Total(t, d) = SumFunctionOnSet(g, 1..(n+1))
  BY <1>1, TotalTerms DEF FirstTerms
<1> HIDE DEF n, k, f, g
<1>5. /\ \A i \in 1..k : i \in 1..n /\ i \in 1..(n+1)
      /\ k + 1 \in 1..(n+1)
      /\ \A i \in (k+1)..n : i \in 1..n /\ i + 1 \in 1..(n+1)
  BY <1>1
<1>6. \A i \in 1..k : g[i] = f[i]
  BY <1>2, <1>4, <1>5
<1>7. g[k+1] = x
  BY <1>2, <1>4, <1>5
<1>8. \A i \in (k+1)..n : g[i+1] = f[i]
  BY <1>2, <1>4, <1>5
<1> HIDE DEF x
<1>9. SumFunctionOnSet(g, 1..(n+1)) = SumFunctionOnSet(f, 1..n) + x
  BY <1>1, <1>3, <1>4, <1>6, <1>7, <1>8, SumInserted
<1> QED BY <1>4, <1>9 DEF x

(* A coin can be put in where the smaller ones end.                         *)
LEMMA SortedInside ==
  ASSUME NEW s, NEW t, NEW p, NEW e, HasInside(t, s, p, e, Coin), StrictlySorted(s),
         \A i \in 1..(p-1) : s[i].denom < e.denom,
         \A i \in p..Len(s) : e.denom < s[i].denom
  PROVE  StrictlySorted(t)
<1> DEFINE n == Len(s)
<1>1. /\ s \in CoinSeqs /\ t \in CoinSeqs /\ e \in Coin
      /\ n \in Nat /\ Len(t) = n + 1 /\ p \in 1..(n+1)
      /\ DOMAIN s = 1..n /\ DOMAIN t = 1..(n+1)
  BY DEF HasInside, CoinSeqs
<1>2. /\ t[p] = e
      /\ \A i \in 1..(p-1) : t[i] = s[i]
      /\ \A i \in p..n : t[i+1] = s[i]
  BY DEF HasInside
<1> HIDE DEF n
<1>3. ASSUME NEW i \in 1..(n+1)
      PROVE  \/ i = p
             \/ i < p /\ i \in 1..(p-1) /\ i \in 1..n /\ t[i] = s[i]
             \/ i > p /\ i - 1 \in p..n /\ i - 1 \in 1..n /\ t[i] = s[i-1]
  <2>1. CASE i > p
    <3>1. i - 1 \in p..n /\ i - 1 \in 1..n /\ (i - 1) + 1 = i
      BY <1>1, <2>1
    <3> QED BY <1>2, <2>1, <3>1
  <2>2. CASE i < p
    <3>1. i \in 1..(p-1) /\ i \in 1..n
      BY <1>1, <2>2
    <3> QED BY <1>2, <2>2, <3>1
  <2> QED BY <1>1, <2>1, <2>2
<1>4. \A i \in 1..n : s[i].denom \in Nat
  BY <1>1, TotalTerms DEF n
<1>5. /\ \A i, j \in 1..n : i < j => s[i].denom < s[j].denom
      /\ \A i \in 1..(p-1) : s[i].denom < e.denom
      /\ \A i \in p..n : e.denom < s[i].denom
  BY <1>1 DEF StrictlySorted, n
<1>6. e.denom \in Nat
  BY <1>1, WalletsAssumption DEF WalletsAssumption, Coin
<1>7. ASSUME NEW i \in 1..(n+1), NEW j \in 1..(n+1), i < j PROVE t[i].denom < t[j].denom
  <2>1. CASE i = p
    <3>1. j > p /\ j - 1 \in p..n /\ t[j] = s[j-1]
      BY <1>1, <1>3, <1>7, <2>1
    <3> QED BY <1>2, <1>5, <2>1, <3>1
  <2>2. CASE i > p
    <3>1. i - 1 \in 1..n /\ t[i] = s[i-1] /\ j - 1 \in 1..n /\ t[j] = s[j-1] /\ i - 1 < j - 1
      BY <1>1, <1>3, <1>7, <2>2
    <3> QED BY <1>5, <3>1
  <2>3. CASE i < p
    <3>1. i \in 1..(p-1) /\ i \in 1..n /\ t[i] = s[i]
      BY <1>1, <1>3, <2>3
    <3>2. CASE j = p
      BY <1>2, <1>5, <3>1, <3>2
    <3>3. CASE j < p
      <4>1. j \in 1..n /\ t[j] = s[j]
        BY <1>1, <1>3, <3>3
      <4> QED BY <1>5, <1>7, <3>1, <4>1
    <3>4. CASE j > p
      <4>1. j - 1 \in p..n /\ j - 1 \in 1..n /\ t[j] = s[j-1]
        BY <1>1, <1>3, <3>4
      <4>2. i < j - 1
        BY <1>1, <2>3, <4>1
      <4> QED BY <1>5, <3>1, <4>1, <4>2
    <3> QED BY <1>1, <3>2, <3>3, <3>4
  <2> QED BY <1>1, <2>1, <2>2, <2>3
<1> QED BY <1>1, <1>7 DEF StrictlySorted

(* What is left when a coin is taken out is sorted if all was.              *)
LEMMA SortedOutside ==
  ASSUME NEW s, NEW t, NEW p, NEW e, HasInside(t, s, p, e, Coin), StrictlySorted(t)
  PROVE  StrictlySorted(s)
<1> DEFINE n == Len(s)
<1>1. /\ n \in Nat /\ p \in 1..(n+1)
      /\ DOMAIN s = 1..n /\ DOMAIN t = 1..(n+1)
      /\ \A i \in 1..(p-1) : t[i] = s[i]
      /\ \A i \in p..n : t[i+1] = s[i]
  BY DEF HasInside
<1> HIDE DEF n
<1>2. \A i, j \in 1..(n+1) : i < j => t[i].denom < t[j].denom
  BY <1>1 DEF StrictlySorted
<1> DEFINE at(i) == IF i < p THEN i ELSE i + 1
<1>3. ASSUME NEW i \in 1..n PROVE s[i] = t[at(i)] /\ at(i) \in 1..(n+1)
  <2>1. CASE i < p
    <3>1. i \in 1..(p-1) /\ i \in 1..(n+1)
      BY <1>1, <2>1
    <3> QED BY <1>1, <2>1, <3>1
  <2>2. CASE ~ (i < p)
    <3>1. i \in p..n /\ i + 1 \in 1..(n+1)
      BY <1>1, <2>2
    <3> QED BY <1>1, <2>2, <3>1
  <2> QED BY <2>1, <2>2
<1>4. \A i, j \in 1..n : i < j => at(i) < at(j)
  BY <1>1
<1> HIDE DEF at
<1>5. \A i, j \in 1..n : i < j => s[i].denom < s[j].denom
  BY <1>2, <1>3, <1>4
<1> QED BY <1>1, <1>5 DEF StrictlySorted

(* In a sorted list a denomination is worth the coin it has.                *)
LEMMA TotalOfCoin ==
  ASSUME NEW w \in CoinSeqs, StrictlySorted(w), NEW p \in DOMAIN w
  PROVE  /\ Found(w, w[p].denom) = {p}
         /\ Total(w, w[p].denom) = w[p].amount
<1> DEFINE d == w[p].denom
           n == Len(w)
           f == Terms(w, d)
<1>1. /\ DOMAIN w = 1..n /\ n \in Nat
      /\ \A i \in 1..n : w[i].denom \in Nat /\ w[i].amount \in Nat /\ f[i] \in Nat
                         /\ f[i] = IF w[i].denom = d THEN w[i].amount ELSE 0
      /\ Total(w, d) = SumFunctionOnSet(f, 1..n)
  BY TotalTerms DEF FirstTerms
<1> HIDE DEF f, n
<1>2. \A i \in 1..n : w[i].denom = d => i = p
  <2>1. \A i \in 1..n : i < p => w[i].denom < d
    BY <1>1 DEF StrictlySorted
  <2>2. \A i \in 1..n : p < i => d < w[i].denom
    BY <1>1 DEF StrictlySorted
  <2>3. \A i \in 1..n : i < p \/ p < i \/ i = p
    BY <1>1
  <2>4. d \in Nat
    BY <1>1
  <2> HIDE DEF d
  <2> QED BY <1>1, <2>1, <2>2, <2>3, <2>4
<1>3. Found(w, d) = {p}
  <2>1. \A j \in 1..(p-1) : j \in 1..n /\ j # p
    BY <1>1
  <2> QED BY <1>1, <1>2, <2>1 DEF Found
<1>4. IsFiniteSet(1..n) /\ {p} \in SUBSET (1..n)
  BY <1>1, FS_Interval
<1>5. \A i \in (1..n) \ {p} : f[i] = 0
  BY <1>1, <1>2
<1>6. SumFunctionOnSet(f, 1..n) = SumFunctionOnSet(f, {p})
  BY <1>1, <1>4, <1>5, SumPart
<1>7. f[p] = w[p].amount /\ f[p] \in Int
  BY <1>1
<1>8. SumFunctionOnSet(f, {p}) = f[p]
  BY <1>7, SumSingle
<1> QED BY <1>1, <1>3, <1>6, <1>7, <1>8

LEMMA TotalOfNone ==
  ASSUME NEW w \in CoinSeqs, NEW d, \A i \in DOMAIN w : w[i].denom # d
  PROVE  Found(w, d) = {} /\ Total(w, d) = 0
<1>1. Found(w, d) = {}
  BY DEF Found
<1>2. IsFiniteSet(1..Len(w))
  BY TotalTerms, FS_Interval
<1>3. \A i \in 1..Len(w) : Terms(w, d)[i] = 0
  BY TotalTerms
<1>4. SumFunctionOnSet(Terms(w, d), 1..Len(w)) = 0
  BY <1>2, <1>3, SumZero
<1> QED BY <1>1, <1>4, TotalTerms DEF FirstTerms

-----------------------------------------------------------------------------
(* Coins come and go one at a time *)

Worth(coin, d) == IF coin.denom = d THEN coin.amount ELSE 0
Wallet(w) == w \in CoinSeqs /\ StrictlySorted(w)

LEMMA AmountChanged ==
  ASSUME NEW w, Wallet(w), NEW p \in DOMAIN w, NEW v, NEW a \in Nat,
         v \in [DOMAIN w -> Coin],
         \A i \in DOMAIN w : v[i] = IF i = p THEN [denom |-> w[p].denom, amount |-> a] ELSE w[i],
         NEW d
  PROVE  /\ Wallet(v)
         /\ Total(v, d) = Total(w, d) + (IF w[p].denom = d THEN a - w[p].amount ELSE 0)
<1> DEFINE n == Len(w)
           f == Terms(w, d)
           g == Terms(v, d)
<1>1. /\ w \in CoinSeqs /\ DOMAIN w = 1..n /\ n \in Nat
      /\ \A i \in 1..n : f[i] \in Nat /\ f[i] = IF w[i].denom = d THEN w[i].amount ELSE 0
      /\ Total(w, d) = SumFunctionOnSet(f, 1..n)
  BY TotalTerms DEF FirstTerms, Wallet
<1> HIDE DEF n
<1>2. v \in CoinSeqs
  BY <1>1, SeqDef DEF CoinSeqs
<1>3. DOMAIN v = 1..n
  BY <1>1
<1>4. \A i \in 1..n : v[i].denom = w[i].denom
  BY <1>1
<1>5. StrictlySorted(v)
  BY <1>1, <1>3, <1>4 DEF StrictlySorted, Wallet
<1>6. /\ \A i \in 1..n : g[i] = IF v[i].denom = d THEN v[i].amount ELSE 0
      /\ Total(v, d) = SumFunctionOnSet(g, 1..n)
  BY <1>3 DEF Terms, Total, SumFunction
<1>7. \A i \in DOMAIN v : v[i].amount \in Nat
  BY DEF Coin
<1> HIDE DEF f, g
<1>8. \A i \in 1..n : f[i] \in Int /\ g[i] \in Int
  BY <1>1, <1>3, <1>6, <1>7
<1>9. \A i \in (1..n) \ {p} : f[i] = g[i]
  BY <1>1, <1>6
<1>10. IsFiniteSet(1..n) /\ p \in 1..n
  <2>1. n \in Nat
    BY <1>1
  <2>2. IsFiniteSet(1..n)
    BY <2>1, FS_Interval
  <2> QED BY <1>1, <2>2
<1>11. SumFunctionOnSet(g, 1..n) = SumFunctionOnSet(f, 1..n) + (g[p] - f[p])
  <2> DEFINE D == 1..n
  <2>1. /\ IsFiniteSet(D) /\ p \in D
        /\ \A i \in D : f[i] \in Int /\ g[i] \in Int
        /\ \A i \in D \ {p} : f[i] = g[i]
    BY <1>8, <1>9, <1>10
  <2> HIDE DEF D
  <2>2. SumFunctionOnSet(g, D) = SumFunctionOnSet(f, D) + (g[p] - f[p])
    BY <2>1, SumUpdate
  <2> QED BY <2>2 DEF D
<1>12. g[p] - f[p] = IF w[p].denom = d THEN a - w[p].amount ELSE 0
  <2>1. v[p] = [denom |-> w[p].denom, amount |-> a]
    BY <1>1
  <2> QED BY <1>1, <1>6, <1>10, <2>1
<1> QED BY <1>1, <1>2, <1>5, <1>6, <1>11, <1>12 DEF Wallet

LEMMA FoundOrNot ==
  ASSUME NEW w, Wallet(w), NEW d
  PROVE  \/ /\ Found(w, d) = {} /\ Total(w, d) = 0
            /\ \A i \in DOMAIN w : w[i].denom # d
         \/ \E p \in DOMAIN w : /\ w[p].denom = d
                                /\ Found(w, d) = {p} /\ Total(w, d) = w[p].amount
<1>1. CASE \E p \in DOMAIN w : w[p].denom = d
  BY <1>1, TotalOfCoin DEF Wallet
<1>2. CASE \A p \in DOMAIN w : w[p].denom # d
  BY <1>2, TotalOfNone DEF Wallet
<1> QED BY <1>1, <1>2

LEMMA InsertPosSplits ==
  ASSUME NEW w, Wallet(w), NEW d \in Denoms, \A i \in DOMAIN w : w[i].denom # d
  PROVE  /\ InsertPos(w, d) \in 1..(Len(w) + 1)
         /\ \A i \in 1..(InsertPos(w, d) - 1) : w[i].denom < d
         /\ \A i \in InsertPos(w, d)..Len(w) : d < w[i].denom
<1> DEFINE n == Len(w)
           larger == {i \in DOMAIN w : w[i].denom >= d}
           p == InsertPos(w, d)
<1>1. /\ DOMAIN w = 1..n /\ n \in Nat
      /\ \A i \in 1..n : w[i].denom \in Nat
  BY TotalTerms DEF Wallet
<1>2. d \in Nat
  BY WalletsAssumption DEF WalletsAssumption
<1>3. \A i, j \in 1..n : i < j => w[i].denom < w[j].denom
  BY <1>1 DEF Wallet, StrictlySorted
<1>4. CASE larger = {}
  <2>1. p = n + 1
    BY <1>4 DEF InsertPos
  <2>2. \A i \in 1..n : w[i].denom < d
    BY <1>1, <1>2, <1>4
  <2> HIDE DEF p, n
  <2>3. /\ p \in 1..(n+1) /\ p - 1 = n
        /\ p..n = {}
    BY <1>1, <2>1
  <2> QED BY <2>2, <2>3 DEF p, n
<1>5. CASE larger # {}
  <2>1. larger \in SUBSET (1..n)
    BY <1>1
  <2>2. \E i \in larger : \A j \in larger : i <= j
    <3> HIDE DEF larger
    <3> QED BY <1>1, <1>5, <2>1, MinimumExists
  <2>3. p = CHOOSE i \in larger : \A j \in larger : i <= j
    BY <1>5 DEF InsertPos
  <2>4. p \in larger /\ \A j \in larger : p <= j
    <3> HIDE DEF larger, p
    <3> QED BY <2>2, <2>3
  <2>5. p \in 1..n /\ w[p].denom >= d /\ w[p].denom # d
    BY <1>1, <2>4
  <2>6. \A i \in 1..(p-1) : i \in 1..n /\ i \notin larger
    <3> HIDE DEF p, larger
    <3> QED BY <1>1, <2>4, <2>5
  <2>7. \A i \in 1..(p-1) : w[i].denom < d
    <3> HIDE DEF p
    <3> QED BY <1>1, <1>2, <2>6
  <2>8. \A i \in p..n : d < w[i].denom
    <3> HIDE DEF p, larger
    <3>1. \A i \in p..n : i \in 1..n /\ (i = p \/ p < i)
      BY <1>1, <2>5
    <3> QED BY <1>1, <1>2, <1>3, <2>5, <3>1
  <2>9. p \in 1..(n+1)
    <3> HIDE DEF p
    <3> QED BY <1>1, <2>5
  <2> QED BY <2>7, <2>8, <2>9
<1> QED BY <1>4, <1>5

LEMMA AddCoinAdds ==
  ASSUME NEW w, Wallet(w), NEW coin \in Coin
  PROVE  /\ Wallet(AddCoin(w, coin))
         /\ \A d : Total(AddCoin(w, coin), d) = Total(w, d) + Worth(coin, d)
<1>1. coin.denom \in Denoms /\ coin.amount \in Nat
  BY DEF Coin
<1>2. CASE Found(w, coin.denom) = {} /\ \A i \in DOMAIN w : w[i].denom # coin.denom
  <2> DEFINE p == InsertPos(w, coin.denom)
             t == InsertAt(w, p, coin)
  <2>1. /\ p \in 1..(Len(w) + 1)
        /\ \A i \in 1..(p - 1) : w[i].denom < coin.denom
        /\ \A i \in p..Len(w) : coin.denom < w[i].denom
    BY <1>1, <1>2, InsertPosSplits
  <2>2. HasInside(t, w, p, coin, Coin)
    <3> HIDE DEF p
    <3> QED BY <2>1, InsertAtPlaces DEF Wallet, CoinSeqs
  <2>3. AddCoin(w, coin) = t
    BY <1>2 DEF AddCoin
  <2> HIDE DEF p, t
  <2>4. StrictlySorted(t)
    BY <2>1, <2>2, SortedInside DEF Wallet
  <2>5. t \in CoinSeqs
    BY <2>2 DEF HasInside, CoinSeqs
  <2>6. \A d : Total(t, d) = Total(w, d) + Worth(coin, d)
    BY <2>2, TotalInside DEF Worth
  <2> QED BY <2>3, <2>4, <2>5, <2>6 DEF Wallet
<1>3. CASE \E p \in DOMAIN w : w[p].denom = coin.denom /\ Found(w, coin.denom) = {p}
  <2>1. PICK p \in DOMAIN w : w[p].denom = coin.denom /\ Found(w, coin.denom) = {p}
    BY <1>3
  <2> DEFINE v == AddCoin(w, coin)
             a == w[p].amount + coin.amount
  <2>2. w \in CoinSeqs /\ \A i \in DOMAIN w : w[i] \in Coin
    BY TotalTerms DEF Wallet
  <2>3. w[p].amount \in Nat /\ a \in Nat
    BY <1>1, <2>2 DEF Coin
  <2>4. v = [i \in DOMAIN w |-> IF i = p THEN [w[i] EXCEPT !.amount = @ + coin.amount] ELSE w[i]]
    BY <2>1 DEF AddCoin
  <2>5. [w[p] EXCEPT !.amount = @ + coin.amount] = [denom |-> w[p].denom, amount |-> a]
    BY <2>2 DEF Coin
  <2> HIDE DEF v, a
  <2>6. \A i \in DOMAIN w : v[i] = IF i = p THEN [denom |-> w[p].denom, amount |-> a] ELSE w[i]
    BY <2>4, <2>5
  <2>7. v \in [DOMAIN w -> Coin]
    <3>1. [denom |-> w[p].denom, amount |-> a] \in Coin
      BY <2>2, <2>3 DEF Coin
    <3> QED BY <2>2, <2>4, <2>6, <3>1
  <2>8. Wallet(v) /\ \A d : Total(v, d) = Total(w, d) + (IF w[p].denom = d THEN a - w[p].amount ELSE 0)
    BY <2>3, <2>6, <2>7, AmountChanged
  <2>9. a - w[p].amount = coin.amount
    BY <1>1, <2>3 DEF a
  <2> QED BY <2>1, <2>8, <2>9 DEF Worth, v
<1> QED BY <1>2, <1>3, FoundOrNot

LEMMA LoweredTakes ==
  ASSUME NEW w, Wallet(w), NEW p \in DOMAIN w, NEW a \in Nat, a <= w[p].amount
  PROVE  /\ Wallet(Lowered(w, p, a))
         /\ \A d : Total(Lowered(w, p, a), d) = Total(w, d) - (IF w[p].denom = d THEN a ELSE 0)
<1>1. /\ w \in CoinSeqs /\ p \in 1..Len(w) /\ w[p] \in Coin /\ w[p].amount \in Nat
      /\ \A i \in DOMAIN w : w[i] \in Coin
  BY TotalTerms DEF Wallet
<1>2. CASE w[p].amount = a
  <2> DEFINE v == RemoveAt(w, p)
  <2>1. HasInside(w, v, p, w[p], Coin)
    BY <1>1, RemoveAtTakes DEF CoinSeqs
  <2>2. Lowered(w, p, a) = v
    BY <1>2 DEF Lowered
  <2> HIDE DEF v
  <2>3. v \in CoinSeqs
    BY <2>1 DEF HasInside, CoinSeqs
  <2>4. StrictlySorted(v)
    BY <2>1, SortedOutside DEF Wallet
  <2>5. ASSUME NEW d PROVE Total(v, d) = Total(w, d) - (IF w[p].denom = d THEN a ELSE 0)
    <3>1. Total(w, d) = Total(v, d) + IF w[p].denom = d THEN w[p].amount ELSE 0
      BY <2>1, TotalInside
    <3>2. Total(v, d) \in Nat
      BY <2>3, TotalTerms
    <3> QED BY <1>1, <1>2, <3>1, <3>2
  <2> QED BY <2>2, <2>3, <2>4, <2>5 DEF Wallet
<1>3. CASE w[p].amount # a
  <2> DEFINE v == [w EXCEPT ![p].amount = @ - a]
             b == w[p].amount - a
  <2>1. Lowered(w, p, a) = v
    BY <1>3 DEF Lowered
  <2>2. b \in Nat
    BY <1>1
  <2>3. [w[p] EXCEPT !.amount = @ - a] = [denom |-> w[p].denom, amount |-> b]
    BY <1>1 DEF Coin
  <2>4. v = [i \in DOMAIN w |-> IF i = p THEN [w[p] EXCEPT !.amount = @ - a] ELSE w[i]]
    BY <1>1 DEF CoinSeqs
  <2> HIDE DEF v, b
  <2>5. \A i \in DOMAIN w : v[i] = IF i = p THEN [denom |-> w[p].denom, amount |-> b] ELSE w[i]
    BY <2>3, <2>4
  <2>6. v \in [DOMAIN w -> Coin]
    <3>1. [denom |-> w[p].denom, amount |-> b] \in Coin
      BY <1>1, <2>2 DEF Coin
    <3> QED BY <1>1, <2>4, <2>5, <3>1
  <2>7. Wallet(v) /\ \A d : Total(v, d) = Total(w, d) + (IF w[p].denom = d THEN b - w[p].amount ELSE 0)
    BY <2>2, <2>5, <2>6, AmountChanged
  <2>8. b - w[p].amount = -a
    BY <1>1 DEF b
  <2>9. ASSUME NEW d PROVE Total(v, d) = Total(w, d) - (IF w[p].denom = d THEN a ELSE 0)
    <3>1. Total(w, d) \in Nat
      BY <1>1, TotalTerms
    <3> QED BY <2>7, <2>8, <3>1
  <2> QED BY <2>1, <2>7, <2>9
<1> QED BY <1>2, <1>3

LEMMA SubCoinTakes ==
  ASSUME NEW w, Wallet(w), NEW coin \in Coin, NEW v \in SubCoin(w, coin)
  PROVE  Wallet(v) /\ \A d : Total(v, d) = Total(w, d) - Worth(coin, d)
<1>1. PICK p \in Found(w, coin.denom) :
        w[p].amount >= coin.amount /\ v = Lowered(w, p, coin.amount)
  BY DEF SubCoin
<1>2. p \in DOMAIN w /\ w[p].denom = coin.denom
  BY <1>1 DEF Found
<1>3. coin.amount \in Nat /\ w[p].amount \in Nat
  BY <1>2, TotalTerms DEF Coin, Wallet
<1>4. coin.amount <= w[p].amount
  BY <1>1, <1>3
<1> QED BY <1>1, <1>2, <1>3, <1>4, LoweredTakes DEF Worth

(* What there is not cannot be taken: at most all of it is.                 *)
LEMMA SubSaturatingTakes ==
  ASSUME NEW w, Wallet(w), NEW coin \in Coin, NEW v \in SubSaturating(w, coin)
  PROVE  /\ Wallet(v)
         /\ \A d : Total(v, d) = IF coin.denom = d
                                 THEN IF coin.amount > Total(w, d) THEN 0
                                      ELSE Total(w, d) - coin.amount
                                 ELSE Total(w, d)
<1>1. PICK p \in Found(w, coin.denom) :
        v = IF w[p].amount <= coin.amount THEN RemoveAt(w, p) ELSE Lowered(w, p, coin.amount)
  BY DEF SubSaturating
<1>2. p \in DOMAIN w /\ w[p].denom = coin.denom
  BY <1>1 DEF Found
<1>3. /\ w \in CoinSeqs /\ coin.amount \in Nat /\ w[p].amount \in Nat
      /\ Total(w, coin.denom) = w[p].amount
  BY <1>2, TotalTerms, TotalOfCoin DEF Coin, Wallet
<1> DEFINE a == IF w[p].amount <= coin.amount THEN w[p].amount ELSE coin.amount
<1>4. a \in Nat /\ a <= w[p].amount
  BY <1>3
<1>5. v = Lowered(w, p, a)
  BY <1>1, <1>3 DEF Lowered
<1>6. /\ w[p].amount <= coin.amount => a = w[p].amount
      /\ ~ (w[p].amount <= coin.amount) => a = coin.amount
  OBVIOUS
<1> HIDE DEF a
<1>7. Wallet(v) /\ \A d : Total(v, d) = Total(w, d) - (IF w[p].denom = d THEN a ELSE 0)
  BY <1>2, <1>4, <1>5, LoweredTakes
<1>8. ASSUME NEW d
      PROVE  Total(v, d) = IF coin.denom = d
                           THEN IF coin.amount > Total(w, d) THEN 0
                                ELSE Total(w, d) - coin.amount
                           ELSE Total(w, d)
  <2>1. Total(w, d) \in Nat
    BY <1>3, TotalTerms
  <2>2. Total(v, d) = Total(w, d) - (IF w[p].denom = d THEN a ELSE 0)
    BY <1>7
  <2>3. CASE coin.denom = d
    BY <1>2, <1>3, <1>4, <1>6, <2>1, <2>2, <2>3
  <2>4. CASE coin.denom # d
    BY <1>2, <2>1, <2>2, <2>4
  <2> QED BY <2>3, <2>4
<1> QED BY <1>7, <1>8

-----------------------------------------------------------------------------
(* Lists of coins are added and taken coin by coin *)

Wallets == {w \in CoinSeqs : StrictlySorted(w)}

LEMMA FirstTermsNext ==
  ASSUME NEW list \in CoinSeqs, NEW n \in 1..Len(list), NEW d
  PROVE  FirstTerms(list, d, n) = FirstTerms(list, d, n - 1) + Worth(list[n], d)
<1> DEFINE m == n - 1
           f == Terms(list, d)
<1>1. m \in Nat /\ n = m + 1
  BY TotalTerms
<1>2. /\ \A i \in 1..Len(list) : f[i] \in Int
      /\ f[n] = Worth(list[n], d)
  BY TotalTerms DEF Worth
<1> HIDE DEF f
<1>3. \A i \in 1..n : f[i] \in Int
  BY <1>2, TotalTerms
<1> HIDE DEF m
<1>4. SumFunctionOnSet(f, 1..(m+1)) = SumFunctionOnSet(f, 1..m) + f[m+1]
  BY <1>1, <1>3, SumNext
<1> QED BY <1>1, <1>2, <1>4 DEF FirstTerms, f, m

LEMMA FirstTermsNone ==
  ASSUME NEW list, NEW d
  PROVE  FirstTerms(list, d, 0) = 0
<1>1. 1..0 = {}
  OBVIOUS
<1> QED BY <1>1, SumEmpty DEF FirstTerms

LEMMA AddWalletAdds ==
  ASSUME NEW w, Wallet(w), NEW list \in CoinSeqs
  PROVE  /\ Wallet(AddWallet(w, list))
         /\ \A d \in Denoms : Total(AddWallet(w, list), d) = Total(w, d) + Total(list, d)
<1> DEFINE N == Len(list)
           sum == CHOOSE f : f = [n \in 0..N |-> IF n = 0 THEN w ELSE AddCoin(f[n-1], list[n])]
           step == [n \in 1..N |-> [v \in Wallets |-> AddCoin(v, list[n])]]
<1>1. N \in Nat /\ \A n \in 1..N : list[n] \in Coin
  BY TotalTerms
<1>2. w \in Wallets
  BY DEF Wallets, Wallet
<1>3. \A v \in Wallets : \A n \in 1..N : AddCoin(v, list[n]) \in Wallets
  BY <1>1, AddCoinAdds DEF Wallets, Wallet
<1>4. step \in [1..N -> [Wallets -> Wallets]]
  BY <1>3
<1>5. AddWallet(w, list) = sum[N]
  BY DEF AddWallet
<1>6. \A d \in Denoms : Total(list, d) = FirstTerms(list, d, N)
  BY TotalTerms
<1>7. ASSUME NEW n \in 1..N, NEW d \in Denoms
      PROVE  /\ FirstTerms(list, d, n) = FirstTerms(list, d, n-1) + Worth(list[n], d)
             /\ FirstTerms(list, d, n-1) \in Nat /\ Worth(list[n], d) \in Nat
  <2>1. n - 1 \in 0..N
    BY <1>1
  <2> QED BY <1>1, <2>1, FirstTermsNext, TotalTerms DEF Worth, Coin
<1> HIDE DEF N
<1>8. PICK f : IsLoop(f, N, Wallets, w, step)
  <2> HIDE DEF step
  <2> QED BY <1>1, <1>2, <1>4, LoopExists
<1>9. f = [n \in 0..N |-> IF n = 0 THEN w ELSE AddCoin(f[n-1], list[n])]
  <2>1. ASSUME NEW n \in 1..N PROVE f[n] = AddCoin(f[n-1], list[n])
    <3>1. n - 1 \in 0..N
      BY <1>1
    <3>2. f[n-1] \in Wallets
      BY <1>8, <3>1 DEF IsLoop
    <3> QED BY <1>8, <3>2 DEF IsLoop
  <2> HIDE DEF step
  <2> QED BY <1>8, <2>1 DEF IsLoop
<1>10. sum = [n \in 0..N |-> IF n = 0 THEN w ELSE AddCoin(sum[n-1], list[n])]
  BY <1>9
<1> HIDE DEF sum
<1> DEFINE P == {n \in 0..N : /\ sum[n] \in Wallets
                              /\ \A d \in Denoms : Total(sum[n], d) = Total(w, d) + FirstTerms(list, d, n)}
<1>11. 0 \in P
  <2>1. sum[0] = w
    BY <1>1, <1>10
  <2>2. \A d \in Denoms : Total(w, d) \in Nat /\ FirstTerms(list, d, 0) = 0
    BY TotalTerms, FirstTermsNone DEF Wallet
  <2> QED BY <1>1, <1>2, <2>1, <2>2
<1>12. ASSUME NEW n \in 1..N, n - 1 \in P PROVE n \in P
  <2>1. sum[n] = AddCoin(sum[n-1], list[n]) /\ sum[n-1] \in Wallets
    BY <1>1, <1>10, <1>12
  <2>2. \A d \in Denoms : Total(sum[n-1], d) = Total(w, d) + FirstTerms(list, d, n-1)
    BY <1>12
  <2>3. /\ sum[n] \in Wallets
        /\ \A d \in Denoms : Total(sum[n], d) = Total(sum[n-1], d) + Worth(list[n], d)
    BY <1>1, <2>1, AddCoinAdds DEF Wallets, Wallet
  <2>4. \A d \in Denoms : Total(w, d) \in Nat
    BY TotalTerms DEF Wallet
  <2>5. ASSUME NEW d \in Denoms PROVE Total(sum[n], d) = Total(w, d) + FirstTerms(list, d, n)
    BY <1>7, <2>2, <2>3, <2>4
  <2> QED BY <2>3, <2>5
<1>13. N \in P
  <2> HIDE DEF P
  <2>1. 0..N \subseteq P
    BY <1>1, <1>11, <1>12, UpTo
  <2> QED BY <1>1, <2>1
<1> QED BY <1>5, <1>6, <1>13 DEF Wallets, Wallet

LEMMA SubCoinsTakes ==
  ASSUME NEW w, Wallet(w), NEW list \in CoinSeqs, NEW v \in SubCoins(w, list)
  PROVE  /\ Wallet(v)
         /\ \A d \in Denoms : Total(v, d) = Total(w, d) - Total(list, d)
<1> DEFINE N == Len(list)
           Left(S, n) == UNION {SubCoin(u, list[n]) : u \in S}
           left == CHOOSE f : f = [n \in 0..N |-> IF n = 0 THEN {w} ELSE Left(f[n-1], n)]
           step == [n \in 1..N |-> [S \in SUBSET Wallets |-> Left(S, n)]]
<1>1. N \in Nat /\ \A n \in 1..N : list[n] \in Coin
  BY TotalTerms
<1>2. {w} \in SUBSET Wallets
  BY DEF Wallets, Wallet
<1>3. \A u \in Wallets, n \in 1..N : SubCoin(u, list[n]) \in SUBSET Wallets
  BY <1>1, SubCoinTakes DEF Wallets, Wallet
<1>4. \A S \in SUBSET Wallets, n \in 1..N : Left(S, n) \in SUBSET Wallets
  BY <1>3
<1>5. SubCoins(w, list) = left[N]
  BY DEF SubCoins
<1>6. \A d \in Denoms : Total(list, d) = FirstTerms(list, d, N)
  BY TotalTerms
<1>7. ASSUME NEW n \in 1..N, NEW d \in Denoms
      PROVE  /\ FirstTerms(list, d, n) = FirstTerms(list, d, n-1) + Worth(list[n], d)
             /\ FirstTerms(list, d, n-1) \in Nat /\ Worth(list[n], d) \in Nat
  <2>1. n - 1 \in 0..N
    BY <1>1
  <2> QED BY <1>1, <2>1, FirstTermsNext, TotalTerms DEF Worth, Coin
<1> HIDE DEF N, Left
<1>8. step \in [1..N -> [SUBSET Wallets -> SUBSET Wallets]]
  BY <1>4
<1>9. PICK f : IsLoop(f, N, SUBSET Wallets, {w}, step)
  <2> HIDE DEF step
  <2> QED BY <1>1, <1>2, <1>8, LoopExists
<1>10. f = [n \in 0..N |-> IF n = 0 THEN {w} ELSE Left(f[n-1], n)]
  <2>1. ASSUME NEW n \in 1..N PROVE f[n] = Left(f[n-1], n)
    <3>1. n - 1 \in 0..N
      BY <1>1
    <3>2. f[n-1] \in SUBSET Wallets
      BY <1>9, <3>1 DEF IsLoop
    <3> QED BY <1>9, <3>2 DEF IsLoop
  <2> HIDE DEF step
  <2> QED BY <1>9, <2>1 DEF IsLoop
<1>11. left = [n \in 0..N |-> IF n = 0 THEN {w} ELSE Left(left[n-1], n)]
  BY <1>10
<1> HIDE DEF left
<1> DEFINE P == {n \in 0..N : \A u \in left[n] :
                    /\ u \in Wallets
                    /\ \A d \in Denoms : Total(u, d) = Total(w, d) - FirstTerms(list, d, n)}
<1>12. 0 \in P
  <2>1. left[0] = {w}
    BY <1>1, <1>11
  <2>2. \A d \in Denoms : Total(w, d) \in Nat /\ FirstTerms(list, d, 0) = 0
    BY TotalTerms, FirstTermsNone DEF Wallet
  <2> QED BY <1>1, <1>2, <2>1, <2>2
<1>13. ASSUME NEW n \in 1..N, n - 1 \in P PROVE n \in P
  <2>1. left[n] = Left(left[n-1], n)
    <3>1. n \in 0..N /\ n # 0
      BY <1>1
    <3> HIDE DEF P
    <3> QED BY <1>11, <3>1, Zenon
  <2> SUFFICES ASSUME NEW u \in left[n]
      PROVE  /\ u \in Wallets
             /\ \A d \in Denoms : Total(u, d) = Total(w, d) - FirstTerms(list, d, n)
    OBVIOUS
  <2>2. PICK x \in left[n-1] : u \in SubCoin(x, list[n])
    BY <2>1 DEF Left
  <2>3. /\ x \in Wallets
        /\ \A d \in Denoms : Total(x, d) = Total(w, d) - FirstTerms(list, d, n-1)
    BY <1>13
  <2>4. /\ u \in Wallets
        /\ \A d \in Denoms : Total(u, d) = Total(x, d) - Worth(list[n], d)
    BY <1>1, <2>2, <2>3, SubCoinTakes DEF Wallets, Wallet
  <2>5. \A d \in Denoms : Total(w, d) \in Nat
    BY TotalTerms DEF Wallet
  <2> QED BY <1>7, <2>3, <2>4, <2>5
<1>14. N \in P
  <2> HIDE DEF P
  <2>1. 0..N \subseteq P
    BY <1>1, <1>12, <1>13, UpTo
  <2> QED BY <1>1, <2>1
<1> QED BY <1>5, <1>6, <1>14 DEF Wallets, Wallet

-----------------------------------------------------------------------------
(* Any list of coins becomes a wallet *)

LEMMA MergeCoinKeeps ==
  ASSUME NEW coin \in Coin, NEW m, Wallet(m), m # <<>> => coin.denom <= Head(m).denom
  PROVE  /\ Wallet(MergeCoin(coin, m))
         /\ MergeCoin(coin, m) # <<>> /\ Head(MergeCoin(coin, m)).denom = coin.denom
         /\ \A d : Total(MergeCoin(coin, m), d) = Total(m, d) + Worth(coin, d)
<1>1. m \in CoinSeqs /\ coin.denom \in Denoms /\ coin.amount \in Nat /\ coin.denom \in Nat
  BY WalletsAssumption DEF Wallet, Coin, WalletsAssumption
<1>2. ASSUME NEW c \in Coin, NEW s \in CoinSeqs
      PROVE  /\ <<c>> \o s # <<>> /\ Head(<<c>> \o s) = c
             /\ <<c>> \o s \in CoinSeqs
  BY DEF CoinSeqs
<1>3. CASE m # <<>> /\ Head(m).denom = coin.denom
  <2> DEFINE h == Head(m)
             s == Tail(m)
             c == [coin EXCEPT !.amount = @ + h.amount]
             t == <<c>> \o s
  <2>1. h \in Coin /\ s \in CoinSeqs /\ m = <<h>> \o s
    BY <1>1, <1>3 DEF CoinSeqs
  <2>2. c = [denom |-> coin.denom, amount |-> coin.amount + h.amount] /\ h.amount \in Nat
    BY <2>1 DEF Coin
  <2>3. c \in Coin /\ c.denom = coin.denom /\ c.amount = coin.amount + h.amount /\ h.denom = coin.denom
    BY <1>1, <1>3, <2>2 DEF Coin
  <2>4. MergeCoin(coin, m) = t
    BY <1>3 DEF MergeCoin
  <2> HIDE DEF h, s, c
  <2>5. HasInside(m, s, 1, h, Coin) /\ HasInside(t, s, 1, c, Coin)
    BY <2>1, <2>3, ConsPlaces DEF CoinSeqs
  <2> HIDE DEF t
  <2>6. StrictlySorted(s)
    BY <2>5, SortedOutside DEF Wallet
  <2>7. \A i \in 1..Len(s) : c.denom < s[i].denom
    <3>1. /\ m[1] = h /\ DOMAIN m = 1..(Len(s) + 1) /\ Len(s) \in Nat
          /\ \A i \in 1..Len(s) : m[i+1] = s[i]
      BY <2>5 DEF HasInside
    <3>2. \A i \in 1..Len(s) : 1 \in DOMAIN m /\ i + 1 \in DOMAIN m /\ 1 < i + 1
      BY <3>1
    <3>3. \A i \in 1..Len(s) : h.denom < s[i].denom
      BY <3>1, <3>2 DEF Wallet, StrictlySorted
    <3> QED BY <2>3, <3>3
  <2>8. StrictlySorted(t)
    <3>1. \A i \in 1..(1-1) : s[i].denom < c.denom
      OBVIOUS
    <3> QED BY <2>5, <2>6, <2>7, <3>1, SortedInside
  <2>9. ASSUME NEW d PROVE Total(t, d) = Total(m, d) + Worth(coin, d)
    <3>1. Total(m, d) = Total(s, d) + Worth(h, d) /\ Total(t, d) = Total(s, d) + Worth(c, d)
      BY <2>5, TotalInside DEF Worth
    <3>2. Total(s, d) \in Nat
      BY <2>1, TotalTerms
    <3>3. Worth(c, d) = Worth(h, d) + Worth(coin, d) /\ Worth(h, d) \in Nat /\ Worth(coin, d) \in Nat
      BY <1>1, <2>2, <2>3 DEF Worth
    <3> QED BY <3>1, <3>2, <3>3
  <2>10. t # <<>> /\ Head(t) = c /\ t \in CoinSeqs
    BY <1>2, <2>1, <2>3 DEF t
  <2> QED BY <2>3, <2>4, <2>8, <2>9, <2>10 DEF Wallet
<1>4. CASE ~ (m # <<>> /\ Head(m).denom = coin.denom)
  <2> DEFINE t == <<coin>> \o m
  <2>1. MergeCoin(coin, m) = t
    BY <1>4 DEF MergeCoin
  <2>2. HasInside(t, m, 1, coin, Coin)
    BY <1>1, ConsPlaces DEF CoinSeqs
  <2>3. t # <<>> /\ Head(t) = coin /\ t \in CoinSeqs
    BY <1>1, <1>2
  <2> HIDE DEF t
  <2>4. ASSUME NEW i \in 1..Len(m) PROVE coin.denom < m[i].denom
    <3>1. /\ DOMAIN m = 1..Len(m) /\ Len(m) \in Nat /\ 1 \in 1..Len(m) /\ m # <<>>
          /\ m[1].denom \in Nat /\ m[i].denom \in Nat
      BY <1>1, TotalTerms
    <3>2. Head(m) = m[1]
      BY <1>1, <3>1 DEF CoinSeqs
    <3>3. coin.denom < m[1].denom
      BY <1>1, <1>4, <3>1, <3>2
    <3>4. i = 1 \/ m[1].denom < m[i].denom
      BY <3>1 DEF Wallet, StrictlySorted
    <3> QED BY <1>1, <3>1, <3>3, <3>4
  <2>5. StrictlySorted(t)
    <3>1. \A i \in 1..(1-1) : m[i].denom < coin.denom
      OBVIOUS
    <3> QED BY <2>2, <2>4, <3>1, SortedInside DEF Wallet
  <2>6. \A d : Total(t, d) = Total(m, d) + Worth(coin, d)
    BY <2>2, TotalInside DEF Worth
  <2> QED BY <2>1, <2>3, <2>5, <2>6 DEF Wallet
<1> QED BY <1>3, <1>4

WeaklySorted(list) == \A i, j \in DOMAIN list : i < j => list[i].denom <= list[j].denom

LEMMA MergeCoinType ==
  ASSUME NEW coin \in Coin, NEW m \in CoinSeqs
  PROVE  MergeCoin(coin, m) \in CoinSeqs
<1>1. CASE m # <<>> /\ Head(m).denom = coin.denom
  <2> DEFINE c == [coin EXCEPT !.amount = @ + Head(m).amount]
  <2>1. Head(m) \in Coin /\ Tail(m) \in Seq(Coin)
    BY <1>1 DEF CoinSeqs
  <2>2. c \in Coin
    BY <2>1 DEF Coin
  <2>3. MergeCoin(coin, m) = <<c>> \o Tail(m)
    BY <1>1 DEF MergeCoin
  <2> HIDE DEF c
  <2> QED BY <2>1, <2>2, <2>3 DEF CoinSeqs
<1>2. CASE ~ (m # <<>> /\ Head(m).denom = coin.denom)
  BY <1>2 DEF MergeCoin, CoinSeqs
<1> QED BY <1>1, <1>2

LEMMA MergeDownMerges ==
  ASSUME NEW s \in CoinSeqs, WeaklySorted(s)
  PROVE  /\ Wallet(MergeDown(s))
         /\ \A d \in Denoms : Total(MergeDown(s), d) = Total(s, d)
<1> DEFINE N == Len(s)
           merged == CHOOSE f : f = [n \in 0..N |->
                       IF n = 0 THEN <<>> ELSE MergeCoin(s[N - n + 1], f[n-1])]
           step == [n \in 1..N |-> [m \in CoinSeqs |-> MergeCoin(s[N - n + 1], m)]]
           Rest(d, n) == SumFunctionOnSet(Terms(s, d), (N - n + 1)..N)
<1>1. /\ N \in Nat /\ DOMAIN s = 1..N
      /\ \A n \in 1..N : N - n + 1 \in 1..N
      /\ \A i \in 1..N : s[i] \in Coin /\ s[i].denom \in Nat
  BY TotalTerms
<1>2. \A n \in 1..N : s[N - n + 1] \in Coin
  BY <1>1
<1>3. <<>> \in CoinSeqs
  BY DEF CoinSeqs
<1>4. step \in [1..N -> [CoinSeqs -> CoinSeqs]]
  BY <1>2, MergeCoinType
<1>5. MergeDown(s) = merged[N]
  BY DEF MergeDown
<1>6. ASSUME NEW d \in Denoms
      PROVE  /\ \A i \in 1..N : Terms(s, d)[i] \in Int /\ Terms(s, d)[i] = Worth(s[i], d)
             /\ Total(s, d) = SumFunctionOnSet(Terms(s, d), 1..N)
  BY TotalTerms DEF FirstTerms, Worth
<1> HIDE DEF N
<1>7. PICK f : IsLoop(f, N, CoinSeqs, <<>>, step)
  <2> HIDE DEF step
  <2> QED BY <1>1, <1>3, <1>4, LoopExists
<1>8. f = [n \in 0..N |-> IF n = 0 THEN <<>> ELSE MergeCoin(s[N - n + 1], f[n-1])]
  <2>1. ASSUME NEW n \in 1..N PROVE f[n] = MergeCoin(s[N - n + 1], f[n-1])
    <3>1. n - 1 \in 0..N
      BY <1>1
    <3>2. f[n-1] \in CoinSeqs
      BY <1>7, <3>1 DEF IsLoop
    <3> QED BY <1>7, <3>2 DEF IsLoop
  <2> HIDE DEF step
  <2> QED BY <1>7, <2>1 DEF IsLoop
<1>9. merged = [n \in 0..N |-> IF n = 0 THEN <<>> ELSE MergeCoin(s[N - n + 1], merged[n-1])]
  BY <1>8
<1> HIDE DEF merged
<1> DEFINE P == {n \in 0..N :
                   /\ Wallet(merged[n])
                   /\ n = 0 => merged[n] = <<>>
                   /\ n > 0 => merged[n] # <<>> /\ Head(merged[n]).denom = s[N - n + 1].denom
                   /\ \A d \in Denoms : Total(merged[n], d) = Rest(d, n)}
<1>10. 0 \in P
  <2>1. merged[0] = <<>>
    BY <1>1, <1>9
  <2>2. Wallet(<<>>)
    BY <1>3 DEF Wallet, StrictlySorted
  <2>3. ASSUME NEW d \in Denoms PROVE Total(<<>>, d) = Rest(d, 0)
    <3>1. (N - 0 + 1)..N = {}
      BY <1>1
    <3>2. Rest(d, 0) = 0
      BY <3>1, SumEmpty
    <3>3. \A i \in DOMAIN <<>> : <<>>[i].denom # d
      OBVIOUS
    <3>4. Total(<<>>, d) = 0
      BY <1>3, <3>3, TotalOfNone
    <3> QED BY <3>2, <3>4
  <2>4. 0 \in 0..N
    BY <1>1
  <2> QED BY <2>1, <2>2, <2>3, <2>4
<1>11. ASSUME NEW n \in 1..N, n - 1 \in P PROVE n \in P
  <2> DEFINE p == N - n + 1
             m == merged[n-1]
  <2>1. /\ n \in 0..N /\ n # 0 /\ n - 1 \in 0..N /\ p \in 1..N
        /\ N - (n-1) + 1 = p + 1
    BY <1>1
  <2>2. merged[n] = MergeCoin(s[p], m)
    BY <1>9, <2>1
  <2>3. /\ Wallet(m)
        /\ n - 1 = 0 => m = <<>>
        /\ n - 1 > 0 => Head(m).denom = s[N - (n-1) + 1].denom
        /\ \A d \in Denoms : Total(m, d) = Rest(d, n - 1)
    BY <1>11
  <2> HIDE DEF m
  <2>4. m # <<>> => s[p].denom <= Head(m).denom
    <3>1. CASE n - 1 = 0
      BY <2>3, <3>1
    <3>2. CASE n - 1 > 0
      <4>1. p + 1 \in 1..N
        BY <1>1, <2>1, <3>2
      <4>2. p < p + 1
        BY <2>1
      <4>3. s[p].denom <= s[p+1].denom
        BY <1>1, <2>1, <4>1, <4>2 DEF WeaklySorted
      <4> QED BY <2>1, <2>3, <3>2, <4>3
    <3> QED BY <2>1, <3>1, <3>2
  <2>5. /\ Wallet(merged[n])
        /\ merged[n] # <<>> /\ Head(merged[n]).denom = s[p].denom
        /\ \A d : Total(merged[n], d) = Total(m, d) + Worth(s[p], d)
    BY <1>1, <2>1, <2>2, <2>3, <2>4, MergeCoinKeeps, SMTT(20)
  <2>6. ASSUME NEW d \in Denoms PROVE Rest(d, n) = Worth(s[p], d) + Rest(d, n - 1)
    <3> DEFINE T == (p+1)..N
               g == Terms(s, d)
    <3>1. IsFiniteSet(T) /\ p \notin T /\ T \cup {p} = p..N
      <4>1. p \in Int /\ p <= N /\ p + 1 \in Int
        BY <2>1
      <4> HIDE DEF p
      <4>2. IsFiniteSet(T)
        BY <1>1, <4>1, FS_Interval
      <4> QED BY <1>1, <4>1, <4>2
    <3>2. \A x \in T \cup {p} : x \in 1..N
      <4>1. p \in 1..N
        BY <2>1
      <4> HIDE DEF p
      <4> QED BY <1>1, <4>1
    <3>3. \A x \in T \cup {p} : g[x] \in Int
      BY <1>6, <3>2
    <3>4. g[p] = Worth(s[p], d)
      BY <1>6, <2>1
    <3>5. Rest(d, n) = SumFunctionOnSet(g, T \cup {p}) /\ Rest(d, n - 1) = SumFunctionOnSet(g, T)
      BY <2>1, <3>1
    <3> HIDE DEF T, g, p, Rest
    <3>6. SumFunctionOnSet(g, T \cup {p}) = g[p] + SumFunctionOnSet(g, T)
      BY <3>1, <3>3, SumAdded
    <3> QED BY <3>4, <3>5, <3>6
  <2>7. ASSUME NEW d \in Denoms PROVE Total(merged[n], d) = Rest(d, n)
    <3>1. Total(m, d) \in Nat /\ Worth(s[p], d) \in Nat
      BY <1>1, <2>1, <2>3, TotalTerms DEF Wallet, Worth, Coin
    <3> HIDE DEF Rest
    <3> QED BY <2>3, <2>5, <2>6, <3>1
  <2> HIDE DEF Rest
  <2> QED BY <2>1, <2>5, <2>7
<1>12. N \in P
  <2> HIDE DEF P
  <2>1. 0..N \subseteq P
    BY <1>1, <1>10, <1>11, UpTo
  <2> QED BY <1>1, <2>1
<1>13. ASSUME NEW d \in Denoms PROVE Rest(d, N) = Total(s, d)
  <2>1. N - N + 1 = 1
    BY <1>1
  <2> QED BY <1>6, <2>1
<1> HIDE DEF Rest
<1> QED BY <1>5, <1>12, <1>13

LEMMA SortedSorts ==
  ASSUME NEW w \in CoinSeqs
  PROVE  /\ Sorted(w) \in CoinSeqs /\ WeaklySorted(Sorted(w))
         /\ \A d \in Denoms : Total(Sorted(w), d) = Total(w, d)
<1> DEFINE n == Len(w)
           X == NonZero(w)
           N == Cardinality(X)
           R == {p \in X \X X : Before(w, p[1], p[2])}
           s == Sorted(w)
           order == [k \in 1..N |-> CHOOSE i \in X : Rank(R, X, i) = k - 1]
<1>1. /\ n \in Nat /\ DOMAIN w = 1..n
      /\ \A i \in 1..n : w[i] \in Coin /\ w[i].denom \in Nat /\ w[i].amount \in Nat
  BY TotalTerms
<1>2. X \in SUBSET (1..n) /\ \A i \in (1..n) \ X : w[i].amount = 0
  BY <1>1 DEF NonZero
<1>3. IsFiniteSet(1..n)
  <2>1. n \in Nat
    BY <1>1
  <2> QED BY <2>1, FS_Interval
<1>4. IsFiniteSet(X)
  BY <1>2, <1>3, FS_Subset
<1> HIDE DEF X
<1>5. StrictOrder(R, X)
  <2>1. \A i, j \in X : <<i, j>> \in R <=> Before(w, i, j)
    OBVIOUS
  <2>2. \A i \in X : i \in Nat /\ w[i].denom \in Nat
    BY <1>1, <1>2
  <2>3. /\ \A i, j \in X : i # j => Before(w, i, j) \/ Before(w, j, i)
        /\ \A i, j \in X : Before(w, i, j) => ~ Before(w, j, i)
        /\ \A i, j, k \in X : Before(w, i, j) /\ Before(w, j, k) => Before(w, i, k)
    BY <2>2 DEF Before
  <2> HIDE DEF R
  <2> QED BY <2>1, <2>3 DEF StrictOrder
<1>6. \A i \in X : {j \in X : Before(w, j, i)} = Below(R, X, i)
  BY DEF Below
<1>7. s = [k \in 1..N |-> w[order[k]]]
  <2> DEFINE c == [k \in 1..N |-> CHOOSE i \in X : Cardinality({j \in X : Before(w, j, i)}) = k - 1]
  <2>1. ASSUME NEW k \in 1..N PROVE c[k] = order[k]
    <3>1. \A i \in X : Cardinality({j \in X : Before(w, j, i)}) = Rank(R, X, i)
      BY <1>6 DEF Rank
    <3> HIDE DEF R
    <3> QED BY <3>1
  <2>2. s = [k \in 1..N |-> w[c[k]]]
    BY DEF Sorted, X
  <2> HIDE DEF order, s, c
  <2>3. [k \in 1..N |-> w[c[k]]] = [k \in 1..N |-> w[order[k]]]
    BY <2>1
  <2> QED BY <2>2, <2>3
<1> HIDE DEF R, s
<1>8. N \in Nat
  BY <1>4, <1>5, Ranks
<1>9. ASSUME NEW k \in 1..N PROVE order[k] \in X /\ Rank(R, X, order[k]) = k - 1
  <2>1. k - 1 \in 0..(N - 1)
    BY <1>8
  <2>2. \E i \in X : Rank(R, X, i) = k - 1
    BY <1>4, <1>5, <2>1, Ranks
  <2>3. order[k] = CHOOSE i \in X : Rank(R, X, i) = k - 1
    OBVIOUS
  <2> HIDE DEF order
  <2> QED BY <2>2, <2>3
<1>10. order \in [1..N -> X]
  BY <1>9
<1>11. \A i \in X : \E k \in 1..N : order[k] = i
  <2> TAKE i \in X
  <2> DEFINE k == Rank(R, X, i) + 1
  <2>1. Rank(R, X, i) \in 0..(N-1)
    BY <1>4, <1>5, Ranks
  <2>2. k \in 1..N /\ k - 1 = Rank(R, X, i)
    BY <1>8, <2>1
  <2>3. order[k] \in X /\ Rank(R, X, order[k]) = Rank(R, X, i)
    BY <1>9, <2>2
  <2>4. order[k] = i
    <3> HIDE DEF order, k
    <3> QED BY <1>4, <1>5, <2>3, Ranks
  <2> QED BY <2>2, <2>4
<1>12. \A k, l \in 1..N : order[k] = order[l] => k = l
  <2> HIDE DEF order, N
  <2> QED BY <1>8, <1>9
<1> HIDE DEF order, N
<1>13. /\ s \in [1..N -> Coin] /\ \A k \in 1..N : s[k] = w[order[k]]
  BY <1>1, <1>2, <1>7, <1>9
<1>14. s \in CoinSeqs
  BY <1>8, <1>13, SeqDef DEF CoinSeqs
<1>15. DOMAIN s = 1..N
  BY <1>13
<1>16. ASSUME NEW k \in 1..N, NEW l \in 1..N, k < l PROVE s[k].denom <= s[l].denom
  <2>1. Rank(R, X, order[k]) < Rank(R, X, order[l])
    BY <1>8, <1>9, <1>16
  <2>2. <<order[k], order[l]>> \in R
    BY <1>4, <1>5, <1>9, <2>1, Ranks
  <2>3. Before(w, order[k], order[l])
    BY <2>2 DEF R
  <2>4. order[k] \in 1..n /\ order[l] \in 1..n
    BY <1>2, <1>9
  <2>5. w[order[k]].denom \in Nat /\ w[order[l]].denom \in Nat
    BY <1>1, <2>4
  <2>6. w[order[k]].denom <= w[order[l]].denom
    BY <2>3, <2>5 DEF Before
  <2> QED BY <1>13, <2>6
<1>17. WeaklySorted(s)
  BY <1>15, <1>16 DEF WeaklySorted
<1>18. ASSUME NEW d \in Denoms PROVE Total(s, d) = Total(w, d)
  <2> DEFINE f == Terms(w, d)
             g == Terms(s, d)
             T == 1..N
             D == 1..n
  <2>1. /\ Total(w, d) = SumFunctionOnSet(f, D)
        /\ \A i \in D : f[i] \in Int /\ f[i] = IF w[i].denom = d THEN w[i].amount ELSE 0
    BY TotalTerms DEF FirstTerms
  <2>2. Total(s, d) = SumFunctionOnSet(g, T)
    BY <1>15 DEF Total, Terms, SumFunction
  <2>3. \A k \in T : g[k] = IF s[k].denom = d THEN s[k].amount ELSE 0
    BY <1>15 DEF Terms
  <2>4. IsFiniteSet(T)
    BY <1>8, FS_Interval
  <2>5. IsFiniteSet(D) /\ X \in SUBSET D
    BY <1>2, <1>3
  <2> HIDE DEF f, g
  <2>6. \A i \in D \ X : f[i] = 0
    BY <1>2, <2>1
  <2>7. \A k \in T : g[k] = f[order[k]]
    BY <1>9, <1>13, <2>1, <2>3, <2>5
  <2>8. \A i \in X : f[i] \in Int
    BY <2>1, <2>5
  <2>9. order \in [T -> X] /\ \A i \in X : \E k \in T : order[k] = i
    BY <1>10, <1>11
  <2>10. \A k, l \in T : order[k] = order[l] => k = l
    BY <1>12
  <2>11. \A i \in D : f[i] \in Int
    BY <2>1
  <2> HIDE DEF T, D
  <2>12. SumFunctionOnSet(f, D) = SumFunctionOnSet(f, X)
    BY <2>5, <2>6, <2>11, SumPart
  <2>13. SumFunctionOnSet(g, T) = SumFunctionOnSet(f, X)
    BY <1>4, <2>4, <2>7, <2>8, <2>9, <2>10, SumBijection
  <2> QED BY <2>1, <2>2, <2>12, <2>13
<1> QED BY <1>14, <1>17, <1>18 DEF s

-----------------------------------------------------------------------------
(* The wallet of a contract *)

WalletInv ==
  /\ Wallet(wallet)
  /\ owned \in [Denoms -> Nat]
  /\ \A d \in Denoms : Total(wallet, d) = owned[d]

LEMMA ListsAreCoinSeqs ==
  /\ Coins \subseteq Coin
  /\ CoinLists \subseteq CoinSeqs
  /\ \A f \in Funds : f \in CoinSeqs
<1>1. Coins \subseteq Coin
  BY WalletsAssumption DEF WalletsAssumption, Coins, Coin
<1>2. Seq(Coins) \subseteq CoinSeqs
  BY <1>1, SeqMonotonic DEF CoinSeqs
<1> QED BY <1>1, <1>2, WalletsAssumption DEF WalletsAssumption

LEMMA NormalizeKeepsWorth ==
  ASSUME NEW list \in CoinSeqs
  PROVE  /\ Wallet(Normalize(list))
         /\ \A d \in Denoms : Total(Normalize(list), d) = Total(list, d)
<1>1. /\ Sorted(list) \in CoinSeqs /\ WeaklySorted(Sorted(list))
      /\ \A d \in Denoms : Total(Sorted(list), d) = Total(list, d)
  BY SortedSorts
<1>2. /\ Wallet(MergeDown(Sorted(list)))
      /\ \A d \in Denoms : Total(MergeDown(Sorted(list)), d) = Total(Sorted(list), d)
  BY <1>1, MergeDownMerges
<1> QED BY <1>1, <1>2 DEF Normalize

(* What must_pay and may_pay read is what the message pays in the denomination. *)
LEMMA PaymentsAreRead ==
  ASSUME NEW funds \in CoinSeqs, NEW d \in Denoms,
         NEW a \in MustPay(funds, d) \cup MayPay(funds, d)
  PROVE  a \in Nat /\ Total(funds, d) = a
<1>1. /\ Len(funds) \in Nat /\ DOMAIN funds = 1..Len(funds)
      /\ \A i \in 1..Len(funds) : funds[i] \in Coin
      /\ Total(funds, d) = FirstTerms(funds, d, Len(funds))
  BY TotalTerms
<1>2. CASE Len(funds) = 1 /\ funds[1].denom = d /\ a = funds[1].amount
  <2>1. 1 \in 1..Len(funds) /\ 1 - 1 = 0
    BY <1>2
  <2>2. FirstTerms(funds, d, 1) = FirstTerms(funds, d, 0) + Worth(funds[1], d)
    BY <2>1, FirstTermsNext
  <2>3. a \in Nat
    BY <1>1, <1>2, <2>1 DEF Coin
  <2> QED BY <1>1, <1>2, <2>2, <2>3, FirstTermsNone DEF Worth
<1>3. CASE funds = <<>> /\ a = 0
  <2>1. Len(funds) = 0
    BY <1>3
  <2> QED BY <1>1, <1>3, <2>1, FirstTermsNone
<1>4. a \in MustPay(funds, d) => Len(funds) = 1 /\ funds[1].denom = d /\ a = funds[1].amount
  BY <1>1 DEF MustPay, OneCoin
<1>5. a \in MayPay(funds, d) =>
        \/ Len(funds) = 1 /\ funds[1].denom = d /\ a = funds[1].amount
        \/ funds = <<>> /\ a = 0
  BY <1>1 DEF MayPay
<1> QED BY <1>2, <1>3, <1>4, <1>5

LEMMA WalletInvInit == WalletInit => WalletInv
<1> SUFFICES ASSUME WalletInit PROVE WalletInv
  OBVIOUS
<1>1. wallet = <<>> /\ owned = [d \in Denoms |-> 0]
  BY DEF WalletInit
<1>2. <<>> \in CoinSeqs /\ StrictlySorted(<<>>)
  BY DEF CoinSeqs, StrictlySorted
<1>3. \A d \in Denoms : Total(<<>>, d) = 0
  <2> TAKE d \in Denoms
  <2>1. \A i \in DOMAIN <<>> : <<>>[i].denom # d
    OBVIOUS
  <2> QED BY <1>2, <2>1, TotalOfNone
<1> QED BY <1>1, <1>2, <1>3 DEF WalletInv, Wallet

(* A wallet worth w', of which owned' says what it is worth, is as it was.  *)
LEMMA WalletStep ==
  ASSUME NEW v, wallet' = v, Wallet(v), NEW new, owned' = new, new = [d \in Denoms |-> new[d]],
         \A d \in Denoms : Total(v, d) = new[d]
  PROVE  WalletInv'
<1>1. \A d \in Denoms : Total(v, d) \in Nat
  BY TotalTerms DEF Wallet
<1>2. new \in [Denoms -> Nat]
  BY <1>1
<1>3. Wallet(wallet)'
  BY DEF Wallet, CoinSeqs, StrictlySorted
<1>4. \A d \in Denoms : Total(wallet, d)' = owned'[d]
  BY DEF Total
<1> QED BY <1>2, <1>3, <1>4 DEF WalletInv

LEMMA WalletInvNext == WalletInv /\ [WalletNext]_walletVars => WalletInv'
<1> SUFFICES ASSUME WalletInv, [WalletNext]_walletVars PROVE WalletInv'
  OBVIOUS
<1>1. /\ Wallet(wallet) /\ owned \in [Denoms -> Nat]
      /\ \A d \in Denoms : Total(wallet, d) = owned[d] /\ owned[d] \in Nat
  BY DEF WalletInv
<1>2. ASSUME NEW list \in CoinLists, StartWith(list) PROVE WalletInv'
  <2>1. list \in CoinSeqs
    BY ListsAreCoinSeqs
  <2> DEFINE v == Normalize(list)
             new == [d \in Denoms |-> Total(list, d)]
  <2>2. wallet' = v /\ owned' = new
    BY <1>2 DEF StartWith, Own
  <2>3. Wallet(v) /\ \A d \in Denoms : Total(v, d) = new[d]
    BY <2>1, NormalizeKeepsWorth
  <2> QED BY <2>2, <2>3, WalletStep
<1>3. ASSUME NEW list \in CoinLists, DepositAll(list) PROVE WalletInv'
  <2>1. list \in CoinSeqs
    BY ListsAreCoinSeqs
  <2> DEFINE v == AddWallet(wallet, list)
             new == [d \in Denoms |-> owned[d] + Total(list, d)]
  <2>2. wallet' = v /\ owned' = new
    BY <1>3 DEF DepositAll, Own
  <2>3. Wallet(v) /\ \A d \in Denoms : Total(v, d) = new[d]
    BY <1>1, <2>1, AddWalletAdds
  <2> QED BY <2>2, <2>3, WalletStep
<1>4. ASSUME NEW f \in Funds, NEW c \in Denoms, NEW required \in BOOLEAN, Deposit(f, c, required)
      PROVE  WalletInv'
  <2>1. f \in CoinSeqs
    BY ListsAreCoinSeqs
  <2>2. PICK a \in MustPay(f, c) \cup MayPay(f, c) :
          /\ wallet' = AddCoin(wallet, [denom |-> c, amount |-> a])
          /\ Own([owned EXCEPT ![c] = @ + Total(f, c)])
    BY <1>4 DEF Deposit
  <2>3. a \in Nat /\ Total(f, c) = a
    BY <2>1, <2>2, PaymentsAreRead
  <2> DEFINE coin == [denom |-> c, amount |-> a]
             v == AddCoin(wallet, coin)
             new == [owned EXCEPT ![c] = @ + a]
  <2>4. coin \in Coin /\ \A d : Worth(coin, d) = IF c = d THEN a ELSE 0
    BY <2>3 DEF Coin, Worth
  <2>5. wallet' = v /\ owned' = new
    BY <2>2, <2>3 DEF Own
  <2>6. Wallet(v) /\ \A d : Total(v, d) = Total(wallet, d) + Worth(coin, d)
    BY <1>1, <2>4, AddCoinAdds
  <2>7. new = [d \in Denoms |-> new[d]] /\ \A d \in Denoms : new[d] = IF d = c THEN owned[d] + a ELSE owned[d]
    BY <1>1
  <2> HIDE DEF v, new, coin
  <2>8. \A d \in Denoms : Total(v, d) = new[d]
    BY <1>1, <2>4, <2>6, <2>7
  <2> QED BY <2>5, <2>6, <2>7, <2>8, WalletStep
<1>5. ASSUME NEW f \in Funds, NEW list \in CoinLists, PayOut(f, list) PROVE WalletInv'
  <2>1. list \in CoinSeqs
    BY ListsAreCoinSeqs
  <2> DEFINE v == wallet'
             new == [d \in Denoms |-> owned[d] - Total(list, d)]
  <2>2. v \in SubCoins(wallet, list) /\ owned' = new
    BY <1>5 DEF PayOut, Own
  <2>3. Wallet(v) /\ \A d \in Denoms : Total(v, d) = new[d]
    BY <1>1, <2>1, <2>2, SubCoinsTakes
  <2> QED BY <2>2, <2>3, WalletStep
<1>6. ASSUME NEW coin \in Coins, PayUpTo(coin) PROVE WalletInv'
  <2>1. coin \in Coin
    BY ListsAreCoinSeqs
  <2> DEFINE v == wallet'
             new == [owned EXCEPT ![coin.denom] = IF coin.amount > @ THEN 0 ELSE @ - coin.amount]
  <2>2. v \in SubSaturating(wallet, coin) /\ owned' = new
    BY <1>6 DEF PayUpTo, Own
  <2>3. /\ Wallet(v)
        /\ \A d : Total(v, d) = IF coin.denom = d
                                THEN IF coin.amount > Total(wallet, d) THEN 0
                                     ELSE Total(wallet, d) - coin.amount
                                ELSE Total(wallet, d)
    BY <1>1, <2>1, <2>2, SubSaturatingTakes
  <2>4. /\ new = [d \in Denoms |-> new[d]]
        /\ \A d \in Denoms : new[d] = IF coin.denom = d
                                      THEN IF coin.amount > owned[d] THEN 0 ELSE owned[d] - coin.amount
                                      ELSE owned[d]
    BY <1>1
  <2> HIDE DEF new
  <2>5. \A d \in Denoms : Total(v, d) = new[d]
    BY <1>1, <2>3, <2>4
  <2> QED BY <2>2, <2>3, <2>4, <2>5, WalletStep
<1>7. CASE UNCHANGED walletVars
  BY <1>1, <1>7 DEF walletVars, WalletInv, Wallet, CoinSeqs, StrictlySorted, Total
<1> QED BY <1>2, <1>3, <1>4, <1>5, <1>6, <1>7 DEF WalletNext

LEMMA InvAgrees == WalletInv => WalletAgrees
<1> SUFFICES ASSUME WalletInv PROVE WalletAgrees
  OBVIOUS
<1>1. /\ Wallet(wallet) /\ wallet \in CoinSeqs
      /\ \A i, j \in DOMAIN wallet : i < j => wallet[i].denom < wallet[j].denom
      /\ \A d \in Denoms : Total(wallet, d) = owned[d] /\ owned[d] \in Nat
  BY DEF WalletInv, Wallet, StrictlySorted
<1>2. \A i \in DOMAIN wallet : wallet[i].denom \in Denoms /\ wallet[i].amount \in Nat
  BY <1>1, TotalTerms
<1>3. ASSUME NEW c \in Coins, c.amount > 0 PROVE Has(wallet, c) <=> owned[c.denom] >= c.amount
  <2>1. c.denom \in Denoms /\ c.amount \in Nat
    BY ListsAreCoinSeqs DEF Coin
  <2>2. CASE Found(wallet, c.denom) = {} /\ Total(wallet, c.denom) = 0
    BY <1>1, <1>3, <2>1, <2>2 DEF Has
  <2>3. CASE \E p \in DOMAIN wallet :
               Found(wallet, c.denom) = {p} /\ Total(wallet, c.denom) = wallet[p].amount
    BY <1>1, <2>1, <2>3 DEF Has
  <2> QED BY <1>1, <2>2, <2>3, FoundOrNot
<1>4. IsEmpty(wallet) <=> \A d \in Denoms : owned[d] = 0
  <2>1. ASSUME IsEmpty(wallet), NEW d \in Denoms PROVE owned[d] = 0
    <3>1. Total(wallet, d) = 0 \/ \E p \in DOMAIN wallet : Total(wallet, d) = wallet[p].amount
      BY <1>1, FoundOrNot
    <3> QED BY <1>1, <2>1, <3>1 DEF IsEmpty
  <2>2. ASSUME \A d \in Denoms : owned[d] = 0, NEW i \in DOMAIN wallet PROVE wallet[i].amount = 0
    <3>1. Total(wallet, wallet[i].denom) = wallet[i].amount
      BY <1>1, TotalOfCoin DEF Wallet
    <3> QED BY <1>1, <1>2, <2>2, <3>1
  <2> QED BY <2>1, <2>2 DEF IsEmpty
<1> QED BY <1>1, <1>3, <1>4 DEF WalletAgrees

(* NativeBalance over any lists of coins that come and go, of any length:   *)
(* it is sorted, holds one coin per denomination, and is worth what was     *)
(* paid in less what was paid out.                                          *)
THEOREM WalletsAgree == WalletSpec => []WalletAgrees
<1>1. WalletSpec => []WalletInv
  BY WalletInvInit, WalletInvNext, PTL DEF WalletSpec
<1> QED BY <1>1, InvAgrees, PTL

-----------------------------------------------------------------------------
(* The order of keys, decided at one place *)

(* a is less than b at i: they agree before i, where a ends or is less.     *)
LessAt(a, b, i) ==
  /\ i \in 1..Len(b) /\ i <= Len(a) + 1
  /\ i <= Len(a) => a[i] < b[i]
  /\ \A j \in 1..i - 1 : a[j] = b[j]

LEMMA LessAtIsLess ==
  ASSUME NEW a \in Seq(Nat), NEW b \in Seq(Nat), NEW i, LessAt(a, b, i)
  PROVE  LexLess(a, b)
<1>1. Len(a) \in Nat /\ Len(b) \in Nat /\ DOMAIN a = 1..Len(a) /\ DOMAIN b = 1..Len(b)
  OBVIOUS
<1>2. i \in 1..Len(b) /\ i <= Len(a) + 1
  BY DEF LessAt
<1>3. CASE i <= Len(a)
  <2>1. i \in DOMAIN a \cap DOMAIN b
    BY <1>1, <1>2, <1>3
  <2>2. a[i] < b[i] /\ \A j \in 1..i - 1 : a[j] = b[j]
    BY <1>3 DEF LessAt
  <2> QED BY <2>1, <2>2 DEF LexLess
<1>4. CASE i = Len(a) + 1
  <2>1. Len(a) < Len(b) /\ 1..i - 1 = 1..Len(a)
    BY <1>1, <1>2, <1>4
  <2>2. \A j \in 1..Len(a) : a[j] = b[j]
    BY <2>1 DEF LessAt
  <2>3. Len(a) <= Len(b)
    BY <1>1, <2>1
  <2>4. IsPrefix(a, b)
    BY <2>2, <2>3, AgreeingIsPrefix
  <2> QED BY <1>1, <2>1, <2>4 DEF LexLess, IsStrictPrefix
<1>5. i <= Len(a) \/ i = Len(a) + 1
  <2>1. i \in Nat /\ i <= Len(a) + 1 /\ Len(a) \in Nat
    BY <1>1, <1>2
  <2> QED BY <2>1
<1> QED BY <1>3, <1>4, <1>5

LEMMA LessIsLessAt ==
  ASSUME NEW a \in Seq(Nat), NEW b \in Seq(Nat), LexLess(a, b)
  PROVE  \E i \in 1..Len(b) : LessAt(a, b, i)
<1>1. Len(a) \in Nat /\ Len(b) \in Nat /\ DOMAIN a = 1..Len(a) /\ DOMAIN b = 1..Len(b)
  OBVIOUS
<1>2. CASE IsStrictPrefix(a, b)
  <2>1. Len(a) <= Len(b) /\ (\A j \in 1..Len(a) : a[j] = b[j]) /\ a # b
    BY <1>2, PrefixAgrees DEF IsStrictPrefix
  <2>2. Len(a) # Len(b)
    BY <2>1, SameSeq
  <2> DEFINE i == Len(a) + 1
  <2>3. i \in 1..Len(b) /\ i <= Len(a) + 1 /\ ~ (i <= Len(a)) /\ i - 1 = Len(a)
    <3>1. Len(a) < Len(b)
      <4>1. Len(a) <= Len(b) /\ Len(a) \in Nat /\ Len(b) \in Nat
        BY <1>1, <2>1
      <4> QED BY <2>2, <4>1
    <3> QED BY <1>1, <3>1
  <2> HIDE DEF i
  <2>4. \A j \in 1..i - 1 : a[j] = b[j]
    BY <2>1, <2>3
  <2> QED BY <2>3, <2>4 DEF LessAt
<1>3. ASSUME NEW i \in DOMAIN a \cap DOMAIN b, a[i] < b[i], \A j \in 1..i - 1 : a[j] = b[j]
      PROVE  LessAt(a, b, i) /\ i \in 1..Len(b)
  <2>1. i \in 1..Len(b) /\ i <= Len(a) + 1
    BY <1>1
  <2> QED BY <1>3, <2>1 DEF LessAt
<1> QED BY <1>2, <1>3 DEF LexLess

LEMMA LexIrreflexive ==
  ASSUME NEW a \in Seq(Nat)
  PROVE  ~ LexLess(a, a)
BY LexAsymmetric

LEMMA LexTransitive ==
  ASSUME NEW a \in Seq(Nat), NEW b \in Seq(Nat), NEW c \in Seq(Nat),
         LexLess(a, b), LexLess(b, c)
  PROVE  LexLess(a, c)
<1>1. PICK i \in 1..Len(b) : LessAt(a, b, i)
  BY LessIsLessAt
<1>2. PICK j \in 1..Len(c) : LessAt(b, c, j)
  BY LessIsLessAt
<1>3. /\ Len(a) \in Nat /\ Len(b) \in Nat /\ Len(c) \in Nat
      /\ \A k \in 1..Len(a) : a[k] \in Nat
      /\ \A k \in 1..Len(b) : b[k] \in Nat
      /\ \A k \in 1..Len(c) : c[k] \in Nat
  BY SMTT(20)
<1>4. /\ i \in Nat \ {0} /\ i <= Len(b) /\ i <= Len(a) + 1 /\ (i <= Len(a) => a[i] < b[i])
      /\ \A k \in 1..i - 1 : a[k] = b[k]
  BY <1>1, <1>3 DEF LessAt
<1>5. /\ j \in Nat \ {0} /\ j <= Len(c) /\ j <= Len(b) + 1 /\ (j <= Len(b) => b[j] < c[j])
      /\ \A k \in 1..j - 1 : b[k] = c[k]
  BY <1>2, <1>3 DEF LessAt
<1>6. CASE i < j
  <2>1. i \in 1..j - 1 /\ i \in 1..Len(c) /\ \A k \in 1..i - 1 : k \in 1..j - 1
    BY <1>3, <1>4, <1>5, <1>6
  <2>2. b[i] = c[i] /\ \A k \in 1..i - 1 : a[k] = c[k]
    BY <1>4, <1>5, <2>1
  <2>3. LessAt(a, c, i)
    BY <1>4, <2>1, <2>2 DEF LessAt
  <2> QED BY <2>3, LessAtIsLess
<1>7. CASE j < i
  <2>1. /\ j \in 1..i - 1 /\ j \in 1..Len(c) /\ j \in 1..Len(a) /\ j \in 1..Len(b)
        /\ j <= Len(a) + 1 /\ j <= Len(b)
    <3>1. /\ i \in Nat \ {0} /\ i <= Len(b) /\ i <= Len(a) + 1
          /\ j \in Nat \ {0} /\ j <= Len(c)
          /\ Len(a) \in Nat /\ Len(b) \in Nat /\ Len(c) \in Nat
      BY <1>3, <1>4, <1>5
    <3> QED BY <1>7, <3>1
  <2>4. \A k \in 1..j - 1 : k \in 1..i - 1
    BY <1>4, <1>5, <1>7
  <2>2. a[j] < c[j] /\ \A k \in 1..j - 1 : a[k] = c[k]
    BY <1>4, <1>5, <2>1, <2>4
  <2>3. LessAt(a, c, j)
    BY <1>3, <2>1, <2>2 DEF LessAt
  <2> QED BY <2>3, LessAtIsLess
<1>8. CASE i = j
  <2>1. i \in 1..Len(c) /\ b[i] < c[i] /\ b[i] \in Nat /\ c[i] \in Nat
    BY <1>3, <1>4, <1>5, <1>8
  <2>2. i <= Len(a) => a[i] < c[i]
    <3>1. ASSUME i <= Len(a) PROVE a[i] < c[i]
      <4>1. a[i] \in Nat /\ a[i] < b[i]
        BY <1>3, <1>4, <3>1
      <4> QED BY <2>1, <4>1, SMTT(20)
    <3> QED BY <3>1
  <2>3. \A k \in 1..i - 1 : a[k] = c[k]
    BY <1>4, <1>5, <1>8
  <2>4. LessAt(a, c, i)
    BY <1>4, <2>1, <2>2, <2>3 DEF LessAt
  <2> QED BY <2>4, LessAtIsLess
<1> QED BY <1>4, <1>5, <1>6, <1>7, <1>8

(* What two keys begin with in common does not count. *)
LEMMA LexBehind ==
  ASSUME NEW p \in Seq(Nat), NEW a \in Seq(Nat), NEW b \in Seq(Nat)
  PROVE  LexLess(p \o a, p \o b) <=> LexLess(a, b)
<1>1. ASSUME NEW x \in Seq(Nat), NEW y \in Seq(Nat), LexLess(x, y) PROVE LexLess(p \o x, p \o y)
  <2>1. PICK i \in 1..Len(y) : LessAt(x, y, i)
    BY <1>1, LessIsLessAt
  <2> DEFINE n == Len(p)
             px == p \o x
             py == p \o y
  <2>2. /\ n \in Nat /\ px \in Seq(Nat) /\ py \in Seq(Nat)
        /\ Len(px) = n + Len(x) /\ Len(py) = n + Len(y)
        /\ Len(x) \in Nat /\ Len(y) \in Nat
    OBVIOUS
  <2>3. /\ \A k \in 1..n : px[k] = p[k] /\ py[k] = p[k]
        /\ \A k \in 1..Len(x) : px[n + k] = x[k]
        /\ \A k \in 1..Len(y) : py[n + k] = y[k]
    OBVIOUS
  <2>4. /\ i \in Nat \ {0} /\ i <= Len(y) /\ i <= Len(x) + 1
        /\ i <= Len(x) => x[i] < y[i]
        /\ \A k \in 1..i - 1 : x[k] = y[k]
    BY <2>1, <2>2 DEF LessAt
  <2> HIDE DEF px, py, n
  <2>5. n + i \in 1..Len(py) /\ n + i <= Len(px) + 1
    BY <2>2, <2>4
  <2>6. n + i <= Len(px) => px[n + i] < py[n + i]
    <3>1. n + i <= Len(px) => i <= Len(x) /\ i \in 1..Len(x) /\ i \in 1..Len(y)
      BY <2>2, <2>4
    <3> QED BY <2>3, <2>4, <3>1
  <2>7. ASSUME NEW k \in 1..(n + i) - 1 PROVE px[k] = py[k]
    <3>1. CASE k <= n
      <4>1. k \in 1..n
        BY <2>2, <3>1
      <4> QED BY <2>3, <4>1
    <3>2. CASE k > n
      <4> DEFINE m == k - n
      <4>1. m \in 1..Len(x) /\ m \in 1..Len(y) /\ m \in 1..i - 1 /\ k = n + m
        <5>1. i \in Nat \ {0} /\ i <= Len(y) /\ i <= Len(x) + 1
          BY <2>4
        <5> QED BY <2>2, <3>2, <5>1, SMTT(20)
      <4> HIDE DEF m
      <4> QED BY <2>3, <2>4, <4>1
    <3> QED BY <2>2, <3>1, <3>2
  <2>8. LessAt(px, py, n + i)
    <3> DEFINE m == n + i
    <3>1. \A k \in 1..m - 1 : px[k] = py[k]
      BY <2>7
    <3>2. m \in 1..Len(py) /\ m <= Len(px) + 1 /\ (m <= Len(px) => px[m] < py[m])
      BY <2>5, <2>6
    <3> HIDE DEF m
    <3>3. LessAt(px, py, m)
      BY <3>1, <3>2 DEF LessAt
    <3> QED BY <3>3 DEF m
  <2> QED BY <2>2, <2>8, LessAtIsLess DEF px, py
<1>2. ASSUME LexLess(p \o a, p \o b) PROVE LexLess(a, b)
  <2>1. p \o a \in Seq(Nat) /\ p \o b \in Seq(Nat)
    OBVIOUS
  <2>2. a # b
    BY <1>2, <2>1, LexIrreflexive
  <2>3. ~ LexLess(b, a)
    BY <1>1, <1>2, <2>1, LexAsymmetric
  <2> QED BY <2>2, <2>3, LexTotal
<1> QED BY <1>1, <1>2

(* No key lies between a key and the one with one more byte 0. *)
LEMMA LexNext ==
  ASSUME NEW k \in Seq(Nat), NEW x \in Seq(Nat)
  PROVE  ~ LexLess(x, Append(k, 0)) <=> LexLess(k, x)
<1> DEFINE n == Len(k)
           z == Append(k, 0)
<1>1. /\ n \in Nat /\ z \in Seq(Nat) /\ Len(z) = n + 1 /\ z[n + 1] = 0
      /\ \A i \in 1..n : z[i] = k[i] /\ k[i] \in Nat
      /\ Len(x) \in Nat /\ \A i \in 1..Len(x) : x[i] \in Nat
  OBVIOUS
<1> HIDE DEF z
<1>2. LexLess(k, z)
  <2>1. n + 1 \in 1..Len(z) /\ n + 1 <= Len(k) + 1 /\ ~ (n + 1 <= Len(k))
    BY <1>1
  <2>2. \A j \in 1..(n + 1) - 1 : k[j] = z[j]
    BY <1>1
  <2>3. LessAt(k, z, n + 1)
    BY <2>1, <2>2 DEF LessAt
  <2> QED BY <1>1, <2>3, LessAtIsLess
<1>3. ASSUME LexLess(k, x) PROVE ~ LexLess(x, z)
  <2>1. PICK i \in 1..Len(x) : LessAt(k, x, i)
    BY <1>3, LessIsLessAt
  <2>2. /\ i \in Nat \ {0} /\ i <= Len(x) /\ i <= n + 1 /\ i \in 1..Len(x)
        /\ i <= n => k[i] < x[i]
    BY <1>1, <2>1 DEF LessAt
  <2>3. \A j \in 1..i - 1 : k[j] = x[j]
    BY <2>1 DEF LessAt
  <2> HIDE DEF n
  <2>4. \A j \in 1..i - 1 : z[j] = x[j]
    <3>1. \A j \in 1..i - 1 : j \in 1..n
      BY <1>1, <2>2
    <3> QED BY <1>1, <2>3, <3>1
  <2>5. CASE i <= n \/ x[i] > 0
    <3>1. z[i] < x[i]
      <4>1. CASE i <= n
        <5>1. i \in 1..n
          BY <1>1, <2>2, <4>1
        <5> QED BY <1>1, <2>2, <4>1, <5>1
      <4>2. CASE i = n + 1 /\ x[i] > 0
        BY <1>1, <4>2
      <4> QED BY <1>1, <2>2, <2>5, <4>1, <4>2
    <3>2. LessAt(z, x, i)
      <4>1. i <= Len(z) + 1
        BY <1>1, <2>2
      <4> QED BY <2>2, <2>4, <3>1, <4>1 DEF LessAt
    <3> QED BY <1>1, <3>2, LessAtIsLess, LexAsymmetric
  <2>6. CASE i = n + 1 /\ x[i] = 0 /\ Len(x) = n + 1
    <3>1. \A j \in 1..Len(x) : x[j] = z[j]
      <4>1. ASSUME NEW j \in 1..Len(x), j # i PROVE j \in 1..i - 1
        BY <1>1, <2>6, <4>1
      <4> QED BY <1>1, <2>4, <2>6, <4>1
    <3>2. x = z
      BY <1>1, <2>6, <3>1, SameSeq
    <3> QED BY <3>2, <1>1, LexIrreflexive
  <2>7. CASE i = n + 1 /\ x[i] = 0 /\ Len(x) > n + 1
    <3> DEFINE m == n + 2
    <3>1. m \in 1..Len(x) /\ m <= Len(z) + 1 /\ ~ (m <= Len(z)) /\ m - 1 = i
      BY <1>1, <2>7
    <3> HIDE DEF m
    <3>2. \A j \in 1..m - 1 : z[j] = x[j]
      <4>1. ASSUME NEW j \in 1..m - 1, j # i PROVE j \in 1..i - 1
        BY <1>1, <2>2, <3>1, <4>1
      <4> QED BY <1>1, <2>4, <2>7, <3>1, <4>1
    <3>3. LessAt(z, x, m)
      BY <3>1, <3>2 DEF LessAt
    <3> QED BY <1>1, <3>3, LessAtIsLess, LexAsymmetric
  <2>8. x[i] \in Nat /\ Len(x) >= i
    BY <1>1, <2>2
  <2> QED BY <1>1, <2>2, <2>5, <2>6, <2>7, <2>8
<1>4. ASSUME ~ LexLess(k, x) PROVE LexLess(x, z)
  <2>1. x = k \/ LexLess(x, k)
    BY <1>4, LexTotal
  <2> QED BY <1>1, <1>2, <2>1, LexTransitive
<1> QED BY <1>3, <1>4 DEF z

-----------------------------------------------------------------------------
(* Cells in the order of their keys *)

Keyed(E) ==
  /\ IsFiniteSet(E)
  /\ \A c \in E : c.key \in Seq(Nat)
  /\ \A c, d \in E : c.key = d.key => c = d

KeyOrder(E) == {p \in E \X E : LexLess(p[1].key, p[2].key)}

LEMMA KeysAreOrdered ==
  ASSUME NEW E, Keyed(E)
  PROVE  /\ StrictOrder(KeyOrder(E), E)
         /\ \A c, d \in E : <<c, d>> \in KeyOrder(E) <=> LexLess(c.key, d.key)
<1>1. \A c, d \in E : <<c, d>> \in KeyOrder(E) <=> LexLess(c.key, d.key)
  BY DEF KeyOrder
<1>2. ASSUME NEW c \in E, NEW d \in E, c # d
      PROVE  LexLess(c.key, d.key) \/ LexLess(d.key, c.key)
  BY <1>2, LexTotal DEF Keyed
<1>3. ASSUME NEW c \in E, NEW d \in E, LexLess(c.key, d.key) PROVE ~ LexLess(d.key, c.key)
  BY <1>3, LexAsymmetric DEF Keyed
<1>4. ASSUME NEW c \in E, NEW d \in E, NEW e \in E, LexLess(c.key, d.key), LexLess(d.key, e.key)
      PROVE  LexLess(c.key, e.key)
  BY <1>4, LexTransitive DEF Keyed
<1> QED BY <1>1, <1>2, <1>3, <1>4 DEF StrictOrder

LEMMA CellsAreListed ==
  ASSUME NEW E, Keyed(E)
  PROVE  IsListing(InKeyOrder(E), KeyOrder(E), E) /\ Len(InKeyOrder(E)) = Cardinality(E)
<1> DEFINE R == KeyOrder(E)
           N == Cardinality(E)
           t == InKeyOrder(E)
<1>1. IsFiniteSet(E) /\ StrictOrder(R, E)
  BY KeysAreOrdered DEF Keyed
<1>2. ASSUME NEW c \in E PROVE Cardinality({d \in E : LexLess(d.key, c.key)}) = Rank(R, E, c)
  <2>1. {d \in E : LexLess(d.key, c.key)} = Below(R, E, c)
    BY DEF Below, KeyOrder
  <2> QED BY <2>1 DEF Rank
<1>3. ASSUME NEW n \in 1..N PROVE t[n] \in E /\ Rank(R, E, t[n]) = n - 1
  <2>1. N \in Nat
    BY <1>1, FS_CardinalityType
  <2>2. n - 1 \in 0..N - 1
    <3> HIDE DEF N
    <3> QED BY <2>1
  <2>3. PICK c \in E : Rank(R, E, c) = n - 1
    BY <1>1, <2>2, Ranks
  <2>4. t[n] = CHOOSE e \in E : Cardinality({d \in E : LexLess(d.key, e.key)}) = n - 1
    BY DEF InKeyOrder
  <2> DEFINE Fits(e) == Cardinality({d \in E : LexLess(d.key, e.key)}) = n - 1
  <2>5. Fits(c)
    BY <1>2, <2>3
  <2>6. t[n] = CHOOSE e \in E : Fits(e)
    BY <2>4
  <2> HIDE DEF Fits, t
  <2>7. t[n] \in E /\ Fits(t[n])
    BY <2>5, <2>6
  <2> QED BY <1>2, <2>7 DEF Fits
<1>4. t = [n \in 1..N |-> t[n]]
  <2> DEFINE Nth(n) == CHOOSE e \in E : Cardinality({d \in E : LexLess(d.key, e.key)}) = n - 1
  <2>1. t = [n \in 1..N |-> Nth(n)]
    BY DEF InKeyOrder
  <2> HIDE DEF t, N, Nth
  <2> QED BY <2>1
<1> HIDE DEF R, t
<1>5. IsListing(t, R, E) /\ Len(t) = N
  BY <1>1, <1>3, <1>4, ListingExists
<1> QED BY <1>5 DEF R, t

(* A list of the cells in the order of their keys is the one InKeyOrder     *)
(* makes.                                                                   *)
LEMMA OrderedList ==
  ASSUME NEW E, Keyed(E), NEW t \in Seq(E),
         \A i, j \in 1..Len(t) : i < j => LexLess(t[i].key, t[j].key),
         \A c \in E : \E i \in 1..Len(t) : t[i] = c
  PROVE  t = InKeyOrder(E)
<1>1. ASSUME NEW i \in 1..Len(t), NEW j \in 1..Len(t), i < j
      PROVE  <<t[i], t[j]>> \in KeyOrder(E)
  <2>1. t[i] \in E /\ t[j] \in E
    OBVIOUS
  <2> QED BY <1>1, <2>1, KeysAreOrdered
<1>2. IsListing(t, KeyOrder(E), E)
  BY <1>1 DEF IsListing
<1>3. IsFiniteSet(E)
  BY DEF Keyed
<1> QED BY <1>2, <1>3, CellsAreListed, KeysAreOrdered, ListingUnique

(* The end of the list is the list of those behind. *)
LEMMA RestOfList ==
  ASSUME NEW E, Keyed(E), NEW m \in 0..Len(InKeyOrder(E)), NEW F,
         F = {InKeyOrder(E)[i] : i \in m + 1..Len(InKeyOrder(E))}
  PROVE  InKeyOrder(F) = SubSeq(InKeyOrder(E), m + 1, Len(InKeyOrder(E)))
<1> DEFINE t == InKeyOrder(E)
           N == Len(t)
           s == SubSeq(t, m + 1, N)
<1>1. t \in Seq(E) /\ \A i, j \in 1..N : i < j => <<t[i], t[j]>> \in KeyOrder(E)
  BY CellsAreListed DEF IsListing
<1>2. N \in Nat /\ m \in Nat /\ m <= N /\ \A i \in 1..N : t[i] \in E
  BY <1>1
<1>3. F = {t[i] : i \in m + 1..N}
  OBVIOUS
<1> HIDE DEF t, N
<1>4. m + 1..N \subseteq 1..N
  BY <1>2
<1>5. F \subseteq E
  BY <1>2, <1>3, <1>4
<1>6. Keyed(F)
  BY <1>5, FS_Subset DEF Keyed
<1>7. /\ s \in Seq(E) /\ Len(s) = N - m
      /\ \A i \in 1..N - m : s[i] = t[m + i]
  BY <1>1, <1>2 DEF N
<1>8. \A i \in 1..N - m : m + i \in m + 1..N
  BY <1>2
<1> HIDE DEF s
<1>9. s \in Seq(F)
  <2>1. \A i \in 1..N - m : s[i] \in F
    BY <1>3, <1>7, <1>8
  <2>2. s \in [1..N - m -> F] /\ N - m \in Nat
    <3>1. s = [i \in 1..N - m |-> s[i]]
      BY <1>7
    <3> QED BY <1>2, <2>1, <3>1
  <2> QED BY <2>2, SeqDef
<1>10. ASSUME NEW i \in 1..Len(s), NEW j \in 1..Len(s), i < j PROVE LexLess(s[i].key, s[j].key)
  <2>1. i \in 1..N - m /\ j \in 1..N - m /\ m + i < m + j
    BY <1>2, <1>7, <1>10
  <2>2. m + i \in 1..N /\ m + j \in 1..N
    BY <1>4, <1>8, <2>1
  <2>3. <<t[m + i], t[m + j]>> \in KeyOrder(E) /\ t[m + i] \in E /\ t[m + j] \in E
    BY <1>1, <1>2, <2>1, <2>2
  <2> QED BY <1>7, <2>1, <2>3, KeysAreOrdered
<1>11. ASSUME NEW c \in F PROVE \E i \in 1..Len(s) : s[i] = c
  <2>1. PICK k \in m + 1..N : c = t[k]
    BY <1>3
  <2>2. k - m \in 1..N - m /\ m + (k - m) = k
    BY <1>2
  <2> QED BY <1>7, <2>1, <2>2
<1>12. s = InKeyOrder(F)
  BY <1>6, <1>9, <1>10, <1>11, OrderedList
<1> QED BY <1>12 DEF s, t, N

-----------------------------------------------------------------------------
(* Ranges behind a prefix *)

LEMMA ByteNat ==
  /\ \A n \in Byte : n \in Nat /\ n <= Radix - 1
  /\ Radix \in Nat /\ Radix > 1
  /\ Seq(Byte) \subseteq Seq(Nat)
<1>1. Radix \in Nat /\ Radix > 1
  BY KeyspaceAssumption DEF KeyspaceAssumption
<1>2. \A n \in Byte : n \in Nat /\ n <= Radix - 1
  BY <1>1 DEF Byte
<1> HIDE DEF Byte
<1> QED BY <1>1, <1>2

(* A prefix that has an upper bound: not all bytes are the highest.         *)
Bounded(p) == \E i \in DOMAIN p : p[i] # Radix - 1

(* The bound is the prefix up to the last byte that is not the highest,     *)
(* which is one higher.                                                     *)
LEMMA UpperBound ==
  ASSUME NEW p \in Seq(Byte), Bounded(p)
  PROVE  \E i \in 1..Len(p) :
           /\ p[i] # Radix - 1
           /\ \A j \in 1..Len(p) : i < j => p[j] = Radix - 1
           /\ NamespaceUpperBound(p)
                = [j \in 1..Len(p) |-> IF j < i THEN p[j] ELSE IF j = i THEN p[i] + 1 ELSE 0]
           /\ NamespaceUpperBound(p) \in Seq(Nat) /\ Len(NamespaceUpperBound(p)) = Len(p)
<1> DEFINE N == Len(p)
           below == {i \in DOMAIN p : p[i] # Radix - 1}
           u == NamespaceUpperBound(p)
<1>1. N \in Nat /\ DOMAIN p = 1..N /\ p \in [1..N -> Byte]
  OBVIOUS
<1>2. u = [i \in 1..N |->
             IF \E j \in below : i < j THEN p[i] ELSE IF i \in below THEN p[i] + 1 ELSE 0]
  BY <1>1 DEF NamespaceUpperBound
<1>3. PICK i \in below : \A j \in below : j <= i
  <2>1. below # {}
    BY DEF Bounded
  <2>2. below \in SUBSET (1..N)
    BY <1>1
  <2> HIDE DEF below, N
  <2> QED BY <1>1, <2>1, <2>2, MaximumExists
<1>4. i \in 1..N /\ p[i] # Radix - 1
  BY <1>1, <1>3
<1>5. ASSUME NEW j \in 1..N, i < j PROVE j \notin below /\ p[j] = Radix - 1
  <2>1. j \notin below
    BY <1>3, <1>4, <1>5
  <2> QED BY <1>1, <2>1
<1>6. \A j \in 1..N : (\E k \in below : j < k) <=> j < i
  <2>1. below \subseteq Nat
    BY <1>1
  <2> HIDE DEF below
  <2> QED BY <1>3, <1>4, <2>1
<1>7. \A j \in 1..N : ~ (j < i) => (j \in below <=> j = i)
  BY <1>3, <1>4, <1>5
<1>8. u = [j \in 1..N |-> IF j < i THEN p[j] ELSE IF j = i THEN p[i] + 1 ELSE 0]
  <2> HIDE DEF u, N, below
  <2> QED BY <1>2, <1>3, <1>6, <1>7
<1>9. u \in Seq(Nat) /\ Len(u) = N
  <2> HIDE DEF u, N, below
  <2>1. \A j \in 1..N : p[j] \in Nat
    BY <1>1, ByteNat
  <2>2. u \in [1..N -> Nat]
    BY <1>4, <1>8, <2>1
  <2> QED BY <1>1, <2>2, SeqDef
<1> QED BY <1>4, <1>5, <1>8, <1>9

(* Every key with the prefix is below the bound. *)
LEMMA PrefixIsBelow ==
  ASSUME NEW p \in Seq(Byte), Bounded(p), NEW r \in Seq(Byte)
  PROVE  LexLess(p \o r, NamespaceUpperBound(p)) /\ ~ LexLess(p \o r, p)
<1> DEFINE u == NamespaceUpperBound(p)
           k == p \o r
<1>1. PICK i \in 1..Len(p) :
           u = [j \in 1..Len(p) |-> IF j < i THEN p[j] ELSE IF j = i THEN p[i] + 1 ELSE 0]
  BY UpperBound
<1>2. u \in Seq(Nat) /\ Len(u) = Len(p)
  BY UpperBound
<1>3. /\ p \in Seq(Nat) /\ r \in Seq(Nat) /\ k \in Seq(Nat)
  BY ByteNat
<1>4. /\ Len(k) = Len(p) + Len(r) /\ Len(p) \in Nat /\ Len(r) \in Nat
      /\ \A j \in 1..Len(p) : k[j] = p[j] /\ p[j] \in Nat
  BY <1>3
<1> HIDE DEF u, k
<1>5. LessAt(k, u, i)
  <2>1. i \in 1..Len(u) /\ i <= Len(k) + 1 /\ i <= Len(k)
    BY <1>2, <1>4
  <2>2. k[i] < u[i]
    BY <1>1, <1>4
  <2>3. \A j \in 1..i - 1 : k[j] = u[j]
    BY <1>1, <1>4
  <2> QED BY <2>1, <2>2, <2>3 DEF LessAt
<1>6. LexLess(k, u)
  BY <1>2, <1>3, <1>5, LessAtIsLess
<1>7. ~ LexLess(k, p)
  <2> SUFFICES ASSUME LexLess(k, p) PROVE FALSE
    OBVIOUS
  <2>1. PICK j \in 1..Len(p) : LessAt(k, p, j)
    BY <1>3, LessIsLessAt
  <2>2. j <= Len(k)
    BY <1>4
  <2> QED BY <1>4, <2>1, <2>2 DEF LessAt
<1> QED BY <1>6, <1>7 DEF k, u

(* The cells from the key s on. *)
From(E, s) == {e \in E : ~ LexLess(e.key, s)}

(* A range from a bound on lists the cells of the map that are not below    *)
(* it, if no cell of another map lies in the range of its prefix.           *)
Apart(cells, p) ==
  \A c \in cells :
    \/ \E r \in Seq(Byte) : c.key = p \o r
    \/ LexLess(c.key, p)
    \/ ~ LexLess(c.key, NamespaceUpperBound(p))

Inside(cells, p) ==
  {[key |-> Trim(p, c.key), value |-> c.value] : c \in {d \in cells : \E r \in Seq(Byte) : d.key = p \o r}}

LEMMA RangeFrom ==
  ASSUME NEW cells, NEW p \in Seq(Byte), NEW s \in Seq(Byte), NEW start,
         Bounded(p), Apart(cells, p), \A c \in cells : c.key \in Seq(Byte),
         CalcStartBound(p, start) = p \o s
  PROVE  RangeWithPrefix(cells, p, start, NoBound)
           = InKeyOrder(From(Inside(cells, p), s))
<1> DEFINE u == NamespaceUpperBound(p)
           found == HostRange(cells, CalcStartBound(p, start), CalcEndBound(p, NoBound))
           F == {[key |-> Trim(p, c.key), value |-> c.value] : c \in found}
           G == From(Inside(cells, p), s)
<1>1. found = {c \in cells : ~ LexLess(c.key, p \o s) /\ LexLess(c.key, u)}
  BY DEF HostRange, CalcEndBound
<1>2. p \in Seq(Nat) /\ s \in Seq(Nat)
  BY ByteNat
<1>3. ASSUME NEW r \in Seq(Byte)
      PROVE  /\ r \in Seq(Nat) /\ Trim(p, p \o r) = r
             /\ LexLess(p \o r, p \o s) <=> LexLess(r, s)
             /\ LexLess(p \o r, u)
  <2>1. r \in Seq(Nat)
    BY ByteNat
  <2>2. SubSeq(p \o r, Len(p) + 1, Len(p \o r)) = r
    BY <1>2, <2>1
  <2> HIDE DEF u
  <2> QED BY <1>2, <2>1, <2>2, LexBehind, PrefixIsBelow DEF Trim, u
<1>4. ASSUME NEW c \in cells, LexLess(c.key, p) PROVE LexLess(c.key, p \o s)
  <2>1. c.key \in Seq(Nat)
    BY ByteNat
  <2>2. ~ LexLess(p \o s, p) /\ p \o s \in Seq(Nat)
    BY <1>2, PrefixIsBelow
  <2>3. p \o s = p \/ LexLess(p, p \o s)
    BY <1>2, <2>2, LexTotal
  <2> QED BY <1>2, <1>4, <2>1, <2>2, <2>3, LexTransitive
<1> HIDE DEF u
<1>5. ASSUME NEW c \in cells
      PROVE  c \in found <=> \E r \in Seq(Byte) : c.key = p \o r /\ ~ LexLess(r, s)
  <2>1. CASE \E r \in Seq(Byte) : c.key = p \o r
    <3>1. PICK r \in Seq(Byte) : c.key = p \o r
      BY <2>1
    <3>2. LexLess(p \o r, u) /\ (LexLess(p \o r, p \o s) <=> LexLess(r, s))
      BY <1>3
    <3>3. c \in found <=> ~ LexLess(r, s)
      <4> HIDE DEF found
      <4> QED BY <1>1, <3>1, <3>2
    <3>4. ASSUME NEW q \in Seq(Byte), c.key = p \o q PROVE q = r
      <4>1. Trim(p, p \o q) = q /\ Trim(p, p \o r) = r
        BY <1>3
      <4> QED BY <3>1, <3>4, <4>1
    <3> QED BY <3>1, <3>3, <3>4
  <2>2. CASE ~ \E r \in Seq(Byte) : c.key = p \o r
    <3>1. LexLess(c.key, p) \/ ~ LexLess(c.key, u)
      BY <2>2 DEF Apart, u
    <3>2. c \notin found
      BY <1>1, <1>4, <3>1
    <3> QED BY <2>2, <3>2
  <2> QED BY <2>1, <2>2
<1>6. found \subseteq cells
  BY <1>1
<1>7. F = G
  <2>1. ASSUME NEW c \in found PROVE [key |-> Trim(p, c.key), value |-> c.value] \in G
    <3> DEFINE e == [key |-> Trim(p, c.key), value |-> c.value]
    <3>1. PICK r \in Seq(Byte) : c.key = p \o r /\ ~ LexLess(r, s)
      BY <1>5, <1>6
    <3>2. e.key = r
      <4>1. Trim(p, p \o r) = r
        BY <1>3
      <4>2. Trim(p, c.key) = r
        BY <3>1, <4>1
      <4> QED BY <4>2
    <3>3. e \in Inside(cells, p)
      BY <1>6, <3>1 DEF Inside
    <3> HIDE DEF e
    <3>4. e \in G
      BY <3>1, <3>2, <3>3 DEF From
    <3> QED BY <3>4 DEF e
  <2>2. ASSUME NEW e \in G PROVE e \in F
    <3>1. PICK c \in cells : /\ \E r \in Seq(Byte) : c.key = p \o r
                             /\ e = [key |-> Trim(p, c.key), value |-> c.value]
      BY DEF Inside, From
    <3>2. PICK r \in Seq(Byte) : c.key = p \o r
      BY <3>1
    <3>3. e.key = r
      <4>1. Trim(p, p \o r) = r
        BY <1>3
      <4>2. Trim(p, c.key) = r
        BY <3>2, <4>1
      <4> QED BY <3>1, <4>2
    <3>4. c \in found
      BY <1>5, <3>2, <3>3 DEF From
    <3> QED BY <3>1, <3>4
  <2> HIDE DEF found, G
  <2> QED BY <2>1, <2>2
<1> QED BY <1>7 DEF RangeWithPrefix

-----------------------------------------------------------------------------
(* Sequences one after the other *)

IsFlat(f, s) == f = [i \in 1..Len(s) |-> IF i = 1 THEN s[i] ELSE f[i-1] \o s[i]]

LEMMA FlattenExists ==
  ASSUME NEW S, NEW s \in Seq(Seq(S)), s # <<>>
  PROVE  \E f : IsFlat(f, s) /\ FlattenSeq(s) = f[Len(s)] /\ f \in [1..Len(s) -> Seq(S)]
<1> DEFINE N == Len(s) - 1
           step == [n \in 1..N |-> [q \in Seq(S) |-> q \o s[n + 1]]]
<1>1. N \in Nat /\ Len(s) = N + 1 /\ \A i \in 1..N + 1 : s[i] \in Seq(S)
  OBVIOUS
<1> HIDE DEF N
<1>2. \A n \in 1..N : n + 1 \in 1..N + 1
  BY <1>1
<1>3. step \in [1..N -> [Seq(S) -> Seq(S)]]
  <2>1. ASSUME NEW n \in 1..N, NEW q \in Seq(S) PROVE q \o s[n + 1] \in Seq(S)
    <3>1. s[n + 1] \in Seq(S)
      BY <1>1, <1>2
    <3> QED BY <3>1, ConcatProperties
  <2>2. \A n \in 1..N : [q \in Seq(S) |-> q \o s[n + 1]] \in [Seq(S) -> Seq(S)]
    BY <2>1
  <2> QED BY <2>2
<1>4. s[1] \in Seq(S)
  BY <1>1
<1>5. PICK g : IsLoop(g, N, Seq(S), s[1], step)
  <2> HIDE DEF step
  <2> QED BY <1>1, <1>3, <1>4, LoopExists
<1>6. /\ g \in [0..N -> Seq(S)] /\ g[0] = s[1]
      /\ \A n \in 1..N : g[n] = g[n-1] \o s[n + 1]
  <2>1. /\ g \in [0..N -> Seq(S)] /\ g[0] = s[1]
        /\ \A n \in 1..N : g[n] = step[n][g[n-1]]
    <3> HIDE DEF step
    <3> QED BY <1>1, <1>5 DEF IsLoop
  <2>2. \A n \in 1..N : g[n-1] \in Seq(S)
    <3>1. \A n \in 1..N : n - 1 \in 0..N
      BY <1>1
    <3> QED BY <2>1, <3>1
  <2> QED BY <2>1, <2>2
<1> DEFINE f == [i \in 1..N + 1 |-> g[i-1]]
<1>7. IsFlat(f, s)
  <2>1. ASSUME NEW i \in 1..N + 1
        PROVE  f[i] = IF i = 1 THEN s[i] ELSE f[i-1] \o s[i]
    <3>1. CASE i = 1
      BY <1>1, <1>6, <3>1
    <3>2. CASE i # 1
      <4>1. i - 1 \in 1..N /\ i - 1 \in 1..N + 1 /\ (i - 1) + 1 = i
        BY <1>1, <3>2
      <4> QED BY <1>6, <3>2, <4>1
    <3> QED BY <3>1, <3>2
  <2>2. f = [i \in 1..N + 1 |-> f[i]]
    OBVIOUS
  <2> HIDE DEF f
  <2>3. f = [i \in 1..N + 1 |-> IF i = 1 THEN s[i] ELSE f[i-1] \o s[i]]
    BY <2>1, <2>2
  <2> QED BY <1>1, <2>3 DEF IsFlat
<1>8. f \in [1..N + 1 -> Seq(S)]
  <2>1. \A i \in 1..N + 1 : i - 1 \in 0..N
    BY <1>1
  <2> QED BY <1>6, <2>1
<1> HIDE DEF f
<1>9. ASSUME NEW h, IsFlat(h, s) PROVE \A i \in 1..N + 1 : h[i] = f[i]
  <2> DEFINE P == {n \in 0..N : h[n + 1] = f[n + 1]}
  <2>1. ASSUME NEW k, IsFlat(k, s), NEW i \in 1..N + 1
        PROVE  k[i] = IF i = 1 THEN s[i] ELSE k[i-1] \o s[i]
    BY <1>1, <2>1 DEF IsFlat
  <2>2. 0 \in P
    <3>1. 1 \in 1..N + 1
      BY <1>1
    <3>2. h[1] = s[1] /\ f[1] = s[1]
      BY <1>7, <1>9, <2>1, <3>1
    <3> QED BY <1>1, <3>2
  <2>3. ASSUME NEW n \in 1..N, n - 1 \in P PROVE n \in P
    <3>1. n + 1 \in 1..N + 1 /\ n + 1 # 1 /\ (n + 1) - 1 = n /\ (n - 1) + 1 = n /\ n \in 0..N
      BY <1>1
    <3>2. h[n] = f[n]
      BY <2>3, <3>1
    <3>3. h[n + 1] = h[n] \o s[n + 1] /\ f[n + 1] = f[n] \o s[n + 1]
      BY <1>7, <1>9, <2>1, <3>1
    <3> QED BY <3>1, <3>2, <3>3
  <2> HIDE DEF P
  <2>4. 0..N \subseteq P
    BY <1>1, <2>2, <2>3, UpTo
  <2>5. ASSUME NEW i \in 1..N + 1 PROVE h[i] = f[i]
    <3>1. i - 1 \in 0..N /\ (i - 1) + 1 = i
      BY <1>1
    <3> QED BY <2>4, <3>1 DEF P
  <2> QED BY <2>5
<1>10. FlattenSeq(s) = f[Len(s)]
  <2> DEFINE h == CHOOSE k : IsFlat(k, s)
  <2>1. IsFlat(h, s)
    BY <1>7
  <2>2. FlattenSeq(s) = h[Len(s)]
    <3>1. Len(s) # 0
      BY <1>1
    <3> QED BY <3>1 DEF FlattenSeq, IsFlat
  <2> HIDE DEF h
  <2>3. Len(s) \in 1..N + 1
    BY <1>1
  <2> QED BY <1>9, <2>1, <2>2, <2>3
<1> QED BY <1>1, <1>7, <1>8, <1>10

LEMMA FlatUnique ==
  ASSUME NEW s, NEW t, Len(s) \in Nat, Len(t) \in Nat, NEW n \in 1..Len(s), n <= Len(t),
         \A i \in 1..n : s[i] = t[i],
         NEW f, IsFlat(f, s), NEW g, IsFlat(g, t)
  PROVE  f[n] = g[n]
<1> DEFINE P == {i \in 0..n - 1 : f[i + 1] = g[i + 1]}
           N == n - 1
<1>1. N \in Nat /\ n = N + 1
  OBVIOUS
<1>2. ASSUME NEW i \in 1..n
      PROVE  /\ f[i] = IF i = 1 THEN s[i] ELSE f[i-1] \o s[i]
             /\ g[i] = IF i = 1 THEN s[i] ELSE g[i-1] \o s[i]
  <2>1. i \in 1..Len(s) /\ i \in 1..Len(t)
    OBVIOUS
  <2> QED BY <2>1 DEF IsFlat
<1>3. 0 \in P
  <2>1. 1 \in 1..n /\ 0 \in 0..n - 1 /\ 0 + 1 = 1
    OBVIOUS
  <2> QED BY <1>2, <2>1
<1>4. ASSUME NEW i \in 1..N, i - 1 \in P PROVE i \in P
  <2>1. i + 1 \in 1..n /\ i + 1 # 1 /\ (i + 1) - 1 = i /\ (i - 1) + 1 = i /\ i \in 0..n - 1
    BY <1>1
  <2>2. f[i] = g[i]
    BY <1>4, <2>1
  <2> QED BY <1>2, <2>1, <2>2
<1> HIDE DEF P, N
<1>5. 0..N \subseteq P
  BY <1>1, <1>3, <1>4, UpTo
<1>6. N \in P
  BY <1>1, <1>5
<1> QED BY <1>1, <1>6 DEF P

LEMMA FlattenEmpty == FlattenSeq(<<>>) = <<>>
BY DEF FlattenSeq

LEMMA FlattenAppend ==
  ASSUME NEW S, NEW s \in Seq(Seq(S)), NEW x \in Seq(S)
  PROVE  /\ FlattenSeq(s) \in Seq(S)
         /\ FlattenSeq(Append(s, x)) = FlattenSeq(s) \o x
<1> DEFINE t == Append(s, x)
           n == Len(s)
<1>1. /\ t \in Seq(Seq(S)) /\ t # <<>> /\ Len(t) = n + 1 /\ t[n + 1] = x /\ n \in Nat
      /\ \A i \in 1..n : t[i] = s[i]
  BY AppendProperties, EmptySeq
<1> HIDE DEF t
<1>2. PICK g : IsFlat(g, t) /\ FlattenSeq(t) = g[Len(t)]
  BY <1>1, FlattenExists
<1>3. CASE s = <<>>
  <2>1. n = 0 /\ FlattenSeq(s) = <<>>
    BY <1>3, FlattenEmpty
  <2>2. g[1] = t[1]
    BY <1>1, <1>2, <2>1 DEF IsFlat
  <2>3. FlattenSeq(t) = x
    BY <1>1, <1>2, <2>1, <2>2
  <2>4. <<>> \o x = x
    BY ConcatEmptySeq
  <2> QED BY <2>1, <2>3, <2>4 DEF t
<1>4. CASE s # <<>>
  <2>1. PICK f : IsFlat(f, s) /\ FlattenSeq(s) = f[n] /\ f \in [1..n -> Seq(S)]
    BY <1>4, FlattenExists
  <2>2. n \in 1..n
    BY <1>1, <1>4, EmptySeq
  <2>3. f[n] = g[n]
    <3>1. \A i \in 1..n : s[i] = t[i]
      BY <1>1
    <3>2. Len(s) \in Nat /\ Len(t) \in Nat /\ n <= Len(t) /\ n \in 1..Len(s)
      BY <1>1, <2>2
    <3> QED BY <1>2, <2>1, <3>1, <3>2, FlatUnique
  <2>4. g[n + 1] = g[n] \o t[n + 1]
    <3>1. n + 1 \in 1..Len(t) /\ n + 1 # 1 /\ (n + 1) - 1 = n
      BY <1>1, <2>2
    <3> QED BY <1>2, <3>1 DEF IsFlat
  <2>5. FlattenSeq(s) \in Seq(S)
    BY <2>1, <2>2
  <2> QED BY <1>1, <1>2, <2>1, <2>3, <2>4, <2>5 DEF t
<1> QED BY <1>3, <1>4

-----------------------------------------------------------------------------
(* Names behind their lengths *)

Framed(x) == EncodeLength(x) \o x

LEMMA DivMod ==
  ASSUME NEW n \in Nat, n < Radix * Radix
  PROVE  /\ n \div Radix \in Byte /\ n % Radix \in Byte
         /\ n = Radix * (n \div Radix) + (n % Radix)
<1>1. Radix \in Nat /\ Radix > 1
  BY ByteNat
<1> DEFINE d == n \div Radix
           m == n % Radix
<1>2. d \in Nat /\ m \in Nat /\ m < Radix /\ n = Radix * d + m
  BY <1>1
<1> HIDE DEF d, m
<1>3. d < Radix
  <2> SUFFICES ASSUME d >= Radix PROVE FALSE
    BY <1>1, <1>2
  <2> DEFINE e == d - Radix
  <2>1. e \in Nat /\ d = Radix + e
    BY <1>1, <1>2
  <2> HIDE DEF e
  <2>2. Radix * d = Radix * Radix + Radix * e
    BY <1>1, <2>1
  <2>3. Radix * e \in Nat /\ Radix * Radix \in Nat
    BY <1>1, <2>1
  <2> QED BY <1>2, <2>2, <2>3
<1> QED BY <1>1, <1>2, <1>3 DEF Byte, d, m

LEMMA NameBytes ==
  ASSUME NEW x \in Name
  PROVE  /\ x \in Seq(Byte) /\ Len(x) \in Nat /\ Len(x) < Radix * Radix - 1
         /\ EncodeLength(x) \in Seq(Byte) /\ Len(EncodeLength(x)) = 2
         /\ Framed(x) \in Seq(Byte) /\ Len(Framed(x)) = Len(x) + 2
         /\ EncodeLength(x)[1] # Radix - 1 \/ EncodeLength(x)[2] # Radix - 1
<1> DEFINE n == Len(x)
<1>1. x \in Seq(Byte) /\ n \in Nat /\ n < Radix * Radix - 1
  BY DEF Name, Bytes
<1>2. Radix \in Nat /\ Radix > 1 /\ Radix * Radix \in Nat
  BY ByteNat
<1> HIDE DEF n
<1>3. n \div Radix \in Byte /\ n % Radix \in Byte /\ n = Radix * (n \div Radix) + (n % Radix)
  <2>1. n < Radix * Radix
    BY <1>1, <1>2
  <2> QED BY <1>1, <2>1, DivMod
<1>4. n \div Radix # Radix - 1 \/ n % Radix # Radix - 1
  <2> SUFFICES ASSUME n \div Radix = Radix - 1, n % Radix = Radix - 1 PROVE FALSE
    OBVIOUS
  <2>1. n = Radix * (Radix - 1) + (Radix - 1)
    BY <1>3
  <2>2. Radix * (Radix - 1) = Radix * Radix - Radix
    BY <1>2
  <2> QED BY <1>1, <1>2, <2>1, <2>2
<1>5. EncodeLength(x) = <<n \div Radix, n % Radix>>
  BY DEF EncodeLength, n
<1> HIDE DEF Byte
<1>6. EncodeLength(x) \in Seq(Byte) /\ Len(EncodeLength(x)) = 2
  BY <1>3, <1>5
<1>7. Framed(x) \in Seq(Byte) /\ Len(Framed(x)) = n + 2
  <2>1. Framed(x) \in Seq(Byte) /\ Len(Framed(x)) = Len(EncodeLength(x)) + Len(x)
    BY <1>1, <1>6, ConcatProperties DEF Framed
  <2> QED BY <1>1, <1>6, <2>1 DEF n
<1>8. EncodeLength(x)[1] = n \div Radix /\ EncodeLength(x)[2] = n % Radix
  BY <1>5
<1>9. EncodeLength(x)[1] # Radix - 1 \/ EncodeLength(x)[2] # Radix - 1
  BY <1>4, <1>8
<1> QED BY <1>1, <1>6, <1>7, <1>9 DEF n

LEMMA StillBounded ==
  ASSUME NEW p \in Seq(Byte), NEW q \in Seq(Byte)
  PROVE  /\ Bounded(p) => Bounded(p \o q)
         /\ Bounded(q) => Bounded(p \o q)
<1> DEFINE pq == p \o q
           m == Len(p)
           n == Len(q)
<1>1. /\ m \in Nat /\ n \in Nat /\ DOMAIN p = 1..m /\ DOMAIN q = 1..n /\ DOMAIN pq = 1..m + n
      /\ \A i \in 1..m : pq[i] = p[i]
      /\ \A i \in 1..n : pq[m + i] = q[i]
  OBVIOUS
<1> HIDE DEF pq, m, n
<1>2. ASSUME NEW i \in DOMAIN p, p[i] # Radix - 1 PROVE i \in DOMAIN pq /\ pq[i] # Radix - 1
  BY <1>1, <1>2
<1>3. ASSUME NEW i \in DOMAIN q, q[i] # Radix - 1
      PROVE  m + i \in DOMAIN pq /\ pq[m + i] # Radix - 1
  BY <1>1, <1>3
<1> QED BY <1>2, <1>3 DEF Bounded, pq

LEMMA FramedBounded ==
  ASSUME NEW x \in Name
  PROVE  Bounded(Framed(x))
<1>1. /\ x \in Seq(Byte) /\ EncodeLength(x) \in Seq(Byte) /\ Len(EncodeLength(x)) = 2
      /\ EncodeLength(x)[1] # Radix - 1 \/ EncodeLength(x)[2] # Radix - 1
  BY NameBytes
<1>2. DOMAIN EncodeLength(x) = 1..2
  BY <1>1
<1>3. Bounded(EncodeLength(x))
  BY <1>1, <1>2 DEF Bounded
<1> QED BY <1>1, <1>3, StillBounded DEF Framed

LEMMA PrefixedEmpty == LengthPrefixed(<<>>) = <<>>
<1>1. [i \in DOMAIN <<>> |-> EncodeLength(<<>>[i]) \o <<>>[i]] = <<>>
  OBVIOUS
<1> QED BY <1>1, FlattenEmpty DEF LengthPrefixed

LEMMA PrefixedAppend ==
  ASSUME NEW names \in Seq(Name), NEW x \in Name
  PROVE  /\ LengthPrefixed(names) \in Seq(Byte)
         /\ LengthPrefixed(Append(names, x)) = LengthPrefixed(names) \o Framed(x)
<1> DEFINE more == Append(names, x)
           n == Len(names)
           s == [i \in DOMAIN names |-> Framed(names[i])]
           t == [i \in DOMAIN more |-> Framed(more[i])]
<1>1. /\ n \in Nat /\ DOMAIN names = 1..n /\ \A i \in 1..n : names[i] \in Name
  OBVIOUS
<1>2. /\ more \in Seq(Name) /\ DOMAIN more = 1..n + 1 /\ more[n + 1] = x
      /\ \A i \in 1..n : more[i] = names[i]
  BY <1>1, AppendProperties
<1> HIDE DEF more, n
<1>3. s \in Seq(Seq(Byte)) /\ Len(s) = n
  <2>1. \A i \in 1..n : Framed(names[i]) \in Seq(Byte)
    BY <1>1, NameBytes
  <2>2. s \in [1..n -> Seq(Byte)]
    BY <1>1, <2>1
  <2>3. DOMAIN s = 1..n
    BY <1>1
  <2> HIDE DEF s
  <2>4. s \in Seq(Seq(Byte))
    BY <1>1, <2>2, SeqDef
  <2> QED BY <1>1, <2>3, <2>4, LenProperties
<1>4. Framed(x) \in Seq(Byte)
  BY NameBytes
<1>5. t = Append(s, Framed(x))
  <2> DEFINE u == Append(s, Framed(x))
  <2>1. /\ u \in Seq(Seq(Byte)) /\ Len(u) = n + 1 /\ u[n + 1] = Framed(x)
        /\ \A i \in 1..n : u[i] = s[i]
    <3> HIDE DEF s
    <3> QED BY <1>3, <1>4, AppendProperties
  <2>2. \A i \in 1..n : s[i] = Framed(names[i])
    BY <1>1
  <2>3. t = [i \in 1..n + 1 |-> Framed(more[i])]
    BY <1>2
  <2> HIDE DEF u, s, t
  <2>4. u = [i \in 1..n + 1 |-> u[i]]
    <3>1. DOMAIN u = 1..n + 1
      BY <2>1, LenProperties
    <3> QED BY <2>1, <3>1, IsASeq
  <2>5. \A i \in 1..n + 1 : u[i] = Framed(more[i])
    <3>1. ASSUME NEW i \in 1..n + 1 PROVE u[i] = Framed(more[i])
      <4>1. i \in 1..n \/ i = n + 1
        BY <1>1
      <4> QED BY <1>2, <2>1, <2>2, <4>1
    <3> QED BY <3>1
  <2> QED BY <2>3, <2>4, <2>5 DEF u
<1>6. LengthPrefixed(names) = FlattenSeq(s) /\ LengthPrefixed(more) = FlattenSeq(t)
  BY DEF LengthPrefixed, Framed
<1> HIDE DEF s, t
<1>7. FlattenSeq(s) \in Seq(Byte) /\ FlattenSeq(Append(s, Framed(x))) = FlattenSeq(s) \o Framed(x)
  BY <1>3, <1>4, FlattenAppend
<1> QED BY <1>5, <1>6, <1>7 DEF more

LEMMA PrefixedOne ==
  ASSUME NEW x \in Name
  PROVE  LengthPrefixed(<<x>>) = Framed(x)
<1>1. <<>> \in Seq(Name) /\ Append(<<>>, x) = <<x>>
  OBVIOUS
<1>2. LengthPrefixed(<<x>>) = <<>> \o Framed(x)
  BY <1>1, PrefixedAppend, PrefixedEmpty
<1>3. Framed(x) \in Seq(Byte)
  BY NameBytes
<1> QED BY <1>2, <1>3, ConcatEmptySeq

-----------------------------------------------------------------------------
(* Pages of a list *)

(* How far so many pages reach. *)
Reached(n, size, N) == IF n * size < N THEN n * size ELSE N

(* A page, and how far it takes a client that has the first m of N. *)
FirstOf(list, size) == SubSeq(list, 1, IF Len(list) < size THEN Len(list) ELSE size)
Further(m, size, N) == IF N - m < size THEN N ELSE m + size
GoesOn(t, m, rest, size) ==
  SubSeq(t, 1, m) \o FirstOf(rest, size) = SubSeq(t, 1, Further(m, size, Len(t)))

LEMMA ReachedNext ==
  ASSUME NEW N \in Nat, NEW size \in Nat \ {0}
  PROVE  /\ Reached(0, size, N) = 0
         /\ \A n \in Nat : Reached(n, size, N) \in 0..N
         /\ \A n \in Nat \ {0} :
              Reached(n, size, N) = Further(Reached(n - 1, size, N), size, N)
         /\ Reached(N, size, N) = N
<1>1. ASSUME NEW n \in Nat PROVE n * size \in Nat
  OBVIOUS
<1>2. Reached(0, size, N) = 0
  BY DEF Reached
<1>3. \A n \in Nat : Reached(n, size, N) \in 0..N
  BY <1>1 DEF Reached
<1>4. ASSUME NEW n \in Nat \ {0}
      PROVE  Reached(n, size, N) = Further(Reached(n - 1, size, N), size, N)
  <2> DEFINE x == (n - 1) * size
             y == n * size
  <2>1. x \in Nat /\ y = x + size
    BY <1>1
  <2> HIDE DEF x, y
  <2>2. /\ Reached(n, size, N) = IF y < N THEN y ELSE N
        /\ Reached(n - 1, size, N) = IF x < N THEN x ELSE N
    BY DEF Reached, x, y
  <2> QED BY <2>1, <2>2 DEF Further
<1>5. Reached(N, size, N) = N
  <2> DEFINE e == size - 1
             z == N * e
  <2>1. e \in Nat /\ size = 1 + e
    OBVIOUS
  <2>2. N * size = N + z
    BY <2>1
  <2>3. z \in Nat
    <3> HIDE DEF e
    <3> QED BY <2>1
  <2> HIDE DEF z, e
  <2> QED BY <2>2, <2>3 DEF Reached
<1> QED BY <1>2, <1>3, <1>4, <1>5

(* From s on come those that are behind the first m of the list t. *)
Behind(E, t, m, s) ==
  /\ m = 0 => \A e \in E : ~ LexLess(e.key, s)
  /\ m > 0 => \A e \in E : ~ LexLess(e.key, s) <=> LexLess(t[m].key, e.key)

(* The page behind the first m of a list goes on where they end. *)
LEMMA PageGoesOn ==
  ASSUME NEW E, Keyed(E), NEW t, t = InKeyOrder(E), NEW m \in 0..Len(t), NEW s,
         Behind(E, t, m, s),
         NEW rest, rest = InKeyOrder(From(E, s)),
         NEW size \in Nat \ {0}
  PROVE  GoesOn(t, m, rest, size)
<1> DEFINE N == Len(t)
           F == From(E, s)
           R == KeyOrder(E)
           size1 == IF Len(rest) < size THEN Len(rest) ELSE size
<1>1. IsListing(t, R, E) /\ StrictOrder(R, E)
  BY CellsAreListed, KeysAreOrdered
<1>2. t \in Seq(E) /\ N \in Nat /\ m \in Nat /\ m <= N /\ \A i \in 1..N : t[i] \in E
  BY <1>1 DEF IsListing
<1>3. \A c, d \in E : <<c, d>> \in R <=> LexLess(c.key, d.key)
  BY KeysAreOrdered
<1>4. \A i, j \in 1..N : i < j => <<t[i], t[j]>> \in R
  BY <1>1 DEF IsListing
<1>5. \A e \in E : \E i \in 1..N : t[i] = e
  BY <1>1 DEF IsListing
<1> HIDE DEF N, R
<1>6. ASSUME NEW i \in 1..N PROVE t[i] \in F <=> i > m
  <2>1. CASE m = 0
    BY <1>2, <2>1 DEF Behind, From
  <2>2. CASE m > 0
    <3>1. m \in 1..N /\ t[m] \in E /\ t[i] \in E
      BY <1>2, <2>2
    <3>2. t[i] \in F <=> <<t[m], t[i]>> \in R
      BY <1>3, <2>2, <3>1 DEF Behind, From
    <3>3. i > m => <<t[m], t[i]>> \in R
      BY <1>4, <3>1
    <3>4. i < m => <<t[i], t[m]>> \in R
      BY <1>4, <3>1
    <3>5. ~ (<<t[m], t[i]>> \in R /\ <<t[i], t[m]>> \in R)
      BY <1>1, <3>1 DEF StrictOrder
    <3>6. i = m => <<t[m], t[i]>> \notin R
      BY <1>1, <3>1 DEF StrictOrder
    <3>7. i > m \/ i < m \/ i = m
      BY <3>1
    <3>8. i > m => ~ (i < m) /\ i # m
      BY <3>1
    <3> QED BY <3>2, <3>3, <3>4, <3>5, <3>6, <3>7, <3>8
  <2> QED BY <1>2, <2>1, <2>2
<1>7. F = {t[i] : i \in m + 1..N}
  <2>1. F \subseteq E
    BY DEF From
  <2>2. \A i \in 1..N : i > m <=> i \in m + 1..N
    BY <1>2
  <2>3. m + 1..N \subseteq 1..N
    BY <1>2
  <2> HIDE DEF F
  <2> QED BY <1>5, <1>6, <2>1, <2>2, <2>3
<1>8. rest = SubSeq(t, m + 1, N)
  <2> HIDE DEF F
  <2>1. InKeyOrder(F) = SubSeq(InKeyOrder(E), m + 1, Len(InKeyOrder(E)))
    <3>1. m \in 0..Len(InKeyOrder(E))
      BY <1>2 DEF N
    <3>2. F = {InKeyOrder(E)[i] : i \in m + 1..Len(InKeyOrder(E))}
      BY <1>7 DEF N
    <3> QED BY <3>1, <3>2, RestOfList
  <2> QED BY <2>1 DEF F, N
<1>9. /\ rest \in Seq(E) /\ Len(rest) = N - m
      /\ \A i \in 1..N - m : rest[i] = t[m + i]
  <2>1. \A i \in m + 1..N : t[i] \in E
    BY <1>2
  <2>2. m + 1 \in Int /\ N \in Int
    BY <1>2
  <2>3. /\ rest \in Seq(E)
        /\ Len(rest) = IF m + 1 <= N THEN N - (m + 1) + 1 ELSE 0
        /\ \A i \in 1..N - (m + 1) + 1 : rest[i] = t[(m + 1) + i - 1]
    <3> DEFINE y == SubSeq(t, m + 1, N)
    <3>1. /\ y \in Seq(E)
          /\ Len(y) = IF m + 1 <= N THEN N - (m + 1) + 1 ELSE 0
          /\ \A i \in 1..N - (m + 1) + 1 : y[i] = t[(m + 1) + i - 1]
      BY <2>1, <2>2, SubSeqProperties
    <3>2. rest = y
      BY <1>8
    <3> HIDE DEF y
    <3> QED BY <3>1, <3>2
  <2>4. Len(rest) = N - m /\ N - (m + 1) + 1 = N - m
    <3>1. Len(rest) = IF m + 1 <= N THEN N - (m + 1) + 1 ELSE 0
      BY <2>3
    <3> QED BY <1>2, <3>1
  <2>5. ASSUME NEW i \in 1..N - m PROVE rest[i] = t[m + i]
    <3>1. i \in 1..N - (m + 1) + 1 /\ (m + 1) + i - 1 = m + i
      BY <1>2
    <3>2. rest[i] = t[(m + 1) + i - 1]
      BY <2>3, <3>1
    <3> QED BY <3>1, <3>2
  <2> QED BY <2>3, <2>4, <2>5
<1> DEFINE k == IF N - m < size THEN N - m ELSE size
<1>10. size1 = k /\ k \in 0..N - m
  <2>1. Len(rest) = N - m
    BY <1>9
  <2> QED BY <1>2, <2>1
<1> HIDE DEF size1, k
<1>11. SubSeq(rest, 1, k) = SubSeq(t, m + 1, m + k)
  <2> DEFINE x == SubSeq(rest, 1, k)
             y == SubSeq(t, m + 1, m + k)
  <2>1. /\ x \in Seq(E) /\ Len(x) = k
        /\ \A i \in 1..k : x[i] = rest[i]
    BY <1>2, <1>9, <1>10
  <2>2. m + k <= Len(t) /\ m + k \in Nat /\ (m + k) - (m + 1) + 1 = k
    BY <1>2, <1>10 DEF N
  <2>3. \A i \in m + 1..m + k : t[i] \in E
    BY <1>2, <2>2 DEF N
  <2>4. /\ y \in Seq(E) /\ Len(y) = k
        /\ \A i \in 1..k : y[i] = t[m + i]
    <3>1. m + 1 \in Int /\ m + k \in Int /\ k \in Nat
      BY <1>2, <1>10
    <3>2. /\ y \in Seq(E)
          /\ Len(y) = IF m + 1 <= m + k THEN (m + k) - (m + 1) + 1 ELSE 0
          /\ \A i \in 1..(m + k) - (m + 1) + 1 : y[i] = t[(m + 1) + i - 1]
      BY <2>3, <3>1, SubSeqProperties, SMTT(20)
    <3> HIDE DEF y
    <3>3. Len(y) = k
      BY <1>2, <3>1, <3>2
    <3>4. ASSUME NEW i \in 1..k PROVE y[i] = t[m + i]
      <4>1. i \in 1..(m + k) - (m + 1) + 1 /\ (m + 1) + i - 1 = m + i
        BY <1>2, <3>1
      <4>2. y[i] = t[(m + 1) + i - 1]
        BY <3>2, <4>1
      <4> QED BY <4>1, <4>2
    <3> QED BY <3>2, <3>3, <3>4
  <2>5. \A i \in 1..k : x[i] = y[i]
    <3> HIDE DEF x, y
    <3>1. \A i \in 1..k : i \in 1..N - m
      BY <1>2, <1>10
    <3> QED BY <1>9, <2>1, <2>4, <3>1
  <2> HIDE DEF x, y
  <2>6. x = y
    BY <2>1, <2>4, <2>5, SeqEqual
  <2> QED BY <2>6 DEF x, y
<1>12. SubSeq(t, 1, m) \o SubSeq(t, m + 1, m + k) = SubSeq(t, 1, m + k)
  <2>1. 1 \in 1..Len(t) + 1 /\ m \in 1 - 1..Len(t) /\ m + k \in m..Len(t)
    BY <1>2, <1>10 DEF N
  <2> QED BY <1>2, <2>1, ConcatAdjacentSubSeq
<1>13. m + k = IF N - m < size THEN N ELSE m + size
  BY <1>2 DEF k
<1> QED BY <1>10, <1>11, <1>12, <1>13 DEF size1, N, FirstOf, Further, GoesOn

-----------------------------------------------------------------------------
(* The pages of read_pairs *)

PairList == {[key |-> e.key, value |-> e.contract] : e \in pairs}

LEMMA PairsAreFinite ==
  ASSUME RegistryInv
  PROVE  /\ IsFiniteSet(pairs)
         /\ \A e \in pairs : e.key \in Seq(Byte)
         /\ \A e, f \in pairs : e.key = f.key => e = f
<1>1. PICK cs, ts : cs \in Seq(Row) /\ Complete(cs, ts)
  BY DEF RegistryInv, RegistryTypeOK, Row
<1>2. Len(cs) \in Nat /\ DOMAIN cs = 1..Len(cs)
  OBVIOUS
<1> DEFINE D == 1..Len(cs)
<1>3. IsFiniteSet(D)
  BY <1>2, FS_Interval
<1> HIDE DEF D
<1>4. IsFiniteSet({EntryOf(cs, i) : i \in D})
  <2> DEFINE T == {EntryOf(cs, i) : i \in D}
             f == [i \in D |-> EntryOf(cs, i)]
  <2>1. f \in [D -> T] /\ \A x \in T : \E i \in D : f[i] = x
    OBVIOUS
  <2> HIDE DEF f, T
  <2>2. f \in Surjection(D, T)
    BY <2>1 DEF Surjection
  <2>3. IsFiniteSet(T)
    BY <1>3, <2>2, FS_Surjection
  <2> QED BY <2>3 DEF T
<1>5. pairs \subseteq {EntryOf(cs, i) : i \in D}
  BY <1>1, <1>2 DEF Complete, D
<1>6. IsFiniteSet(pairs)
  BY <1>4, <1>5, FS_Subset
<1>7. \A e \in pairs : e.key \in Seq(Byte)
  BY DEF RegistryInv, RegistryTypeOK, Entry
<1>8. \A e, f \in pairs : e.key = f.key => e = f
  BY <1>1 DEF Complete
<1> QED BY <1>6, <1>7, <1>8

LEMMA PairListIsKeyed ==
  ASSUME RegistryInv
  PROVE  Keyed(PairList) /\ Cardinality(PairList) = Cardinality(pairs)
<1> DEFINE cell == [e \in pairs |-> [key |-> e.key, value |-> e.contract]]
<1>1. /\ IsFiniteSet(pairs)
      /\ \A e \in pairs : e.key \in Seq(Nat)
      /\ \A e, f \in pairs : e.key = f.key => e = f
  BY PairsAreFinite, ByteNat
<1>2. cell \in Bijection(pairs, PairList)
  <2>1. cell \in [pairs -> PairList]
    BY DEF PairList
  <2>2. \A e, f \in pairs : cell[e] = cell[f] => e = f
    <3>1. \A e \in pairs : cell[e].key = e.key
      OBVIOUS
    <3> HIDE DEF cell
    <3> QED BY <1>1, <3>1
  <2>3. \A c \in PairList : \E e \in pairs : cell[e] = c
    BY DEF PairList
  <2> HIDE DEF cell
  <2> QED BY <2>1, <2>2, <2>3 DEF Bijection, Injection, Surjection, IsInjective
<1>3. ExistsBijection(pairs, PairList)
  BY <1>2 DEF ExistsBijection
<1>4. IsFiniteSet(PairList) /\ Cardinality(PairList) = Cardinality(pairs)
  BY <1>1, <1>3, FS_Bijection
<1>5. \A c \in PairList : c.key \in Seq(Nat)
  BY <1>1 DEF PairList
<1>6. \A c, d \in PairList : c.key = d.key => c = d
  BY <1>1 DEF PairList
<1> QED BY <1>4, <1>5, <1>6 DEF Keyed

(* The namespace of the pairs *)
PairsPrefix == Framed(PairsName)

LEMMA PairsPrefixIs ==
  /\ PrefixKey(PairsName, <<>>) = PairsPrefix
  /\ PairsPrefix \in Seq(Byte) /\ Bounded(PairsPrefix)
  /\ \A k : PathKey(PairsName, <<k>>) = PairsPrefix \o k
<1>1. PairsName \in Name
  BY RegistryAssumption DEF RegistryAssumption
<1>2. PairsPrefix \in Seq(Byte) /\ Bounded(PairsPrefix)
  BY <1>1, NameBytes, FramedBounded DEF PairsPrefix
<1>3. <<PairsName>> \o <<>> = <<PairsName>>
  OBVIOUS
<1>4. LengthPrefixed(<<PairsName>>) = PairsPrefix
  BY <1>1, PrefixedOne DEF PairsPrefix
<1>5. PrefixKey(PairsName, <<>>) = PairsPrefix \o <<>>
  BY <1>3, <1>4 DEF PrefixKey, NamespacesWithKey
<1>6. PairsPrefix \o <<>> = PairsPrefix
  BY <1>2, ConcatEmptySeq
<1>7. ASSUME NEW k PROVE PathKey(PairsName, <<k>>) = PairsPrefix \o k
  <2>1. Front(<<k>>) = <<>> /\ Last(<<k>>) = k
    BY DEF Front, Last
  <2> QED BY <1>3, <1>4, <2>1 DEF PathKey, NamespacesWithKey
<1> QED BY <1>2, <1>5, <1>6, <1>7

LEMMA PairCellsInside ==
  ASSUME RegistryInv
  PROVE  /\ \A c \in PairCells : c.key \in Seq(Byte)
         /\ Apart(PairCells, PairsPrefix)
         /\ Inside(PairCells, PairsPrefix) = PairList
<1> DEFINE p == PairsPrefix
<1>1. PairCells = {[key |-> p \o e.key, value |-> e.contract] : e \in pairs}
  BY PairsPrefixIs DEF PairCells
<1>2. p \in Seq(Byte) /\ \A e \in pairs : e.key \in Seq(Byte)
  BY PairsAreFinite, PairsPrefixIs
<1> HIDE DEF p
<1>3. ASSUME NEW e \in pairs PROVE p \o e.key \in Seq(Byte) /\ Trim(p, p \o e.key) = e.key
  <2>1. e.key \in Seq(Byte)
    BY <1>2
  <2> HIDE DEF Byte
  <2> DEFINE k == e.key
  <2> HIDE DEF k
  <2>2. p \o k \in Seq(Byte) /\ SubSeq(p \o k, Len(p) + 1, Len(p \o k)) = k
    BY <1>2, <2>1 DEF k
  <2> QED BY <2>2 DEF Trim, k
<1>4. ASSUME NEW c \in PairCells PROVE c.key \in Seq(Byte) /\ \E r \in Seq(Byte) : c.key = p \o r
  <2>1. PICK e \in pairs : c = [key |-> p \o e.key, value |-> e.contract]
    BY <1>1
  <2>2. c.key = p \o e.key
    BY <2>1
  <2> QED BY <1>2, <1>3, <2>2
<1>5. Inside(PairCells, p) = PairList
  <2>1. Inside(PairCells, p) = {[key |-> Trim(p, c.key), value |-> c.value] : c \in PairCells}
    BY <1>4 DEF Inside
  <2>2. ASSUME NEW e \in pairs
        PROVE  [key |-> Trim(p, p \o e.key), value |-> e.contract]
                 = [key |-> e.key, value |-> e.contract]
    BY <1>3
  <2> DEFINE cell(e) == [key |-> p \o e.key, value |-> e.contract]
  <2>3. \A e \in pairs : cell(e).key = p \o e.key /\ cell(e).value = e.contract
    OBVIOUS
  <2>4. PairCells = {cell(e) : e \in pairs}
    BY <1>1
  <2> HIDE DEF cell
  <2>5. Inside(PairCells, p)
          = {[key |-> Trim(p, p \o e.key), value |-> e.contract] : e \in pairs}
    <3> DEFINE trimmed(c) == [key |-> Trim(p, c.key), value |-> c.value]
               S == {trimmed(c) : c \in PairCells}
               T == {[key |-> Trim(p, p \o e.key), value |-> e.contract] : e \in pairs}
    <3>1. \A e \in pairs :
            trimmed(cell(e)) = [key |-> Trim(p, p \o e.key), value |-> e.contract]
      BY <2>3
    <3>2. Inside(PairCells, p) = S
      BY <2>1
    <3>3. \A x \in S : \E e \in pairs : x = trimmed(cell(e))
      BY <2>4
    <3>4. \A e \in pairs : trimmed(cell(e)) \in S
      BY <2>4
    <3> HIDE DEF S, trimmed
    <3>5. S = T
      BY <3>1, <3>3, <3>4
    <3> QED BY <3>2, <3>5
  <2> QED BY <2>2, <2>5 DEF PairList
<1> QED BY <1>4, <1>5 DEF Apart, p

(* What a page gives that begins behind the first m pairs. *)
LEMMA PairsPage ==
  ASSUME RegistryInv, PairKeysApart, NEW limit \in ListLimits,
         NEW t, t = InKeyOrder(PairList), NEW m \in 0..Len(t),
         NEW list, list = SubSeq(t, 1, m)
  PROVE  list \o ReadPairs(IF list = <<>> THEN NoBound ELSE BehindPair(Last(list).key), limit)
           = SubSeq(t, 1, Further(m, PageSize(limit), Len(t)))
<1> DEFINE E == PairList
           p == PairsPrefix
           start == IF list = <<>> THEN NoBound ELSE BehindPair(Last(list).key)
           s == IF m = 0 THEN <<>> ELSE t[m].key \o <<1, 0>>
           rest == RangeWithPrefix(PairCells, p, start, NoBound)
           size == PageSize(limit)
<1>1. Keyed(E) /\ IsListing(t, KeyOrder(E), E)
  BY PairListIsKeyed, CellsAreListed
<1>2. t \in Seq(E) /\ Len(t) \in Nat /\ m \in Nat /\ m <= Len(t) /\ \A i \in 1..Len(t) : t[i] \in E
  BY <1>1 DEF IsListing
<1>3. \A e \in E : e.key \in Seq(Byte) /\ e.key \in Seq(Nat)
  <2>1. \A e \in E : e.key \in Seq(Byte)
    BY PairsAreFinite DEF PairList
  <2> QED BY <2>1, ByteNat
<1>4. p \in Seq(Byte) /\ Bounded(p) /\ 0 \in Byte /\ 1 \in Byte
  BY PairsPrefixIs, ByteNat DEF Byte
<1>5. size \in Nat \ {0}
  BY KeyspaceAssumption, RegistryAssumption
     DEF KeyspaceAssumption, RegistryAssumption, PageSize, NoLimit
<1> HIDE DEF E, p, size
<1>6. ASSUME m = 0
      PROVE  /\ CalcStartBound(p, start) = p \o s /\ s \in Seq(Byte)
             /\ Behind(E, t, m, s)
  <2>1. list = <<>>
    BY <1>6, SubSeqEmpty
  <2>2. s = <<>> /\ start = NoBound
    BY <1>6, <2>1
  <2>3. CalcStartBound(p, start) = p \o s
    BY <1>4, <2>2, ConcatEmptySeq DEF CalcStartBound
  <2>4. s \in Seq(Byte) /\ \A e \in E : ~ LexLess(e.key, s)
    <3>1. ASSUME NEW e \in E, LexLess(e.key, <<>>) PROVE FALSE
      <4>1. e.key \in Seq(Nat) /\ <<>> \in Seq(Nat)
        BY <1>3
      <4>2. \E i \in 1..Len(<<>>) : LessAt(e.key, <<>>, i)
        BY <3>1, <4>1, LessIsLessAt
      <4> QED BY <4>2
    <3> QED BY <2>2, <3>1
  <2>5. Behind(E, t, m, s)
    BY <1>2, <1>6, <2>4 DEF Behind
  <2> QED BY <2>3, <2>4, <2>5
<1>7. ASSUME m > 0
      PROVE  /\ CalcStartBound(p, start) = p \o s /\ s \in Seq(Byte)
             /\ Behind(E, t, m, s)
  <2> DEFINE k == t[m].key
  <2>1. m \in 1..Len(t) /\ t[m] \in E
    BY <1>2, <1>7
  <2>2. k \in Seq(Byte)
    BY <1>3, <2>1
  <2> HIDE DEF k
  <2>3. list \in Seq(E) /\ Len(list) = m /\ list[m] = t[m]
    BY <1>2, <2>1
  <2>4. list # <<>> /\ Last(list) = t[m]
    BY <1>7, <2>3 DEF Last
  <2>5. start = Exclusive(Append(k, 1))
    BY <2>4 DEF BehindPair, k
  <2>6. Append(k, 1) \in Bytes /\ Append(Append(k, 1), 0) = k \o <<1, 0>>
        /\ k \o <<1, 0>> \in Seq(Byte)
    <3> HIDE DEF Byte
    <3> QED BY <1>4, <2>2 DEF Bytes
  <2>7. start # NoBound /\ start.inclusive = FALSE /\ start.limit = Append(k, 1)
    <3>1. start \in [limit : Bytes, inclusive : BOOLEAN]
      <4>1. start = [limit |-> Append(k, 1), inclusive |-> FALSE]
        BY <2>5 DEF Exclusive
      <4> HIDE DEF start
      <4> QED BY <2>6, <4>1
    <3>2. start # NoBound
      BY <3>1, KeyspaceAssumption DEF KeyspaceAssumption
    <3> QED BY <2>5, <3>2, SMTT(20) DEF Exclusive
  <2>8. s = k \o <<1, 0>>
    BY <1>7 DEF k
  <2>9. CalcStartBound(p, start) = p \o s
    BY <2>6, <2>7, <2>8 DEF CalcStartBound, OneByteHigher
  <2>10. ASSUME NEW e \in E PROVE ~ LexLess(e.key, s) <=> LexLess(k, e.key)
    <3>1. e.key \in Seq(Nat) /\ k \in Seq(Nat) /\ s \in Seq(Nat)
      BY <1>3, <2>2, <2>6, <2>8, ByteNat
    <3>2. LexLess(k, e.key) => ~ LexLess(e.key, s)
      <4>1. PICK f \in pairs : e.key = f.key
        BY DEF E, PairList
      <4>2. PICK g \in pairs : k = g.key
        <5>1. PICK g \in pairs : t[m] = [key |-> g.key, value |-> g.contract]
          BY <2>1 DEF E, PairList
        <5> QED BY <5>1 DEF k
      <4> QED BY <2>8, <4>1, <4>2 DEF PairKeysApart
    <3>3. LexLess(k, s)
      <4> DEFINE i == Len(k) + 1
      <4>1. Len(k) \in Nat /\ i \in 1..Len(s) /\ ~ (i <= Len(k)) /\ i <= Len(k) + 1
            /\ \A j \in 1..i - 1 : k[j] = s[j]
        BY <2>8, <3>1, SMTT(20)
      <4>2. LessAt(k, s, i)
        BY <4>1 DEF LessAt
      <4> QED BY <3>1, <4>2, LessAtIsLess
    <3>4. ~ LexLess(k, e.key) => e.key = k \/ LexLess(e.key, k)
      BY <3>1, LexTotal
    <3>5. LexLess(e.key, k) => LexLess(e.key, s)
      BY <3>1, <3>3, LexTransitive
    <3> QED BY <3>2, <3>3, <3>4, <3>5
  <2> HIDE DEF s, start
  <2>11. \A e \in E : ~ LexLess(e.key, s) <=> LexLess(t[m].key, e.key)
    BY <2>10 DEF k
  <2>12. Behind(E, t, m, s)
    BY <1>2, <1>7, <2>11 DEF Behind
  <2> QED BY <2>6, <2>8, <2>9, <2>12
<1>8. CalcStartBound(p, start) = p \o s /\ s \in Seq(Byte) /\ Behind(E, t, m, s)
  <2> HIDE DEF s, start
  <2>1. m = 0 \/ m > 0
    BY <1>2
  <2> QED BY <1>6, <1>7, <2>1
<1> HIDE DEF s, start
<1>9. rest = InKeyOrder(From(E, s))
  BY <1>4, <1>8, PairCellsInside, RangeFrom DEF E, p
<1>10. ReadPairs(start, limit) = FirstOf(rest, size)
  BY PairsPrefixIs DEF ReadPairs, FirstOf, p, size
<1> HIDE DEF rest
<1>11. GoesOn(t, m, rest, size)
  <2>1. t = InKeyOrder(E)
    BY DEF E
  <2>2. Behind(E, t, m, s)
    BY <1>8
  <2> HIDE DEF s
  <2>3. Keyed(E)
    BY <1>1
  <2> QED BY <1>5, <1>9, <2>1, <2>2, <2>3, PageGoesOn
<1> QED BY <1>10, <1>11 DEF start, size, GoesOn

LEMMA PairsPages ==
  ASSUME RegistryInv, PairKeysApart, NEW limit \in ListLimits, NEW pages \in Nat,
         pages = Cardinality(pairs)
  PROVE  PairsListed(limit, pages) = InKeyOrder(PairList)
<1> DEFINE t == InKeyOrder(PairList)
           N == Len(t)
           size == PageSize(limit)
           IsPaging(f) ==
             f = [n \in 0..pages |->
                    IF n = 0 THEN <<>>
                    ELSE f[n - 1] \o
                           ReadPairs(IF f[n - 1] = <<>> THEN NoBound
                                     ELSE BehindPair(Last(f[n - 1]).key), limit)]
           g == [n \in 0..pages |-> SubSeq(t, 1, Reached(n, size, N))]
<1>1. t \in Seq(PairList) /\ N = pages
  BY PairListIsKeyed, CellsAreListed DEF IsListing
<1>2. size \in Nat \ {0}
  BY KeyspaceAssumption, RegistryAssumption
     DEF KeyspaceAssumption, RegistryAssumption, PageSize, NoLimit
<1> HIDE DEF size, N
<1>3. /\ Reached(0, size, N) = 0
      /\ \A n \in Nat : Reached(n, size, N) \in 0..N
      /\ \A n \in Nat \ {0} : Reached(n, size, N) = Further(Reached(n - 1, size, N), size, N)
      /\ Reached(N, size, N) = N
  <2>1. N \in Nat
    BY <1>1
  <2> QED BY <1>2, <2>1, ReachedNext, Zenon
<1>4. g[0] = <<>>
  BY <1>3, SubSeqEmpty
<1>5. ASSUME NEW n \in 1..pages
      PROVE  g[n] = g[n - 1] \o ReadPairs(IF g[n - 1] = <<>> THEN NoBound
                                          ELSE BehindPair(Last(g[n - 1]).key), limit)
  <2> DEFINE m == Reached(n - 1, size, N)
             list == SubSeq(t, 1, m)
  <2>1. n - 1 \in Nat /\ n - 1 \in 0..pages /\ n \in Nat \ {0} /\ n \in 0..pages
    OBVIOUS
  <2>2. m \in 0..Len(t)
    BY <1>3, <2>1 DEF N
  <2>3. g[n - 1] = list
    BY <2>1
  <2>4. g[n] = SubSeq(t, 1, Further(m, size, N))
    BY <1>3, <2>1
  <2> HIDE DEF m, g, t, list
  <2>5. list \o ReadPairs(IF list = <<>> THEN NoBound ELSE BehindPair(Last(list).key), limit)
          = SubSeq(t, 1, Further(m, PageSize(limit), Len(t)))
    BY <2>2, PairsPage DEF t, list
  <2> QED BY <2>3, <2>4, <2>5 DEF size, N
<1>6. IsPaging(g)
  <2> DEFINE Next(n) == g[n - 1] \o ReadPairs(IF g[n - 1] = <<>> THEN NoBound
                                              ELSE BehindPair(Last(g[n - 1]).key), limit)
  <2>1. \A n \in 0..pages : g[n] = IF n = 0 THEN <<>> ELSE Next(n)
    <3>1. \A n \in 0..pages : n # 0 => n \in 1..pages
      OBVIOUS
    <3> HIDE DEF g
    <3> QED BY <1>4, <1>5, <3>1
  <2>2. g = [n \in 0..pages |-> g[n]]
    OBVIOUS
  <2> HIDE DEF g
  <2> QED BY <2>1, <2>2
<1>7. ASSUME NEW f, IsPaging(f) PROVE \A n \in 0..pages : f[n] = g[n]
  <2> DEFINE P == {n \in 0..pages : f[n] = g[n]}
  <2>1. ASSUME NEW n \in 0..pages
        PROVE  f[n] = IF n = 0 THEN <<>>
                      ELSE f[n - 1] \o
                             ReadPairs(IF f[n - 1] = <<>> THEN NoBound
                                       ELSE BehindPair(Last(f[n - 1]).key), limit)
    BY <1>7, Zenon
  <2> HIDE DEF g, IsPaging
  <2>2. 0 \in P
    BY <1>4, <2>1
  <2>3. ASSUME NEW n \in 1..pages, n - 1 \in P PROVE n \in P
    <3>1. n \in 0..pages /\ n # 0
      OBVIOUS
    <3>2. f[n - 1] = g[n - 1]
      BY <2>3
    <3> QED BY <1>5, <2>1, <3>1, <3>2
  <2> HIDE DEF P
  <2>4. 0..pages \subseteq P
    BY <2>2, <2>3, UpTo
  <2> QED BY <2>4 DEF P
<1> DEFINE h == CHOOSE f : IsPaging(f)
<1>8. PairsListed(limit, pages) = h[pages]
  BY DEF PairsListed
<1>9. IsPaging(h)
  <2> HIDE DEF IsPaging
  <2> QED BY <1>6
<1>10. h[pages] = g[pages]
  <2>1. pages \in 0..pages
    OBVIOUS
  <2> HIDE DEF IsPaging, h, g
  <2> QED BY <1>7, <1>9, <2>1
<1>11. g[pages] = SubSeq(t, 1, N)
  BY <1>1, <1>3
<1>12. SubSeq(t, 1, N) = t
  BY <1>1, SubSeqFull DEF N
<1> QED BY <1>8, <1>10, <1>11, <1>12

LEMMA InvListsPairs ==
  ASSUME RegistryInv, PairKeysApart
  PROVE  PagesListPairs
<1> DEFINE t == InKeyOrder(PairList)
           pages == Cardinality(pairs)
<1>1. pages \in Nat
  BY PairsAreFinite, FS_CardinalityType
<1>2. IsListing(t, KeyOrder(PairList), PairList) /\ Len(t) = pages
  BY PairListIsKeyed, CellsAreListed
<1>3. {t[i].value : i \in DOMAIN t} = {e.contract : e \in pairs}
  <2>1. /\ t \in Seq(PairList) /\ DOMAIN t = 1..Len(t)
        /\ \A c \in PairList : \E i \in 1..Len(t) : t[i] = c
    BY <1>2 DEF IsListing
  <2>2. \A i \in 1..Len(t) : t[i] \in PairList
    BY <2>1
  <2> HIDE DEF t
  <2>3. \A i \in 1..Len(t) : \E e \in pairs : t[i].value = e.contract
    <3>1. \A c \in PairList : \E e \in pairs : c.value = e.contract
      BY DEF PairList
    <3> QED BY <2>2, <3>1
  <2>4. \A e \in pairs : \E i \in 1..Len(t) : t[i].value = e.contract
    <3>1. ASSUME NEW e \in pairs PROVE \E c \in PairList : c.value = e.contract
      <4> DEFINE c == [key |-> e.key, value |-> e.contract]
      <4>1. c \in PairList /\ c.value = e.contract
        BY DEF PairList
      <4> QED BY <4>1
    <3> QED BY <2>1, <3>1
  <2> DEFINE V == {t[i].value : i \in 1..Len(t)}
             W == {e.contract : e \in pairs}
  <2>5. \A v \in V : v \in W
    BY <2>3
  <2>6. \A w \in W : w \in V
    BY <2>4
  <2>7. V = W
    <3> HIDE DEF V, W
    <3> QED BY <2>5, <2>6
  <2> QED BY <2>1, <2>7
<1> HIDE DEF t, pages
<1>4. ASSUME NEW limit \in ListLimits PROVE PairsListed(limit, pages) = t
  BY <1>1, PairsPages DEF t, pages
<1> QED BY <1>2, <1>3, <1>4 DEF PagesListPairs, pages

(* A client that reads the pairs page by page, with any limit, gets each of *)
(* them once, after any creations and while one runs, unless the key of a   *)
(* pair lies where the code, in starting a page, skips.                     *)
THEOREM PairsAreListed == RegistrySpec => [](PairKeysApart => PagesListPairs)
<1>1. RegistryInv => (PairKeysApart => PagesListPairs)
  BY InvListsPairs
<1> QED BY <1>1, Invariance, PTL


-----------------------------------------------------------------------------
(* Prefixes that part *)

LEMMA PrefixedConcat ==
  ASSUME NEW a \in Seq(Name), NEW b \in Seq(Name)
  PROVE  LengthPrefixed(a \o b) = LengthPrefixed(a) \o LengthPrefixed(b)
<1> DEFINE N == Len(b)
           first(n) == SubSeq(b, 1, n)
           P == {n \in 0..N : LengthPrefixed(a \o first(n))
                                = LengthPrefixed(a) \o LengthPrefixed(first(n))}
<1>1. N \in Nat /\ \A i \in 1..N : b[i] \in Name
  OBVIOUS
<1>2. LengthPrefixed(a) \in Seq(Byte)
  <2>1. \A x \in Name : LengthPrefixed(a) \in Seq(Byte)
    BY PrefixedAppend
  <2>2. <<>> \in Name
    <3>1. Radix \in Nat /\ Radix > 1
      BY ByteNat
    <3>2. Radix * Radix >= 2 * Radix
      <4> DEFINE e == Radix - 2
      <4>1. e \in Nat /\ Radix = 2 + e
        BY <3>1
      <4> HIDE DEF e
      <4>2. Radix * Radix = 2 * Radix + Radix * e /\ Radix * e \in Nat
        BY <3>1, <4>1
      <4> QED BY <3>1, <4>2
    <3>3. Len(<<>>) = 0 /\ <<>> \in Bytes
      BY DEF Bytes
    <3>4. 0 < Radix * Radix - 1
      BY <3>1, <3>2
    <3> QED BY <3>3, <3>4 DEF Name
  <2> QED BY <2>1, <2>2
<1>3. 0 \in P
  <2>1. first(0) = <<>>
    BY SubSeqEmpty
  <2>2. a \o <<>> = a /\ LengthPrefixed(a) \o <<>> = LengthPrefixed(a)
    BY <1>2, ConcatEmptySeq
  <2> HIDE DEF first
  <2>3. LengthPrefixed(a \o first(0)) = LengthPrefixed(a) \o LengthPrefixed(first(0))
    BY <2>1, <2>2, PrefixedEmpty
  <2>4. 0 \in 0..N
    BY <1>1
  <2> QED BY <2>3, <2>4
<1>4. ASSUME NEW n \in 1..N, n - 1 \in P PROVE n \in P
  <2> DEFINE c == first(n - 1)
             x == b[n]
  <2>1. c \in Seq(Name) /\ x \in Name /\ n - 1 \in 0..N /\ n \in 0..N
    BY <1>1
  <2>2. first(n) = Append(c, x)
    BY <1>1
  <2>3. LengthPrefixed(a \o c) = LengthPrefixed(a) \o LengthPrefixed(c)
    BY <1>4
  <2> HIDE DEF c, x, first, N
  <2>4. a \o Append(c, x) = Append(a \o c, x) /\ a \o c \in Seq(Name)
    BY <2>1
  <2>5. /\ LengthPrefixed(Append(a \o c, x)) = LengthPrefixed(a \o c) \o Framed(x)
        /\ LengthPrefixed(Append(c, x)) = LengthPrefixed(c) \o Framed(x)
        /\ LengthPrefixed(c) \in Seq(Byte) /\ Framed(x) \in Seq(Byte)
    BY <2>1, <2>4, PrefixedAppend, NameBytes
  <2>6. (LengthPrefixed(a) \o LengthPrefixed(c)) \o Framed(x)
          = LengthPrefixed(a) \o (LengthPrefixed(c) \o Framed(x))
    BY <1>2, <2>5, ConcatAssociative, SMTT(20)
  <2> QED BY <2>1, <2>2, <2>3, <2>4, <2>5, <2>6
<1> HIDE DEF P
<1>5. 0..N \subseteq P
  <2> HIDE DEF N
  <2> QED BY <1>1, <1>3, <1>4, UpTo
<1>6. N \in P
  BY <1>1, <1>5
<1>7. first(N) = b
  BY SubSeqFull
<1> HIDE DEF first
<1> QED BY <1>6, <1>7 DEF P

(* The first place where two sequences are both defined and not the same.   *)
PartAt(a, b, d) ==
  /\ d \in 1..Len(a) /\ d <= Len(b)
  /\ a[d] # b[d]
  /\ \A j \in 1..d - 1 : a[j] = b[j]

LEMMA FramedParts ==
  ASSUME NEW x \in Name, NEW y \in Name, x # y
  PROVE  \E d \in Nat : /\ PartAt(Framed(x), Framed(y), d)
                        /\ Framed(x)[d] < Framed(y)[d] => Len(x) <= Len(y)
<1> DEFINE fx == Framed(x)
           fy == Framed(y)
           m == Len(x)
           n == Len(y)
<1>1. /\ x \in Seq(Byte) /\ m \in Nat /\ m < Radix * Radix /\ Len(fx) = m + 2
      /\ y \in Seq(Byte) /\ n \in Nat /\ n < Radix * Radix /\ Len(fy) = n + 2
  <2>1. Radix * Radix \in Nat
    BY ByteNat
  <2> QED BY <2>1, NameBytes
<1>2. /\ fx[1] = m \div Radix /\ fx[2] = m % Radix /\ \A i \in 1..m : fx[2 + i] = x[i]
      /\ fy[1] = n \div Radix /\ fy[2] = n % Radix /\ \A i \in 1..n : fy[2 + i] = y[i]
  <2>1. ASSUME NEW z \in Name
        PROVE  /\ Framed(z)[1] = Len(z) \div Radix /\ Framed(z)[2] = Len(z) % Radix
               /\ \A i \in 1..Len(z) : Framed(z)[2 + i] = z[i]
    <3> DEFINE l == EncodeLength(z)
    <3>1. /\ z \in Seq(Byte) /\ l \in Seq(Byte) /\ Len(l) = 2
          /\ l[1] = Len(z) \div Radix /\ l[2] = Len(z) % Radix
      BY NameBytes DEF EncodeLength
    <3> HIDE DEF l
    <3>2. \A i \in 1..Len(l) + Len(z) :
            (l \o z)[i] = IF i <= Len(l) THEN l[i] ELSE z[i - Len(l)]
      BY <3>1, ConcatProperties
    <3>3. Len(z) \in Nat /\ (l \o z)[1] = l[1] /\ (l \o z)[2] = l[2]
      <4>1. Len(z) \in Nat
        BY <3>1
      <4>2. 1 \in 1..Len(l) + Len(z) /\ 1 <= Len(l) /\ 2 \in 1..Len(l) + Len(z) /\ 2 <= Len(l)
        BY <3>1, <4>1
      <4> QED BY <3>2, <4>1, <4>2
    <3>4. ASSUME NEW i \in 1..Len(z) PROVE (l \o z)[2 + i] = z[i]
      <4>1. 2 + i \in 1..Len(l) + Len(z) /\ ~ (2 + i <= Len(l)) /\ (2 + i) - Len(l) = i
        BY <3>1, <3>3
      <4> QED BY <3>2, <4>1
    <3> QED BY <3>1, <3>3, <3>4 DEF Framed, l
  <2> QED BY <2>1
<1>3. /\ m = Radix * (m \div Radix) + (m % Radix) /\ m \div Radix \in Byte /\ m % Radix \in Byte
      /\ n = Radix * (n \div Radix) + (n % Radix) /\ n \div Radix \in Byte /\ n % Radix \in Byte
  BY <1>1, DivMod
<1>4. Radix \in Nat /\ Radix > 1 /\ \A c \in Byte : c \in Nat /\ c <= Radix - 1
  BY ByteNat
<1> HIDE DEF fx, fy
<1>5. CASE m = n
  <2> DEFINE D == {i \in 1..m : x[i] # y[i]}
  <2>1. D # {}
    <3> SUFFICES ASSUME D = {} PROVE FALSE
      OBVIOUS
    <3>1. \A i \in 1..Len(x) : x[i] = y[i]
      OBVIOUS
    <3> QED BY <1>1, <1>5, <3>1, SeqEqual
  <2>2. D \in SUBSET (1..m)
    OBVIOUS
  <2> HIDE DEF m
  <2>3. PICK i \in D : \A j \in D : i <= j
    <3> HIDE DEF D
    <3> QED BY <1>1, <2>1, <2>2, MinimumExists
  <2>4. i \in 1..m /\ x[i] # y[i]
    OBVIOUS
  <2>5. \A j \in 1..m : j < i => x[j] = y[j]
    <3>1. \A j \in 1..m : j < i => j \notin D
      BY <2>3, <2>4
    <3> QED BY <3>1
  <2> DEFINE d == 2 + i
  <2>6. d \in Nat /\ d \in 1..Len(fx) /\ d <= Len(fy) /\ d - 1 = 1 + i
    BY <1>1, <1>5, <2>4
  <2>7. fx[d] = x[i] /\ fy[d] = y[i]
    BY <1>2, <1>5, <2>4
  <2> HIDE DEF D, d
  <2>8. ASSUME NEW j \in 1..d - 1 PROVE fx[j] = fy[j]
    <3>1. CASE j = 1 \/ j = 2
      BY <1>2, <1>5, <3>1
    <3>2. CASE j > 2
      <4> DEFINE k == j - 2
      <4>1. k \in 1..m /\ k \in 1..n /\ k < i /\ j = 2 + k
        BY <1>5, <2>4, <2>6, <3>2
      <4> HIDE DEF k
      <4>2. fx[j] = x[k] /\ fy[j] = y[k]
        BY <1>2, <4>1
      <4> QED BY <2>5, <4>1, <4>2
    <3>3. j \in Nat /\ j >= 1
      BY <2>6
    <3> QED BY <3>1, <3>2, <3>3
  <2>9. PartAt(fx, fy, d)
    BY <2>4, <2>6, <2>7, <2>8 DEF PartAt
  <2> QED BY <1>1, <1>5, <2>6, <2>9 DEF fx, fy, m
<1>6. CASE m # n
  <2>1. CASE m \div Radix # n \div Radix
    <3>1. 1 \in 1..Len(fx) /\ 1 <= Len(fy)
      BY <1>1
    <3>2. PartAt(fx, fy, 1)
      BY <1>2, <2>1, <3>1 DEF PartAt
    <3>3. m \div Radix < n \div Radix => m <= n
      <4> DEFINE p == m \div Radix
                 q == n \div Radix
                 u == m % Radix
                 v == n % Radix
                 e == q - p - 1
      <4>1. p \in Nat /\ q \in Nat /\ u \in Nat /\ v \in Nat /\ u <= Radix - 1
            /\ m = Radix * p + u /\ n = Radix * q + v
        BY <1>3, <1>4
      <4> HIDE DEF p, q, u, v
      <4>2. p < q => e \in Nat /\ q = p + 1 + e
        BY <4>1
      <4> HIDE DEF e
      <4>3. p < q => Radix * q = Radix * p + Radix + Radix * e /\ Radix * e \in Nat
        BY <1>4, <4>1, <4>2
      <4>4. Radix * p \in Nat
        BY <1>4, <4>1
      <4>5. p < q => m <= n
        BY <1>4, <4>1, <4>3, <4>4
      <4> QED BY <4>5 DEF p, q
    <3> QED BY <1>2, <3>2, <3>3 DEF fx, fy
  <2>2. CASE m \div Radix = n \div Radix
    <3>1. m % Radix # n % Radix /\ (m % Radix < n % Radix => m <= n)
      <4> DEFINE z == Radix * (m \div Radix)
                 u == m % Radix
                 v == n % Radix
      <4>1. m = z + u /\ n = z + v /\ u \in Nat /\ v \in Nat /\ z \in Nat
        BY <1>3, <1>4, <2>2
      <4> HIDE DEF z, u, v
      <4>2. u # v /\ (u < v => m <= n)
        BY <1>6, <4>1
      <4> QED BY <4>2 DEF u, v
    <3>2. 2 \in 1..Len(fx) /\ 2 <= Len(fy) /\ \A j \in 1..2 - 1 : j = 1
      BY <1>1
    <3>3. PartAt(fx, fy, 2)
      BY <1>2, <2>2, <3>1, <3>2 DEF PartAt
    <3> QED BY <1>2, <3>1, <3>3 DEF fx, fy
  <2> QED BY <2>1, <2>2
<1> QED BY <1>5, <1>6


(* A key that is not under a prefix, in the order of keys.                  *)
Outside(key, p) == LexLess(key, p) \/ ~ LexLess(key, NamespaceUpperBound(p))

(* A key that leaves a prefix at some place is outside of it, when it is    *)
(* not shorter or the prefix could still grow behind that place.            *)
LEMMA BesideIsOutside ==
  ASSUME NEW p \in Seq(Byte), Bounded(p), NEW key \in Seq(Byte), NEW d \in Nat,
         PartAt(p, key, d),
         p[d] < key[d] => \/ Len(p) <= Len(key)
                          \/ \E j \in d + 1..Len(p) : p[j] # Radix - 1
  PROVE  Outside(key, p)
<1> DEFINE ub == NamespaceUpperBound(p)
<1>1. p \in Seq(Nat) /\ key \in Seq(Nat)
  BY ByteNat
<1>2. d \in 1..Len(p) /\ d \in 1..Len(key) /\ p[d] # key[d] /\ \A j \in 1..d - 1 : p[j] = key[j]
  BY <1>1 DEF PartAt
<1>3. /\ \A j \in 1..Len(p) : p[j] \in Nat /\ p[j] <= Radix - 1
      /\ \A j \in 1..Len(key) : key[j] \in Nat /\ key[j] <= Radix - 1
      /\ Len(p) \in Nat /\ Len(key) \in Nat /\ Radix \in Nat
  BY ByteNat
<1>4. CASE key[d] < p[d]
  <2>1. LessAt(key, p, d)
    BY <1>2, <1>4 DEF LessAt
  <2> QED BY <1>1, <2>1, LessAtIsLess DEF Outside
<1>5. CASE p[d] < key[d]
  <2>1. PICK i \in 1..Len(p) :
          /\ p[i] # Radix - 1
          /\ \A j \in 1..Len(p) : i < j => p[j] = Radix - 1
          /\ ub = [j \in 1..Len(p) |-> IF j < i THEN p[j] ELSE IF j = i THEN p[i] + 1 ELSE 0]
          /\ ub \in Seq(Nat) /\ Len(ub) = Len(p)
    BY UpperBound
  <2>2. d <= i
    BY <1>2, <1>3, <1>5, <2>1
  <2>3. d = i => Len(p) <= Len(key)
    BY <1>2, <1>3, <1>5, <2>1
  <2>4. /\ \A j \in 1..Len(p) : j < i => ub[j] = p[j]
        /\ ub[i] = p[i] + 1
        /\ \A j \in 1..Len(p) : j > i => ub[j] = 0
    BY <2>1
  <2> HIDE DEF ub
  <2>5. ASSUME NEW j \in 1..Len(ub), LessAt(key, ub, j) PROVE FALSE
    <3>1. /\ j \in 1..Len(p) /\ j <= Len(key) + 1 /\ (j <= Len(key) => key[j] < ub[j])
          /\ \A k \in 1..j - 1 : key[k] = ub[k]
      BY <2>1, <2>5 DEF LessAt
    <3>2. CASE j < d
      <4>1. key[j] = p[j] /\ ub[j] = p[j] /\ j <= Len(key)
        BY <1>2, <1>3, <2>1, <2>2, <2>4, <3>1, <3>2
      <4> QED BY <1>3, <3>1, <4>1
    <3>3. CASE j = d
      <4>1. ub[j] <= key[j]
        <5>1. CASE d < i
          BY <1>2, <1>3, <1>5, <2>4, <3>3, <5>1
        <5>2. CASE d = i
          BY <1>2, <1>3, <1>5, <2>4, <3>3, <5>2
        <5> QED BY <1>2, <1>3, <2>1, <2>2, <5>1, <5>2
      <4>2. j <= Len(key) /\ key[j] \in Nat /\ ub[j] \in Nat
        BY <1>2, <1>3, <2>1, <3>1, <3>3
      <4> QED BY <3>1, <4>1, <4>2
    <3>4. CASE d < j
      <4>1. key[d] = ub[d]
        BY <1>2, <3>1, <3>4
      <4>2. d = i
        BY <1>2, <1>3, <1>5, <2>1, <2>2, <2>4, <4>1
      <4>3. ub[j] = 0 /\ j <= Len(key)
        BY <1>3, <2>3, <2>4, <3>1, <3>4, <4>2
      <4>4. key[j] \in Nat /\ key[j] < 0
        BY <1>3, <3>1, <4>3
      <4> QED BY <4>4
    <3> QED BY <1>2, <3>1, <3>2, <3>3, <3>4
  <2>6. ~ LexLess(key, ub)
    BY <1>1, <2>1, <2>5, LessIsLessAt
  <2> QED BY <2>6 DEF Outside, ub
<1>6. p[d] < key[d] \/ key[d] < p[d]
  BY <1>2, <1>3
<1> QED BY <1>4, <1>5, <1>6

PartsBehind(c, a, u, b, v, d) ==
  /\ PartAt(c \o (a \o u), c \o (b \o v), Len(c) + d)
  /\ (c \o (a \o u))[Len(c) + d] = a[d] /\ (c \o (b \o v))[Len(c) + d] = b[d]

LEMMA PartBehind ==
  ASSUME NEW c \in Seq(Nat), NEW a \in Seq(Nat), NEW b \in Seq(Nat),
         NEW u \in Seq(Nat), NEW v \in Seq(Nat), NEW d \in Nat, PartAt(a, b, d)
  PROVE  PartsBehind(c, a, u, b, v, d)
<1> DEFINE n == Len(c)
           At(x, w, j) == (c \o (x \o w))[j]
<1>1. n \in Nat /\ Len(a) \in Nat /\ Len(b) \in Nat /\ Len(u) \in Nat /\ Len(v) \in Nat
  OBVIOUS
<1>2. ASSUME NEW x \in Seq(Nat), NEW w \in Seq(Nat)
      PROVE  /\ Len(c \o (x \o w)) = n + (Len(x) + Len(w))
             /\ \A j \in 1..n : At(x, w, j) = c[j]
             /\ \A j \in 1..Len(x) : At(x, w, n + j) = x[j]
  <2>1. /\ x \o w \in Seq(Nat) /\ Len(x \o w) = Len(x) + Len(w)
        /\ \A j \in 1..Len(x) + Len(w) :
             (x \o w)[j] = IF j <= Len(x) THEN x[j] ELSE w[j - Len(x)]
    BY ConcatProperties
  <2>2. /\ Len(c \o (x \o w)) = n + Len(x \o w)
        /\ \A j \in 1..n + Len(x \o w) :
             (c \o (x \o w))[j] = IF j <= n THEN c[j] ELSE (x \o w)[j - n]
    BY <2>1, ConcatProperties
  <2>3. Len(x) \in Nat /\ Len(w) \in Nat
    OBVIOUS
  <2>4. ASSUME NEW j \in 1..n PROVE At(x, w, j) = c[j]
    <3>1. j \in 1..n + Len(x \o w) /\ j <= n
      BY <1>1, <2>1, <2>3
    <3> QED BY <2>2, <3>1
  <2>5. ASSUME NEW j \in 1..Len(x) PROVE At(x, w, n + j) = x[j]
    <3>1. /\ n + j \in 1..n + Len(x \o w) /\ ~ (n + j <= n) /\ (n + j) - n = j
          /\ j \in 1..Len(x) + Len(w) /\ j <= Len(x)
      BY <1>1, <2>1, <2>3
    <3> QED BY <2>1, <2>2, <3>1
  <2> QED BY <2>1, <2>2, <2>4, <2>5
<1>3. d \in 1..Len(a) /\ d \in 1..Len(b) /\ a[d] # b[d] /\ \A j \in 1..d - 1 : a[j] = b[j]
  BY <1>1 DEF PartAt
<1>4. At(a, u, n + d) = a[d] /\ At(b, v, n + d) = b[d]
  BY <1>2, <1>3
<1>5. n + d \in 1..Len(c \o (a \o u)) /\ n + d <= Len(c \o (b \o v))
  <2>1. Len(c \o (a \o u)) = n + (Len(a) + Len(u)) /\ Len(c \o (b \o v)) = n + (Len(b) + Len(v))
    BY <1>2
  <2> QED BY <1>1, <1>3, <2>1, SMTT(20)
<1>6. ASSUME NEW j \in 1..(n + d) - 1 PROVE At(a, u, j) = At(b, v, j)
  <2>1. CASE j <= n
    <3>1. j \in 1..n
      BY <1>1, <2>1
    <3>2. At(a, u, j) = c[j] /\ At(b, v, j) = c[j]
      BY <1>2, <3>1
    <3> QED BY <3>2
  <2>2. CASE j > n
    <3> DEFINE k == j - n
    <3>1. k \in 1..d - 1 /\ k \in 1..Len(a) /\ k \in 1..Len(b) /\ j = n + k
      BY <1>1, <1>3, <2>2
    <3> HIDE DEF k
    <3>2. At(a, u, n + k) = a[k] /\ At(b, v, n + k) = b[k]
      BY <1>2, <3>1
    <3>3. a[k] = b[k]
      BY <1>3, <3>1
    <3>4. At(a, u, n + k) = At(b, v, n + k)
      BY <3>2, <3>3
    <3>5. j = n + k
      BY <3>1
    <3> HIDE DEF n
    <3> QED BY <3>4, <3>5
  <2>3. j <= n \/ j > n
    BY <1>1
  <2> QED BY <2>1, <2>2, <2>3
<1> QED BY <1>3, <1>4, <1>5, <1>6 DEF PartAt, PartsBehind

IsRegrouped(a, b, c, d) == (a \o (b \o c)) \o d = a \o (b \o (c \o d))

LEMMA Regrouped ==
  ASSUME NEW a \in Seq(Byte), NEW b \in Seq(Byte), NEW c \in Seq(Byte), NEW d \in Seq(Byte)
  PROVE  IsRegrouped(a, b, c, d)
<1>1. b \o c \in Seq(Byte)
  BY ConcatProperties
<1>2. (a \o (b \o c)) \o d = a \o ((b \o c) \o d)
  BY <1>1, ConcatAssociative, SMTT(20)
<1>3. (b \o c) \o d = b \o (c \o d)
  BY ConcatAssociative
<1> QED BY <1>2, <1>3 DEF IsRegrouped


LEMMA PrefixedBounded ==
  ASSUME NEW S \in Seq(Name)
  PROVE  LengthPrefixed(S) \in Seq(Byte) /\ (S # <<>> => Bounded(LengthPrefixed(S)))
<1>1. CASE S = <<>>
  <2>1. <<>> \in Seq(Byte)
    OBVIOUS
  <2> QED BY <1>1, <2>1, PrefixedEmpty
<1>2. CASE S # <<>>
  <2>2. PICK front \in Seq(Name), x \in Name : S = Append(front, x)
    BY <1>2, SequenceEmptyOrAppend
  <2>3. /\ LengthPrefixed(front) \in Seq(Byte)
        /\ LengthPrefixed(S) = LengthPrefixed(front) \o Framed(x)
    BY <2>2, PrefixedAppend
  <2>4. Framed(x) \in Seq(Byte) /\ Bounded(Framed(x))
    BY <2>2, NameBytes, FramedBounded
  <2> QED BY <2>3, <2>4, StillBounded
<1> QED BY <1>1, <1>2

LEMMA PrefixedSplit ==
  ASSUME NEW S \in Seq(Name), NEW d \in 1..Len(S)
  PROVE  LET front == SubSeq(S, 1, d - 1)
             rest == SubSeq(S, d + 1, Len(S))
         IN  /\ S[d] \in Name /\ front \in Seq(Name) /\ rest \in Seq(Name)
             /\ Len(rest) = Len(S) - d
             /\ LengthPrefixed(S)
                  = LengthPrefixed(front) \o (Framed(S[d]) \o LengthPrefixed(rest))
<1> DEFINE front == SubSeq(S, 1, d - 1)
           rest == SubSeq(S, d + 1, Len(S))
           tail == <<S[d]>> \o rest
<1>1. /\ S[d] \in Name
      /\ front \in Seq(Name) /\ Len(front) = d - 1 /\ \A i \in 1..d - 1 : front[i] = S[i]
      /\ rest \in Seq(Name) /\ Len(rest) = Len(S) - d
      /\ \A i \in 1..Len(S) - d : rest[i] = S[d + i]
  OBVIOUS
<1>2. <<S[d]>> \in Seq(Name) /\ Len(S) \in Nat /\ d \in Nat
  BY <1>1
<1>3. tail \in Seq(Name)
  BY <1>1, <1>2, ConcatProperties
<1>4. d - 1 \in 0..Len(S) /\ 1 - 1 = 0 /\ Len(S) \in d..Len(S) /\ Len(S) \in d - 1..Len(S)
      /\ 1 \in 1..Len(S) + 1 /\ (d - 1) + 1 = d
  BY <1>2
<1>5. SubSeq(S, d, Len(S)) = tail
  BY <1>4, SubSeqRecursiveFirst
<1>6. front \o SubSeq(S, d, Len(S)) = SubSeq(S, 1, Len(S))
  <2>1. SubSeq(S, 1, d - 1) \o SubSeq(S, (d - 1) + 1, Len(S)) = SubSeq(S, 1, Len(S))
    BY <1>4, ConcatAdjacentSubSeq
  <2> QED BY <1>4, <2>1
<1>7. S = front \o tail
  BY <1>5, <1>6, SubSeqFull
<1> HIDE DEF front, rest, tail
<1>8. LengthPrefixed(S) = LengthPrefixed(front) \o LengthPrefixed(tail)
  BY <1>1, <1>3, <1>7, PrefixedConcat
<1>9. LengthPrefixed(tail) = LengthPrefixed(<<S[d]>>) \o LengthPrefixed(rest)
  BY <1>1, <1>2, PrefixedConcat DEF tail
<1>10. LengthPrefixed(<<S[d]>>) = Framed(S[d])
  BY <1>1, PrefixedOne
<1> QED BY <1>1, <1>8, <1>9, <1>10 DEF front, rest

(* Lists of names that differ at a place both have.                         *)
Parted(S, T) == \E i \in 1..Len(S) : i <= Len(T) /\ S[i] # T[i]

LEMMA FirstPart ==
  ASSUME NEW S \in Seq(Name), NEW T \in Seq(Name), Parted(S, T)
  PROVE  \E d \in Nat : PartAt(S, T, d)
<1> DEFINE D == {i \in 1..Len(S) : i <= Len(T) /\ S[i] # T[i]}
<1>1. D # {} /\ D \in SUBSET (1..Len(S)) /\ Len(S) \in Nat /\ Len(T) \in Nat
  BY DEF Parted
<1>2. PICK d \in D : \A j \in D : d <= j
  <2> HIDE DEF D
  <2> QED BY <1>1, MinimumExists
<1>3. ASSUME NEW j \in 1..d - 1 PROVE S[j] = T[j]
  <2>1. j \in 1..Len(S) /\ j <= Len(T) /\ ~ (d <= j)
    BY <1>1
  <2>2. j \notin D
    BY <1>2, <2>1
  <2> QED BY <2>1, <2>2
<1> QED BY <1>1, <1>3 DEF PartAt

(* A key under one list of names is outside of the prefix of another one.   *)
LEMMA PartedIsOutside ==
  ASSUME NEW S \in Seq(Name), NEW T \in Seq(Name), Parted(S, T), NEW r \in Seq(Byte)
  PROVE  Outside(LengthPrefixed(T) \o r, LengthPrefixed(S))
<1>1. PICK d \in Nat : PartAt(S, T, d)
  BY FirstPart
<1>2. d \in 1..Len(S) /\ d \in 1..Len(T) /\ S[d] # T[d] /\ \A j \in 1..d - 1 : S[j] = T[j]
  BY <1>1 DEF PartAt
<1> DEFINE c == SubSeq(S, 1, d - 1)
           ct == SubSeq(T, 1, d - 1)
           S2 == SubSeq(S, d + 1, Len(S))
           T2 == SubSeq(T, d + 1, Len(T))
           C == LengthPrefixed(c)
           fx == Framed(S[d])
           fy == Framed(T[d])
           u == LengthPrefixed(S2)
           w == LengthPrefixed(T2)
           v == w \o r
           p == LengthPrefixed(S)
           key == LengthPrefixed(T) \o r
<1>3. /\ S[d] \in Name /\ c \in Seq(Name) /\ S2 \in Seq(Name) /\ p = C \o (fx \o u)
      /\ T[d] \in Name /\ ct \in Seq(Name) /\ T2 \in Seq(Name)
      /\ LengthPrefixed(T) = LengthPrefixed(ct) \o (fy \o LengthPrefixed(T2))
  BY <1>2, PrefixedSplit
<1>4. c = ct
  <2>1. Len(c) = d - 1 /\ Len(ct) = d - 1 /\ \A j \in 1..d - 1 : c[j] = S[j] /\ ct[j] = T[j]
    BY <1>2
  <2> HIDE DEF c, ct
  <2> QED BY <1>2, <1>3, <2>1, SeqEqual
<1> HIDE DEF c, ct, S2, T2
<1>5. /\ C \in Seq(Byte) /\ u \in Seq(Byte) /\ w \in Seq(Byte)
      /\ fx \in Seq(Byte) /\ fy \in Seq(Byte) /\ v \in Seq(Byte)
      /\ Len(fx) = Len(S[d]) + 2 /\ Len(fy) = Len(T[d]) + 2
  <2>1. /\ C \in Seq(Byte) /\ u \in Seq(Byte) /\ w \in Seq(Byte)
        /\ fx \in Seq(Byte) /\ fy \in Seq(Byte)
        /\ Len(fx) = Len(S[d]) + 2 /\ Len(fy) = Len(T[d]) + 2
    BY <1>3, PrefixedBounded, NameBytes
  <2> QED BY <2>1, ConcatProperties
<1>6. key = C \o (fy \o v)
  <2> HIDE DEF C, fy, w
  <2>1. (C \o (fy \o w)) \o r = C \o (fy \o (w \o r))
    <3>1. C \in Seq(Byte) /\ fy \in Seq(Byte) /\ w \in Seq(Byte) /\ r \in Seq(Byte)
      BY <1>5
    <3>2. IsRegrouped(C, fy, w, r)
      BY <3>1, Regrouped
    <3> QED BY <3>2 DEF IsRegrouped
  <2>4. LengthPrefixed(T) = C \o (fy \o w)
    BY <1>3, <1>4 DEF C, w
  <2> QED BY <2>1, <2>4
<1>7. p \in Seq(Byte) /\ Bounded(p) /\ key \in Seq(Byte)
  <2>1. S # <<>>
    BY <1>2
  <2>2. p \in Seq(Byte) /\ Bounded(p) /\ LengthPrefixed(T) \in Seq(Byte)
    BY <2>1, PrefixedBounded
  <2> QED BY <2>2, ConcatProperties
<1>8. PICK e \in Nat : /\ PartAt(fx, fy, e)
                       /\ fx[e] < fy[e] => Len(S[d]) <= Len(T[d])
  BY <1>2, <1>3, FramedParts
<1> DEFINE i == Len(C) + e
<1>9. PartAt(p, key, i) /\ p[i] = fx[e] /\ key[i] = fy[e]
  <2> HIDE DEF C, fx, fy, u, v, p, key
  <2>1. C \in Seq(Nat) /\ fx \in Seq(Nat) /\ fy \in Seq(Nat) /\ u \in Seq(Nat) /\ v \in Seq(Nat)
    BY <1>5, ByteNat
  <2>2. PartsBehind(C, fx, u, fy, v, e)
    BY <1>8, <2>1, PartBehind
  <2>3. p = C \o (fx \o u) /\ key = C \o (fy \o v)
    BY <1>3, <1>6
  <2> QED BY <2>2, <2>3 DEF PartsBehind
<1>10. Len(p) = Len(C) + (Len(fx) + Len(u)) /\ Len(key) = Len(C) + (Len(fy) + Len(v))
  <2>1. /\ fx \o u \in Seq(Byte) /\ Len(fx \o u) = Len(fx) + Len(u)
        /\ fy \o v \in Seq(Byte) /\ Len(fy \o v) = Len(fy) + Len(v)
    BY <1>5, ConcatProperties
  <2>2. Len(C \o (fx \o u)) = Len(C) + Len(fx \o u) /\ Len(C \o (fy \o v)) = Len(C) + Len(fy \o v)
    BY <1>5, <2>1, ConcatProperties
  <2> QED BY <1>3, <1>6, <2>1, <2>2
<1>11. ASSUME p[i] < key[i]
       PROVE  Len(p) <= Len(key) \/ \E j \in i + 1..Len(p) : p[j] # Radix - 1
  <2>1. CASE S2 = <<>>
    <3>1. u = <<>> /\ Len(u) = 0
      BY <2>1, PrefixedEmpty
    <3>2. Len(fx) <= Len(fy)
      <4>1. Len(S[d]) \in Nat /\ Len(T[d]) \in Nat
        BY <1>3, NameBytes
      <4> QED BY <1>5, <1>8, <1>9, <1>11, <4>1
    <3>3. Len(C) \in Nat /\ Len(fx) \in Nat /\ Len(fy) \in Nat /\ Len(v) \in Nat
      BY <1>5
    <3> HIDE DEF p, key, C, fx, fy, v, u
    <3> QED BY <1>10, <3>1, <3>2, <3>3
  <2>2. CASE S2 # <<>>
    <3>1. PICK k \in 1..Len(u) : u[k] # Radix - 1
      <4>1. Bounded(u)
        BY <1>3, <2>2, PrefixedBounded
      <4>2. u \in Seq(Byte)
        BY <1>5
      <4> HIDE DEF u
      <4> QED BY <4>1, <4>2 DEF Bounded
    <3> DEFINE j == Len(C) + (Len(fx) + k)
    <3>2. p[j] = u[k]
      <4>1. /\ fx \o u \in Seq(Byte) /\ Len(fx \o u) = Len(fx) + Len(u)
            /\ \A m \in 1..Len(fx) + Len(u) :
                 (fx \o u)[m] = IF m <= Len(fx) THEN fx[m] ELSE u[m - Len(fx)]
        BY <1>5, ConcatProperties
      <4>2. \A m \in 1..Len(C) + Len(fx \o u) :
              (C \o (fx \o u))[m] = IF m <= Len(C) THEN C[m] ELSE (fx \o u)[m - Len(C)]
        BY <1>5, <4>1, ConcatProperties
      <4>3. Len(C) \in Nat /\ Len(fx) \in Nat /\ Len(u) \in Nat
        BY <1>5
      <4>4. /\ j \in 1..Len(C) + Len(fx \o u) /\ ~ (j <= Len(C)) /\ j - Len(C) = Len(fx) + k
            /\ Len(fx) + k \in 1..Len(fx) + Len(u) /\ ~ (Len(fx) + k <= Len(fx))
            /\ (Len(fx) + k) - Len(fx) = k
        <5> HIDE DEF C, fx, u
        <5> QED BY <4>1, <4>3
      <4>5. (fx \o u)[Len(fx) + k] = u[k]
        <5> HIDE DEF fx, u
        <5> QED BY <4>1, <4>4
      <4>6. (C \o (fx \o u))[j] = (fx \o u)[Len(fx) + k]
        <5> HIDE DEF j, C, fx, u
        <5> QED BY <4>2, <4>4
      <4> HIDE DEF p, j, C, fx, u
      <4> QED BY <1>3, <4>5, <4>6
    <3>3. e \in 1..Len(fx) /\ Len(C) \in Nat /\ Len(fx) \in Nat /\ Len(u) \in Nat
      BY <1>5, <1>8 DEF PartAt
    <3>4. j \in i + 1..Len(p)
      <4> HIDE DEF C, fx, u, p
      <4> QED BY <1>10, <3>3
    <3> HIDE DEF p, j, i
    <3> QED BY <3>1, <3>2, <3>4
  <2> QED BY <2>1, <2>2
<1>12. i \in Nat
  BY <1>5
<1> HIDE DEF p, key, i
<1>13. Outside(key, p)
  BY <1>7, <1>9, <1>11, <1>12, BesideIsOutside
<1> QED BY <1>13 DEF p, key

LEMMA OutsideIsElsewhere ==
  ASSUME NEW p \in Seq(Byte), Bounded(p), NEW key, Outside(key, p), NEW r \in Seq(Byte)
  PROVE  key # p \o r
<1>1. LexLess(p \o r, NamespaceUpperBound(p)) /\ ~ LexLess(p \o r, p)
  BY PrefixIsBelow
<1> QED BY <1>1 DEF Outside


LEMMA TrimPrefix ==
  ASSUME NEW p \in Seq(Byte), NEW r \in Seq(Byte)
  PROVE  p \o r \in Seq(Byte) /\ Trim(p, p \o r) = r
<1> HIDE DEF Byte
<1>1. p \o r \in Seq(Byte) /\ SubSeq(p \o r, Len(p) + 1, Len(p \o r)) = r
  OBVIOUS
<1> QED BY <1>1 DEF Trim

(* The entries of maps, each with the names its map lies under and the key  *)
(* it has there.  Maps lie under names that part.                           *)
CellOf(e) == Cell(LengthPrefixed(e.map) \o e.key, e.value)
Placed(E) == {CellOf(e) : e \in E}
Group(E, S) == {Cell(e.key, e.value) : e \in {f \in E : f.map = S}}

Laid(E) ==
  /\ \A e \in E : e.map \in Seq(Name) /\ e.map # <<>> /\ e.key \in Seq(Byte)
  /\ \A e, f \in E : e.map # f.map => Parted(e.map, f.map)
  /\ \A e, f \in E : e.map = f.map /\ e.key = f.key => e.value = f.value

Elsewhere(E, S) ==
  /\ S \in Seq(Name) /\ S # <<>>
  /\ \A e \in E : e.map # S => Parted(S, e.map)

LEMMA CellParts ==
  ASSUME NEW key, NEW value
  PROVE  Cell(key, value).key = key /\ Cell(key, value).value = value
BY DEF Cell

LEMMA PlacedInside ==
  ASSUME NEW E, Laid(E), NEW S, Elsewhere(E, S), NEW e \in E
  PROVE  /\ CellOf(e).key \in Seq(Byte) /\ CellOf(e).value = e.value
         /\ e.map = S => /\ CellOf(e).key = LengthPrefixed(S) \o e.key
                         /\ Trim(LengthPrefixed(S), CellOf(e).key) = e.key
         /\ e.map # S => Outside(CellOf(e).key, LengthPrefixed(S))
<1>1. e.map \in Seq(Name) /\ e.key \in Seq(Byte) /\ S \in Seq(Name) /\ S # <<>>
  BY DEF Laid, Elsewhere
<1>2. /\ LengthPrefixed(e.map) \in Seq(Byte)
      /\ LengthPrefixed(S) \in Seq(Byte) /\ Bounded(LengthPrefixed(S))
  BY <1>1, PrefixedBounded
<1>3. CellOf(e).key = LengthPrefixed(e.map) \o e.key /\ CellOf(e).value = e.value
  BY DEF CellOf, Cell
<1>4. LengthPrefixed(e.map) \o e.key \in Seq(Byte)
  BY <1>1, <1>2, TrimPrefix
<1>5. e.map = S => Trim(LengthPrefixed(S), LengthPrefixed(S) \o e.key) = e.key
  BY <1>1, <1>2, TrimPrefix
<1>6. ASSUME e.map # S PROVE Outside(LengthPrefixed(e.map) \o e.key, LengthPrefixed(S))
  <2>1. Parted(S, e.map)
    BY <1>6 DEF Elsewhere
  <2> QED BY <1>1, <2>1, PartedIsOutside
<1> QED BY <1>3, <1>4, <1>5, <1>6

(* What a range under the names of a map gives: the entries of that map.    *)
LEMMA RangeOfMap ==
  ASSUME NEW E, Laid(E), NEW S, Elsewhere(E, S),
         NEW extra, \A c \in extra : c.key \in Seq(Byte) /\ Outside(c.key, LengthPrefixed(S)),
         NEW cells, cells = extra \cup Placed(E),
         NEW start, NEW s \in Seq(Byte),
         CalcStartBound(LengthPrefixed(S), start) = LengthPrefixed(S) \o s
  PROVE  RangeWithPrefix(cells, LengthPrefixed(S), start, NoBound)
           = InKeyOrder(From(Group(E, S), s))
<1> DEFINE p == LengthPrefixed(S)
           trimmed(c) == [key |-> Trim(p, c.key), value |-> c.value]
           under == {d \in cells : \E r \in Seq(Byte) : d.key = p \o r}
<1>1. p \in Seq(Byte) /\ Bounded(p)
  BY PrefixedBounded DEF Elsewhere
<1>2. ASSUME NEW c \in cells, c \notin extra PROVE \E e \in E : c = CellOf(e)
  BY <1>2 DEF Placed
<1>3. ASSUME NEW c \in cells PROVE c.key \in Seq(Byte)
  <2>1. CASE c \in extra
    BY <2>1
  <2>2. CASE c \notin extra
    BY <1>2, <2>2, PlacedInside
  <2> QED BY <2>1, <2>2
<1>4. Apart(cells, p)
  <2> SUFFICES ASSUME NEW c \in cells
               PROVE  (\E r \in Seq(Byte) : c.key = p \o r) \/ Outside(c.key, p)
    BY DEF Apart, Outside
  <2>1. CASE c \in extra
    BY <2>1
  <2>2. CASE c \notin extra
    <3>1. PICK e \in E : c = CellOf(e)
      BY <1>2, <2>2
    <3>2. e.key \in Seq(Byte)
      BY DEF Laid
    <3>3. e.map = S => CellOf(e).key = p \o e.key
      BY PlacedInside
    <3>4. e.map # S => Outside(CellOf(e).key, p)
      BY PlacedInside
    <3> QED BY <3>1, <3>2, <3>3, <3>4
  <2> QED BY <2>1, <2>2
<1>5. Inside(cells, p) = Group(E, S)
  <2>1. Inside(cells, p) = {trimmed(c) : c \in under}
    BY DEF Inside
  <2>2. ASSUME NEW e \in E, e.map = S
        PROVE  CellOf(e) \in under /\ trimmed(CellOf(e)) = Cell(e.key, e.value)
    <3>1. CellOf(e).key = p \o e.key /\ Trim(p, CellOf(e).key) = e.key /\ CellOf(e).value = e.value
      BY <2>2, PlacedInside
    <3>2. e.key \in Seq(Byte) /\ CellOf(e) \in cells
      BY DEF Laid, Placed
    <3> QED BY <3>1, <3>2 DEF Cell
  <2>3. ASSUME NEW c \in under PROVE \E e \in E : e.map = S /\ c = CellOf(e)
    <3>1. ~ Outside(c.key, p)
      BY <1>1, OutsideIsElsewhere
    <3>2. c \notin extra
      BY <3>1
    <3>3. PICK e \in E : c = CellOf(e)
      BY <1>2, <3>2
    <3> QED BY <3>1, <3>3, PlacedInside
  <2>4. Group(E, S) = {Cell(e.key, e.value) : e \in {f \in E : f.map = S}}
    BY DEF Group
  <2> HIDE DEF under, trimmed, p
  <2>5. ASSUME NEW x \in Inside(cells, p) PROVE x \in Group(E, S)
    <3>1. PICK c \in under : x = trimmed(c)
      BY <2>1
    <3>2. PICK e \in E : e.map = S /\ c = CellOf(e)
      BY <2>3
    <3>3. x = Cell(e.key, e.value)
      BY <2>2, <3>1, <3>2
    <3> QED BY <2>4, <3>2, <3>3
  <2>6. ASSUME NEW x \in Group(E, S) PROVE x \in Inside(cells, p)
    <3>1. PICK e \in E : e.map = S /\ x = Cell(e.key, e.value)
      BY <2>4
    <3> QED BY <2>1, <2>2, <3>1
  <2> QED BY <2>5, <2>6
<1>6. \A c \in cells : c.key \in Seq(Byte)
  BY <1>3
<1> QED BY <1>1, <1>4, <1>5, <1>6, RangeFrom

(* No two cells share a raw key.                                            *)
LEMMA PlacedKeys ==
  ASSUME NEW E, Laid(E),
         NEW extra, \A c, d \in extra : c = d,
         \A c \in extra, e \in E : Outside(c.key, LengthPrefixed(e.map)),
         NEW c \in extra \cup Placed(E), NEW d \in extra \cup Placed(E), c.key = d.key
  PROVE  c = d
<1>1. ASSUME NEW e \in E
      PROVE  /\ CellOf(e).key = LengthPrefixed(e.map) \o e.key
             /\ LengthPrefixed(e.map) \in Seq(Byte) /\ Bounded(LengthPrefixed(e.map))
             /\ e.key \in Seq(Byte)
             /\ Trim(LengthPrefixed(e.map), CellOf(e).key) = e.key
  <2>1. e.map \in Seq(Name) /\ e.map # <<>> /\ e.key \in Seq(Byte)
    BY DEF Laid
  <2>2. LengthPrefixed(e.map) \in Seq(Byte) /\ Bounded(LengthPrefixed(e.map))
    BY <2>1, PrefixedBounded
  <2>3. Trim(LengthPrefixed(e.map), LengthPrefixed(e.map) \o e.key) = e.key
    BY <2>1, <2>2, TrimPrefix
  <2>4. CellOf(e).key = LengthPrefixed(e.map) \o e.key
    BY DEF CellOf, Cell
  <2> QED BY <2>1, <2>2, <2>3, <2>4
<1>2. ASSUME NEW x \in extra, NEW e \in E PROVE x.key # CellOf(e).key
  <2> DEFINE p == LengthPrefixed(e.map)
  <2>1. p \in Seq(Byte) /\ Bounded(p) /\ e.key \in Seq(Byte) /\ Outside(x.key, p)
    BY <1>1
  <2>2. CellOf(e).key = p \o e.key
    BY <1>1
  <2> HIDE DEF p
  <2>3. x.key # p \o e.key
    BY <2>1, OutsideIsElsewhere
  <2> QED BY <2>2, <2>3
<1>3. ASSUME NEW e \in E, NEW f \in E, CellOf(e).key = CellOf(f).key PROVE CellOf(e) = CellOf(f)
  <2>1. CASE e.map = f.map
    <3>1. Trim(LengthPrefixed(e.map), CellOf(e).key) = e.key
      BY <1>1
    <3>2. Trim(LengthPrefixed(f.map), CellOf(f).key) = f.key
      BY <1>1
    <3>3. e.key = f.key
      BY <1>3, <2>1, <3>1, <3>2
    <3>4. e.value = f.value
      BY <2>1, <3>3 DEF Laid
    <3> QED BY <2>1, <3>3, <3>4 DEF CellOf
  <2>2. CASE e.map # f.map
    <3>1. /\ e.map \in Seq(Name) /\ f.map \in Seq(Name) /\ Parted(f.map, e.map)
          /\ e.key \in Seq(Byte) /\ f.key \in Seq(Byte)
      BY <2>2 DEF Laid
    <3>2. Outside(LengthPrefixed(e.map) \o e.key, LengthPrefixed(f.map))
      BY <3>1, PartedIsOutside
    <3>3. CellOf(e).key # LengthPrefixed(f.map) \o f.key
      BY <1>1, <3>1, <3>2, OutsideIsElsewhere
    <3> QED BY <1>1, <1>3, <3>3
  <2> QED BY <2>1, <2>2
<1>4. \A x \in Placed(E) : \E e \in E : x = CellOf(e)
  BY DEF Placed
<1>5. CASE c \in extra /\ d \in extra
  BY <1>5
<1>6. CASE c \in extra /\ d \in Placed(E)
  BY <1>2, <1>4, <1>6
<1>7. CASE c \in Placed(E) /\ d \in extra
  BY <1>2, <1>4, <1>7
<1>8. CASE c \in Placed(E) /\ d \in Placed(E)
  BY <1>3, <1>4, <1>8
<1> QED BY <1>5, <1>6, <1>7, <1>8


-----------------------------------------------------------------------------
(* The cells of the stores of storage-plus *)

LEMMA LayoutNames ==
  /\ PkName \in Name /\ CheckpointsName \in Name /\ ChangelogName \in Name
  /\ MultiName \in Name /\ UniqueName \in Name
  /\ PkName # CheckpointsName /\ PkName # ChangelogName /\ PkName # MultiName
  /\ PkName # UniqueName /\ CheckpointsName # ChangelogName /\ CheckpointsName # MultiName
  /\ CheckpointsName # UniqueName /\ ChangelogName # MultiName /\ ChangelogName # UniqueName
  /\ MultiName # UniqueName
<1> DEFINE f == <<PkName, CheckpointsName, ChangelogName, MultiName, UniqueName>>
<1>1. {PkName, CheckpointsName, ChangelogName, MultiName, UniqueName} \subseteq Name
  BY SnapshotLayoutAssumption DEF SnapshotLayoutAssumption
<1>2. \A a, b \in DOMAIN f : f[a] = f[b] => a = b
  BY SnapshotLayoutAssumption DEF SnapshotLayoutAssumption, IsInjective
<1>3. /\ DOMAIN f = 1..5
      /\ f[1] = PkName /\ f[2] = CheckpointsName /\ f[3] = ChangelogName
      /\ f[4] = MultiName /\ f[5] = UniqueName
  OBVIOUS
<1> HIDE DEF f
<1>4. \A a, b \in 1..5 : f[a] = f[b] => a = b
  BY <1>2, <1>3
<1> QED BY <1>1, <1>3, <1>4

LEMMA LayoutSteps ==
  /\ \A k \in Keys : /\ KeySteps[k] \in Seq(Name) /\ KeySteps[k] # <<>>
                     /\ Steps(k) = KeySteps[k]
  /\ \A j, k \in Keys : Len(KeySteps[j]) = Len(KeySteps[k])
                        /\ (KeySteps[j] = KeySteps[k] => j = k)
  /\ Steps(Unit) = <<>>
  /\ \A b \in Buckets : BucketBytes[b] \in Name
  /\ \A a, b \in Buckets : BucketBytes[a] = BucketBytes[b] => a = b
  /\ \A t \in Tags : TagBytes[t] \in Bytes
  /\ \A t, u \in Tags : TagBytes[t] = TagBytes[u] => t = u
<1>1. /\ KeySteps \in [Keys -> Seq(Name)] /\ \A j, k \in DOMAIN KeySteps : KeySteps[j] = KeySteps[k] => j = k
      /\ \A j, k \in Keys : KeySteps[k] # <<>> /\ Len(KeySteps[j]) = Len(KeySteps[k])
  BY SnapshotLayoutAssumption DEF SnapshotLayoutAssumption, IsInjective
<1>2. /\ BucketBytes \in [Buckets -> Name]
      /\ \A a, b \in DOMAIN BucketBytes : BucketBytes[a] = BucketBytes[b] => a = b
  BY SnapshotLayoutAssumption DEF SnapshotLayoutAssumption, IsInjective
<1>3. /\ TagBytes \in [Tags -> Bytes]
      /\ \A t, u \in DOMAIN TagBytes : TagBytes[t] = TagBytes[u] => t = u
  BY SnapshotLayoutAssumption DEF SnapshotLayoutAssumption, IsInjective
<1>4. \A k \in Keys : k # Unit
  BY SnapshotsAssumption DEF SnapshotsAssumption
<1>5. /\ \A k \in Keys : KeySteps[k] \in Seq(Name) /\ KeySteps[k] # <<>> /\ Steps(k) = KeySteps[k]
      /\ Steps(Unit) = <<>>
  BY <1>1, <1>4 DEF Steps
<1>6. \A j, k \in Keys : Len(KeySteps[j]) = Len(KeySteps[k])
                         /\ (KeySteps[j] = KeySteps[k] => j = k)
  BY <1>1
<1>7. /\ \A b \in Buckets : BucketBytes[b] \in Name
      /\ \A a, b \in Buckets : BucketBytes[a] = BucketBytes[b] => a = b
  BY <1>2
<1>8. /\ \A t \in Tags : TagBytes[t] \in Bytes
      /\ \A t, u \in Tags : TagBytes[t] = TagBytes[u] => t = u
  BY <1>3
<1> QED BY <1>5, <1>6, <1>7, <1>8

(* Numbers up to the highest height have keys in their own order.           *)
LEMMA IntKeys ==
  ASSUME NEW h \in Heights
  PROVE  /\ IntKey(h) \in Seq(Byte)
         /\ \A g \in Heights : /\ LexLess(IntKey(g), IntKey(h)) <=> g < h
                               /\ IntKey(g) = IntKey(h) => g = h
<1>1. \A g \in Heights : g \in Nat /\ g < Radix * Radix
  <2>1. MaxHeight \in Nat /\ MaxHeight < Radix * Radix
    BY SnapshotsAssumption, SnapshotLayoutAssumption
    DEF SnapshotsAssumption, SnapshotLayoutAssumption
  <2>2. Radix * Radix \in Nat
    BY ByteNat
  <2> QED BY <2>1, <2>2 DEF Heights
<1>2. \A g \in Heights : /\ g \div Radix \in Byte /\ g % Radix \in Byte
                         /\ g = Radix * (g \div Radix) + (g % Radix)
  BY <1>1, DivMod
<1>3. \A g \in Heights : /\ IntKey(g) \in Seq(Byte) /\ Len(IntKey(g)) = 2
                         /\ IntKey(g)[1] = g \div Radix /\ IntKey(g)[2] = g % Radix
  <2> SUFFICES ASSUME NEW g \in Heights
               PROVE  /\ IntKey(g) \in Seq(Byte) /\ Len(IntKey(g)) = 2
                      /\ IntKey(g)[1] = g \div Radix /\ IntKey(g)[2] = g % Radix
    OBVIOUS
  <2> DEFINE q == g \div Radix
             r == g % Radix
  <2>1. q \in Byte /\ r \in Byte
    BY <1>2
  <2> HIDE DEF q, r
  <2>2. <<q, r>> \in Seq(Byte) /\ Len(<<q, r>>) = 2 /\ <<q, r>>[1] = q /\ <<q, r>>[2] = r
    BY <2>1
  <2> QED BY <2>2 DEF IntKey, q, r
<1>4. Radix \in Nat /\ Radix > 1 /\ \A c \in Byte : c \in Nat /\ c <= Radix - 1
  BY ByteNat
<1>5. ASSUME NEW g \in Heights, NEW c \in Heights, LexLess(IntKey(g), IntKey(c)) PROVE g < c
  <2> DEFINE a == IntKey(g)
             b == IntKey(c)
             p == g \div Radix
             q == c \div Radix
             u == g % Radix
             v == c % Radix
  <2>1. a \in Seq(Nat) /\ b \in Seq(Nat)
    BY <1>3, ByteNat
  <2>2. PICK i \in 1..Len(b) : LessAt(a, b, i)
    <3> HIDE DEF a, b
    <3>1. LexLess(a, b)
      BY <1>5 DEF a, b
    <3> QED BY <2>1, <3>1, LessIsLessAt
  <2>3. Len(a) = 2 /\ Len(b) = 2 /\ a[1] = p /\ a[2] = u /\ b[1] = q /\ b[2] = v
    BY <1>3
  <2>4. /\ p \in Nat /\ q \in Nat /\ u \in Nat /\ v \in Nat /\ u <= Radix - 1
        /\ g = Radix * p + u /\ c = Radix * q + v
    BY <1>2, <1>4
  <2> HIDE DEF a, b, p, q, u, v
  <2>5. p < q \/ (p = q /\ u < v)
    BY <2>2, <2>3 DEF LessAt
  <2>6. CASE p < q
    <3> DEFINE e == (q - p) - 1
    <3>1. e \in Nat /\ q = (p + 1) + e
      BY <2>4, <2>6
    <3> HIDE DEF e
    <3>2. Radix * q = (Radix * p + Radix) + Radix * e /\ Radix * e \in Nat /\ Radix * p \in Nat
      BY <1>4, <2>4, <3>1
    <3> QED BY <1>4, <2>4, <3>2
  <2>7. CASE p = q /\ u < v
    <3>1. Radix * p \in Nat
      BY <1>4, <2>4
    <3> QED BY <2>4, <2>7, <3>1
  <2> QED BY <2>5, <2>6, <2>7
<1>6. ASSUME NEW g \in Heights, IntKey(g) = IntKey(h) PROVE g = h
  <2>1. g \div Radix = h \div Radix /\ g % Radix = h % Radix
    BY <1>3, <1>6
  <2> QED BY <1>2, <2>1
<1>7. ASSUME NEW g \in Heights, g < h PROVE LexLess(IntKey(g), IntKey(h))
  <2>1. IntKey(g) \in Seq(Nat) /\ IntKey(h) \in Seq(Nat)
    BY <1>3, ByteNat
  <2>2. g \in Nat /\ h \in Nat
    BY <1>1
  <2>3. IntKey(g) # IntKey(h)
    BY <1>6, <1>7, <2>2
  <2>4. ~ LexLess(IntKey(h), IntKey(g))
    BY <1>5, <1>7, <2>2
  <2> QED BY <2>1, <2>3, <2>4, LexTotal
<1> QED BY <1>3, <1>5, <1>6, <1>7


(* Raw keys and prefixes are the names a map lies under and what follows.   *)
Named(name, steps) == <<name>> \o steps

LEMMA NamedLists ==
  ASSUME NEW name \in Name, NEW steps \in Seq(Name)
  PROVE  /\ Named(name, steps) \in Seq(Name) /\ Named(name, steps) # <<>>
         /\ Len(Named(name, steps)) = Len(steps) + 1
         /\ Named(name, steps)[1] = name
         /\ \A i \in 1..Len(steps) : Named(name, steps)[i + 1] = steps[i]
<1> HIDE DEF Name
<1>1. <<name>> \in Seq(Name) /\ Len(<<name>>) = 1 /\ <<name>>[1] = name
  OBVIOUS
<1>2. /\ <<name>> \o steps \in Seq(Name) /\ Len(<<name>> \o steps) = 1 + Len(steps)
      /\ \A i \in 1..1 + Len(steps) :
           (<<name>> \o steps)[i] = IF i <= 1 THEN name ELSE steps[i - 1]
  BY <1>1, ConcatProperties
<1>3. Len(steps) \in Nat
  OBVIOUS
<1> DEFINE l == <<name>> \o steps
<1> HIDE DEF l
<1>4. /\ l \in Seq(Name) /\ Len(l) = 1 + Len(steps)
      /\ \A i \in 1..1 + Len(steps) : l[i] = IF i <= 1 THEN name ELSE steps[i - 1]
  BY <1>2 DEF l
<1>5. l[1] = name /\ l # <<>>
  BY <1>3, <1>4
<1>6. ASSUME NEW i \in 1..Len(steps) PROVE l[i + 1] = steps[i]
  BY <1>3, <1>4
<1> QED BY <1>3, <1>4, <1>5, <1>6 DEF Named, l

LEMMA FrontOfAppend ==
  ASSUME NEW steps \in Seq(Bytes), NEW bytes \in Bytes
  PROVE  Front(Append(steps, bytes)) = steps /\ Last(Append(steps, bytes)) = bytes
<1> DEFINE l == Append(steps, bytes)
           n == Len(steps)
<1>1. steps \in Seq(Bytes) /\ n \in Nat
  BY DEF Name
<1>2. Len(l) = n + 1 /\ l[n + 1] = bytes /\ \A i \in 1..n : l[i] = steps[i]
  BY <1>1, AppendProperties
<1>3. l \in Seq(Bytes)
  BY <1>1, AppendProperties
<1> HIDE DEF l
<1>4. Last(l) = bytes
  BY <1>2 DEF Last
<1>5. Front(l) = steps
  <2>1. Front(l) = SubSeq(l, 1, n)
    <3>1. Len(l) - 1 = n
      BY <1>1, <1>2
    <3> QED BY <3>1 DEF Front
  <2>2. /\ SubSeq(l, 1, n) \in Seq(Bytes) /\ Len(SubSeq(l, 1, n)) = n
        /\ \A i \in 1..n : SubSeq(l, 1, n)[i] = l[i]
    <3>1. \A i \in 1..n : l[i] \in Bytes
      BY <1>1, <1>2
    <3>2. 1 \in Int /\ n \in Int /\ (n - 1) + 1 = n
      BY <1>1
    <3>3. /\ SubSeq(l, 1, n) \in Seq(Bytes)
          /\ Len(SubSeq(l, 1, n)) = IF 1 <= n THEN (n - 1) + 1 ELSE 0
          /\ \A i \in 1..(n - 1) + 1 : SubSeq(l, 1, n)[i] = l[(1 + i) - 1]
      BY <3>1, <3>2, SubSeqProperties
    <3>4. \A i \in 1..n : (1 + i) - 1 = i
      BY <1>1
    <3>5. Len(SubSeq(l, 1, n)) = n
      BY <1>1, <3>2, <3>3
    <3>6. ASSUME NEW i \in 1..n PROVE SubSeq(l, 1, n)[i] = l[i]
      BY <3>2, <3>3, <3>4
    <3> QED BY <3>3, <3>5, <3>6
  <2> DEFINE f == SubSeq(l, 1, n)
  <2> HIDE DEF f
  <2>3. f \in Seq(Bytes) /\ Len(f) = n /\ \A i \in 1..n : f[i] = steps[i]
    BY <1>2, <2>2 DEF f
  <2>4. f = steps
    BY <1>1, <2>3, SeqEqual
  <2> QED BY <2>1, <2>4 DEF f
<1> QED BY <1>4, <1>5 DEF l

LEMMA PathKeys ==
  ASSUME NEW name \in Name
  PROVE  /\ \A steps \in Seq(Name) : PrefixKey(name, steps) = LengthPrefixed(Named(name, steps))
         /\ \A steps \in Seq(Name), bytes \in Bytes :
              PathKey(name, Append(steps, bytes)) = LengthPrefixed(Named(name, steps)) \o bytes
         /\ \A steps \in Seq(Name) :
              steps # <<>> => PathKey(name, steps) = LengthPrefixed(Named(name, <<>>)) \o JoinedKey(steps)
<1>1. ASSUME NEW steps \in Seq(Name)
      PROVE  PrefixKey(name, steps) = LengthPrefixed(Named(name, steps))
  <2>1. LengthPrefixed(Named(name, steps)) \in Seq(Byte)
    BY NamedLists, PrefixedBounded
  <2>2. LengthPrefixed(Named(name, steps)) \o <<>> = LengthPrefixed(Named(name, steps))
    BY <2>1, ConcatEmptySeq
  <2> QED BY <2>2 DEF PrefixKey, NamespacesWithKey, Named
<1>2. ASSUME NEW steps \in Seq(Name), NEW bytes \in Bytes
      PROVE  /\ Front(Append(steps, bytes)) = steps /\ Last(Append(steps, bytes)) = bytes
             /\ PathKey(name, Append(steps, bytes)) = LengthPrefixed(Named(name, steps)) \o bytes
  <2>1. steps \in Seq(Bytes)
    BY DEF Name
  <2>2. Front(Append(steps, bytes)) = steps /\ Last(Append(steps, bytes)) = bytes
    BY <2>1, FrontOfAppend
  <2> QED BY <2>2 DEF PathKey, NamespacesWithKey, Named
<1>3. ASSUME NEW steps \in Seq(Name), steps # <<>>
      PROVE  PathKey(name, steps) = LengthPrefixed(Named(name, <<>>)) \o JoinedKey(steps)
  <2>1. PICK front \in Seq(Name), last \in Name : steps = Append(front, last)
    BY <1>3, SequenceEmptyOrAppend
  <2>2. last \in Bytes
    BY DEF Name
  <2>3. /\ PathKey(name, steps) = LengthPrefixed(Named(name, front)) \o last
        /\ JoinedKey(steps) = LengthPrefixed(front) \o last
    BY <1>2, <2>1, <2>2 DEF JoinedKey, NamespacesWithKey
  <2>4. <<name>> \in Seq(Name) /\ <<name>> \o <<>> = <<name>>
    OBVIOUS
  <2>5. LengthPrefixed(Named(name, front)) = LengthPrefixed(<<name>>) \o LengthPrefixed(front)
    BY <2>4, PrefixedConcat DEF Named
  <2>6. /\ LengthPrefixed(<<name>>) \in Seq(Byte) /\ LengthPrefixed(front) \in Seq(Byte)
        /\ last \in Seq(Byte)
    BY <2>2, <2>4, PrefixedBounded DEF Bytes
  <2>7. (LengthPrefixed(<<name>>) \o LengthPrefixed(front)) \o last
          = LengthPrefixed(<<name>>) \o (LengthPrefixed(front) \o last)
    BY <2>6, ConcatAssociative
  <2> QED BY <2>3, <2>4, <2>5, <2>7 DEF Named
<1> QED BY <1>1, <1>2, <1>3

LEMMA TupleOfTwo ==
  ASSUME NEW steps \in Seq(Bytes), NEW bytes \in Bytes
  PROVE  TupleSteps(<<steps, OneStep(bytes)>>) = Append(steps, bytes)
<1> DEFINE one == <<bytes>>
           parts == <<steps>>
<1>1. /\ one \in Seq(Bytes) /\ parts \in Seq(Seq(Bytes)) /\ <<>> \in Seq(Seq(Bytes))
      /\ Append(<<>>, steps) = parts /\ Append(parts, one) = <<steps, one>>
  <2>1. one \in Seq(Bytes)
    OBVIOUS
  <2> HIDE DEF one
  <2>2. parts \in Seq(Seq(Bytes)) /\ <<>> \in Seq(Seq(Bytes))
    OBVIOUS
  <2>3. Append(<<>>, steps) = parts /\ Append(parts, one) = <<steps, one>>
    <3>1. Append(<<>>, steps) = <<steps>>
      OBVIOUS
    <3>2. Append(<<steps>>, one) = <<steps, one>>
      <4> DEFINE l == Append(<<steps>>, one)
                 m == <<steps, one>>
      <4>1. /\ l \in Seq(Seq(Bytes)) /\ Len(l) = Len(<<steps>>) + 1
            /\ \A i \in 1..Len(<<steps>>) : l[i] = <<steps>>[i]
            /\ l[Len(<<steps>>) + 1] = one
        BY <2>1, <2>2, AppendProperties
      <4>2. Len(<<steps>>) = 1 /\ <<steps>>[1] = steps
        OBVIOUS
      <4>3. m \in Seq(Seq(Bytes)) /\ Len(m) = 2 /\ m[1] = steps /\ m[2] = one
        BY <2>1
      <4> HIDE DEF l, m
      <4>4. Len(l) = 2 /\ l[1] = steps /\ l[2] = one
        BY <4>1, <4>2
      <4>5. \A i \in 1..2 : l[i] = m[i]
        BY <4>3, <4>4
      <4>6. l = m
        BY <4>1, <4>3, <4>4, <4>5, SeqEqual, SMTT(20)
      <4> QED BY <4>6 DEF l, m
    <3> QED BY <3>1, <3>2
  <2> QED BY <2>1, <2>2, <2>3
<1>2. FlattenSeq(parts) = FlattenSeq(<<>>) \o steps
  BY <1>1, FlattenAppend
<1>3. <<>> \o steps = steps
  BY ConcatEmptySeq
<1>4. FlattenSeq(parts) = steps
  BY <1>2, <1>3, FlattenEmpty
<1>5. FlattenSeq(<<steps, one>>) = steps \o one
  <2> HIDE DEF one, parts
  <2>1. FlattenSeq(Append(parts, one)) = FlattenSeq(parts) \o one
    BY <1>1, FlattenAppend
  <2> QED BY <1>1, <1>4, <2>1
<1>6. steps \o one = Append(steps, bytes)
  BY AppendIsConcat
<1> QED BY <1>5, <1>6 DEF TupleSteps, OneStep

(* The joined key of a row tells its steps: those of another row differ.    *)
LEMMA JoinedApart ==
  ASSUME NEW s \in Seq(Name), NEW t \in Seq(Name), s # <<>>, Len(s) = Len(t),
         JoinedKey(s) = JoinedKey(t)
  PROVE  s = t /\ JoinedKey(s) \in Seq(Byte)
<1>1. t # <<>>
  OBVIOUS
<1>2. PICK f \in Seq(Name), x \in Name : s = Append(f, x)
  BY SequenceEmptyOrAppend
<1>3. PICK g \in Seq(Name), y \in Name : t = Append(g, y)
  BY <1>1, SequenceEmptyOrAppend
<1>4. Len(f) = Len(g)
  <2>1. Len(Append(f, x)) = Len(f) + 1 /\ Len(Append(g, y)) = Len(g) + 1
    BY AppendProperties
  <2>2. Len(f) \in Nat /\ Len(g) \in Nat
    OBVIOUS
  <2> QED BY <1>2, <1>3, <2>1, <2>2
<1>5. ASSUME NEW front \in Seq(Name), NEW last \in Name
      PROVE  /\ JoinedKey(Append(front, last)) = LengthPrefixed(front) \o last
             /\ LengthPrefixed(front) \in Seq(Byte) /\ last \in Seq(Byte)
             /\ LengthPrefixed(front) \o last \in Seq(Byte)
             /\ Trim(LengthPrefixed(front), LengthPrefixed(front) \o last) = last
  <2>1. Front(Append(front, last)) = front /\ Last(Append(front, last)) = last
    <3>1. front \in Seq(Bytes) /\ last \in Bytes
      BY DEF Name
    <3> QED BY <3>1, FrontOfAppend
  <2>2. LengthPrefixed(front) \in Seq(Byte) /\ last \in Seq(Byte)
    BY PrefixedBounded DEF Name, Bytes
  <2> QED BY <2>1, <2>2, TrimPrefix DEF JoinedKey, NamespacesWithKey
<1>6. LengthPrefixed(f) \o x = LengthPrefixed(g) \o y
  <2>1. JoinedKey(s) = LengthPrefixed(f) \o x
    BY <1>2, <1>5
  <2>2. JoinedKey(t) = LengthPrefixed(g) \o y
    BY <1>3, <1>5
  <2> QED BY <2>1, <2>2
<1>7. CASE f = g
  <2>1. x = y
    BY <1>5, <1>6, <1>7, ZenonT(30)
  <2> QED BY <1>2, <1>3, <1>5, <1>7, <2>1, ZenonT(30)
<1>8. CASE f # g
  <2>1. Parted(g, f)
    <3>1. PICK i \in 1..Len(f) : f[i] # g[i]
      <4> SUFFICES ASSUME \A i \in 1..Len(f) : f[i] = g[i] PROVE FALSE
        OBVIOUS
      <4> QED BY <1>4, <1>8, SeqEqual
    <3> QED BY <1>4, <3>1 DEF Parted
  <2>2. Outside(LengthPrefixed(f) \o x, LengthPrefixed(g))
    BY <1>5, <2>1, PartedIsOutside
  <2>3. Bounded(LengthPrefixed(g)) /\ LengthPrefixed(g) \in Seq(Byte) /\ y \in Seq(Byte)
    <3>1. g # <<>>
      BY <2>1 DEF Parted
    <3> QED BY <1>5, <3>1, PrefixedBounded
  <2>4. LengthPrefixed(f) \o x # LengthPrefixed(g) \o y
    BY <2>2, <2>3, OutsideIsElsewhere
  <2> QED BY <1>6, <2>4
<1> QED BY <1>7, <1>8


(* A store has the rows, records and index entries of its form, and rows of *)
(* finitely many keys.                                                      *)
OfTheForm ==
  /\ form = "item" =>
       \A k \in Keys : primary[k] = Absent /\ \A h \in Heights : ~ HasChangelog(k, h)
  /\ form # "item" => primary[Unit] = Absent /\ \A h \in Heights : ~ HasChangelog(Unit, h)
  /\ form # "indexed" => multi = {} /\ \A t \in Tags : unique[t] = Absent

FewRows ==
  \E K \in SUBSET AllKeys : IsFiniteSet(K) /\ \A k \in AllKeys \ K : primary[k] = Absent

LayoutInv == IndexInv /\ OfTheForm /\ FewRows

EntryAt(names, key, value) == [map |-> names, key |-> key, value |-> value]

RowEntry(k) == EntryAt(Named(PkName, <<>>), JoinedKey(Steps(k)), <<"row", primary[k]>>)
CheckpointEntry(h) == EntryAt(Named(CheckpointsName, <<>>), IntKey(h), <<"count", checkpoints[h]>>)
ChangeEntry(k, h) == EntryAt(Named(ChangelogName, Steps(k)), IntKey(h), <<"old", changelog[k][h]>>)
BucketEntry(b, k) ==
  EntryAt(Named(MultiName, <<BucketBytes[b]>>), JoinedKey(Steps(k)),
        <<"length", Len(JoinedKey(Steps(k)))>>)
TagEntry(t) ==
  EntryAt(Named(UniqueName, <<>>), TagBytes[t], <<"ref", unique[t].pk, unique[t].value>>)

Marked == {h \in Heights : checkpoints[h] > 0}
Changes == {e \in AllKeys \X Heights : HasChangelog(e[1], e[2])}
Taken == {t \in Tags : unique[t] # Absent}

RowEntries == {RowEntry(k) : k \in Rows}
CheckpointEntries == {CheckpointEntry(h) : h \in Marked}
ChangeEntries == {ChangeEntry(e[1], e[2]) : e \in Changes}
BucketEntries == {BucketEntry(e[1], e[2]) : e \in multi}
TagEntries == {TagEntry(t) : t \in Taken}

Entries == RowEntries \cup CheckpointEntries \cup ChangeEntries \cup BucketEntries \cup TagEntries

ItemCells == {c \in {Cell(PkName, <<"row", primary[Unit]>>)} : primary[Unit] # Absent}

LaidKeys == IF form = "item" THEN {Unit} ELSE Keys

LEMMA LaidTypes ==
  ASSUME LayoutInv
  PROVE  /\ \A e \in Changes : e[1] \in LaidKeys /\ e[2] \in Heights
         /\ \A e \in multi : /\ e[1] \in Buckets /\ e[2] \in Rows /\ primary[e[2]] \in Values
                             /\ BucketOf[primary[e[2]]] = e[1]
         /\ \A k \in Rows : form # "item" /\ k \in Keys
         /\ \A k \in LaidKeys : Steps(k) \in Seq(Name)
         /\ \A j, k \in LaidKeys : Len(Steps(j)) = Len(Steps(k)) /\ (Steps(j) = Steps(k) => j = k)
         /\ \A k \in Keys : /\ Steps(k) \in Seq(Name) /\ Steps(k) # <<>>
                            /\ JoinedKey(Steps(k)) \in Seq(Byte)
         /\ \A j, k \in Keys : JoinedKey(Steps(j)) = JoinedKey(Steps(k)) => j = k
<1>1. \A e \in Changes : e[1] \in LaidKeys /\ e[2] \in Heights
  <2> SUFFICES ASSUME NEW e \in Changes PROVE e[1] \in LaidKeys /\ e[2] \in Heights
    OBVIOUS
  <2>1. e[1] \in AllKeys /\ e[2] \in Heights /\ HasChangelog(e[1], e[2])
    BY DEF Changes
  <2> QED BY <2>1 DEF LayoutInv, OfTheForm, AllKeys, LaidKeys
<1>2. \A k \in Rows : form # "item" /\ k \in Keys
  BY DEF Rows, LayoutInv, OfTheForm
<1>3. ASSUME NEW e \in multi
      PROVE  /\ e[1] \in Buckets /\ e[2] \in Rows /\ primary[e[2]] \in Values
             /\ BucketOf[primary[e[2]]] = e[1]
  <2>1. form = "indexed"
    BY DEF LayoutInv, OfTheForm
  <2>2. e \in Buckets \X AllKeys /\ primary \in [AllKeys -> Maybe]
    BY DEF LayoutInv, IndexInv, SnapshotsTypeOK
  <2>3. e = <<e[1], e[2]>> /\ e[1] \in Buckets /\ e[2] \in AllKeys
    BY <2>2
  <2>4. primary[e[2]] # Absent /\ BucketOf[primary[e[2]]] = e[1]
    BY <2>1, <2>3 DEF LayoutInv, IndexInv, BucketsAreRows
  <2>5. e[2] # Unit
    BY <2>1, <2>4 DEF LayoutInv, OfTheForm
  <2> QED BY <2>2, <2>3, <2>4, <2>5 DEF AllKeys, Rows, Maybe
<1>4. \A k \in Keys : Steps(k) \in Seq(Name) /\ Steps(k) # <<>>
  BY LayoutSteps
<1>5. \A j, k \in Keys : Len(Steps(j)) = Len(Steps(k)) /\ (Steps(j) = Steps(k) => j = k)
  BY LayoutSteps
<1>6. ASSUME NEW k \in Keys PROVE JoinedKey(Steps(k)) \in Seq(Byte)
  BY <1>4, JoinedApart
<1>7. ASSUME NEW j \in Keys, NEW k \in Keys, JoinedKey(Steps(j)) = JoinedKey(Steps(k)) PROVE j = k
  <2>1. Steps(j) = Steps(k)
    BY <1>4, <1>5, <1>7, JoinedApart
  <2> QED BY <1>5, <2>1
<1>8. /\ \A k \in LaidKeys : Steps(k) \in Seq(Name)
      /\ \A j, k \in LaidKeys : Len(Steps(j)) = Len(Steps(k)) /\ (Steps(j) = Steps(k) => j = k)
  <2>1. CASE form = "item"
    BY <2>1, LayoutSteps DEF LaidKeys
  <2>2. CASE form # "item"
    BY <1>4, <1>5, <2>2 DEF LaidKeys
  <2> QED BY <2>1, <2>2
<1> QED BY <1>1, <1>2, <1>3, <1>4, <1>6, <1>7, <1>8

LEMMA PlacedEntry ==
  ASSUME NEW names, NEW key, NEW value
  PROVE  CellOf(EntryAt(names, key, value)) = Cell(LengthPrefixed(names) \o key, value)
BY DEF CellOf, EntryAt, Cell

LEMMA OneStepPath ==
  ASSUME NEW name \in Name, NEW bytes \in Bytes
  PROVE  PathKey(name, OneStep(bytes)) = LengthPrefixed(Named(name, <<>>)) \o bytes
<1>1. <<>> \in Seq(Name) /\ Append(<<>>, bytes) = <<bytes>>
  OBVIOUS
<1> QED BY <1>1, PathKeys DEF OneStep

(* The cells are those of the entries, besides the row of an item.          *)
LEMMA CellsArePlaced ==
  ASSUME LayoutInv
  PROVE  Cells = ItemCells \cup Placed(Entries)
<1>1. PrimaryCells = ItemCells \cup Placed(RowEntries)
  <2>1. ASSUME NEW k \in Keys
        PROVE  Cell(RowKey(k), <<"row", primary[k]>>) = CellOf(RowEntry(k))
    <3>1. k # Unit
      BY SnapshotsAssumption DEF SnapshotsAssumption
    <3>2. RowKey(k) = LengthPrefixed(Named(PkName, <<>>)) \o JoinedKey(Steps(k))
      BY <3>1, LaidTypes, LayoutNames, PathKeys DEF RowKey
    <3> QED BY <3>2, PlacedEntry DEF RowEntry
  <2>2. RowKey(Unit) = PkName
    BY DEF RowKey
  <2>3. ASSUME NEW c \in PrimaryCells PROVE c \in ItemCells \cup Placed(RowEntries)
    <3>1. PICK k \in AllKeys : primary[k] # Absent /\ c = Cell(RowKey(k), <<"row", primary[k]>>)
      BY DEF PrimaryCells
    <3>2. CASE k = Unit
      BY <2>2, <3>1, <3>2 DEF ItemCells
    <3>3. CASE k \in Keys
      BY <2>1, <3>1, <3>3 DEF Placed, RowEntries, Rows
    <3> QED BY <3>2, <3>3 DEF AllKeys
  <2>4. ASSUME NEW c \in ItemCells PROVE c \in PrimaryCells
    BY <2>2 DEF ItemCells, PrimaryCells, AllKeys
  <2>5. ASSUME NEW c \in Placed(RowEntries) PROVE c \in PrimaryCells
    <3>1. PICK k \in Rows : c = CellOf(RowEntry(k))
      BY DEF Placed, RowEntries
    <3> QED BY <2>1, <3>1 DEF Rows, PrimaryCells, AllKeys
  <2> QED BY <2>3, <2>4, <2>5
<1>2. CheckpointCells = Placed(CheckpointEntries)
  <2>1. ASSUME NEW h \in Heights
        PROVE  Cell(PathKey(CheckpointsName, OneStep(IntKey(h))), <<"count", checkpoints[h]>>)
                 = CellOf(CheckpointEntry(h))
    <3>1. IntKey(h) \in Bytes
      BY IntKeys DEF Bytes
    <3>2. PathKey(CheckpointsName, OneStep(IntKey(h)))
            = LengthPrefixed(Named(CheckpointsName, <<>>)) \o IntKey(h)
      BY <3>1, LayoutNames, OneStepPath
    <3> QED BY <3>2, PlacedEntry DEF CheckpointEntry
  <2> QED BY <2>1 DEF CheckpointCells, Placed, CheckpointEntries, Marked
<1>3. ChangelogCells = Placed(ChangeEntries)
  <2> DEFINE cell(e) ==
        Cell(PathKey(ChangelogName, TupleSteps(<<Steps(e[1]), OneStep(IntKey(e[2]))>>)),
             <<"old", changelog[e[1]][e[2]]>>)
  <2>1. ASSUME NEW e \in Changes PROVE cell(e) = CellOf(ChangeEntry(e[1], e[2]))
    <3>1. Steps(e[1]) \in Seq(Name) /\ e[2] \in Heights
      BY LaidTypes
    <3>2. IntKey(e[2]) \in Bytes /\ Steps(e[1]) \in Seq(Bytes)
      BY <3>1, IntKeys DEF Bytes, Name
    <3>3. TupleSteps(<<Steps(e[1]), OneStep(IntKey(e[2]))>>) = Append(Steps(e[1]), IntKey(e[2]))
      BY <3>2, TupleOfTwo
    <3>4. PathKey(ChangelogName, Append(Steps(e[1]), IntKey(e[2])))
            = LengthPrefixed(Named(ChangelogName, Steps(e[1]))) \o IntKey(e[2])
      BY <3>1, <3>2, LayoutNames, PathKeys
    <3> QED BY <3>3, <3>4, PlacedEntry DEF ChangeEntry
  <2>2. ChangelogCells = {cell(e) : e \in Changes}
    BY DEF ChangelogCells, Changes
  <2> HIDE DEF cell
  <2> QED BY <2>1, <2>2 DEF Placed, ChangeEntries
<1>4. MultiCells = Placed(BucketEntries)
  <2> DEFINE pk(k) == JoinedKey(Steps(k))
             cell(e) ==
               Cell(PathKey(MultiName, TupleSteps(<<OneStep(BucketBytes[e[1]]), OneStep(pk(e[2]))>>)),
                    <<"length", Len(pk(e[2]))>>)
  <2>1. ASSUME NEW e \in multi PROVE cell(e) = CellOf(BucketEntry(e[1], e[2]))
    <3> DEFINE b == BucketBytes[e[1]]
               p == pk(e[2])
    <3>1. b \in Name /\ p \in Seq(Byte)
      BY LaidTypes, LayoutSteps
    <3> HIDE DEF b, p
    <3>2. b \in Bytes /\ p \in Bytes /\ <<b>> \in Seq(Name) /\ <<b>> \in Seq(Bytes)
      <4>1. b \in Bytes /\ p \in Bytes
        BY <3>1 DEF Name, Bytes
      <4> QED BY <3>1, <4>1
    <3>3. TupleSteps(<<OneStep(b), OneStep(p)>>) = Append(<<b>>, p)
      BY <3>2, TupleOfTwo DEF OneStep
    <3>4. PathKey(MultiName, Append(<<b>>, p)) = LengthPrefixed(Named(MultiName, <<b>>)) \o p
      BY <3>2, LayoutNames, PathKeys
    <3>5. Cell(PathKey(MultiName, TupleSteps(<<OneStep(b), OneStep(p)>>)), <<"length", Len(p)>>)
            = CellOf(EntryAt(Named(MultiName, <<b>>), p, <<"length", Len(p)>>))
      BY <3>3, <3>4, PlacedEntry
    <3> QED BY <3>5 DEF BucketEntry, b, p
  <2>2. MultiCells = {cell(e) : e \in multi}
    BY DEF MultiCells
  <2> HIDE DEF cell
  <2> QED BY <2>1, <2>2 DEF Placed, BucketEntries
<1>5. UniqueCells = Placed(TagEntries)
  <2>1. ASSUME NEW t \in Tags
        PROVE  Cell(PathKey(UniqueName, OneStep(TagBytes[t])), <<"ref", unique[t].pk, unique[t].value>>)
                 = CellOf(TagEntry(t))
    <3>1. PathKey(UniqueName, OneStep(TagBytes[t]))
            = LengthPrefixed(Named(UniqueName, <<>>)) \o TagBytes[t]
      BY LayoutNames, LayoutSteps, OneStepPath
    <3> QED BY <3>1, PlacedEntry DEF TagEntry
  <2> QED BY <2>1 DEF UniqueCells, Placed, TagEntries, Taken
<1>6. Placed(Entries) = Placed(RowEntries) \cup Placed(CheckpointEntries) \cup Placed(ChangeEntries)
                          \cup Placed(BucketEntries) \cup Placed(TagEntries)
  BY DEF Placed, Entries
<1> QED BY <1>1, <1>2, <1>3, <1>4, <1>5, <1>6 DEF Cells


(* The names the maps of a store lie under.                                 *)
Under(name, steps) ==
  \/ name \in {PkName, CheckpointsName, UniqueName} /\ steps = <<>>
  \/ name = ChangelogName /\ \E k \in LaidKeys : steps = Steps(k)
  \/ name = MultiName /\ \E b \in Buckets : steps = <<BucketBytes[b]>>

IsMap(S) == \E name \in Name, steps \in Seq(Name) : Under(name, steps) /\ S = Named(name, steps)

LEMMA UnderSame ==
  ASSUME LayoutInv, NEW name \in Name, NEW s, NEW t, Under(name, s), Under(name, t)
  PROVE  Len(s) = Len(t)
<1>1. \A b \in Buckets : Len(<<BucketBytes[b]>>) = 1
  OBVIOUS
<1>2. \A j, k \in LaidKeys : Len(Steps(j)) = Len(Steps(k))
  BY LaidTypes
<1> QED BY <1>1, <1>2, LayoutNames DEF Under

LEMMA NamedSame ==
  ASSUME NEW n \in Name, NEW m \in Name, NEW s \in Seq(Name), NEW t \in Seq(Name),
         Named(n, s) = Named(m, t)
  PROVE  n = m /\ s = t
<1> DEFINE a == Named(n, s)
           b == Named(m, t)
<1>1. /\ Len(a) = Len(s) + 1 /\ a[1] = n /\ \A i \in 1..Len(s) : a[i + 1] = s[i]
      /\ Len(b) = Len(t) + 1 /\ b[1] = m /\ \A i \in 1..Len(t) : b[i + 1] = t[i]
  BY NamedLists
<1>2. a = b /\ Len(s) \in Nat /\ Len(t) \in Nat
  OBVIOUS
<1> HIDE DEF a, b
<1>3. n = m /\ Len(s) = Len(t)
  BY <1>1, <1>2
<1>4. \A i \in 1..Len(s) : s[i] = t[i]
  BY <1>1, <1>2, <1>3
<1> QED BY <1>3, <1>4, SeqEqual

LEMMA NamedParted ==
  ASSUME NEW n \in Name, NEW m \in Name, NEW s \in Seq(Name), NEW t \in Seq(Name),
         n # m \/ (s # t /\ Len(s) = Len(t))
  PROVE  Parted(Named(n, s), Named(m, t))
<1> DEFINE a == Named(n, s)
           b == Named(m, t)
<1>1. /\ Len(a) = Len(s) + 1 /\ a[1] = n /\ \A i \in 1..Len(s) : a[i + 1] = s[i]
      /\ Len(b) = Len(t) + 1 /\ b[1] = m /\ \A i \in 1..Len(t) : b[i + 1] = t[i]
  BY NamedLists
<1>2. Len(s) \in Nat /\ Len(t) \in Nat
  OBVIOUS
<1> HIDE DEF a, b
<1>3. CASE n # m
  <2>1. 1 \in 1..Len(a) /\ 1 <= Len(b) /\ a[1] # b[1]
    BY <1>1, <1>2, <1>3
  <2> QED BY <2>1 DEF Parted, a, b
<1>4. CASE s # t /\ Len(s) = Len(t)
  <2>1. PICK i \in 1..Len(s) : s[i] # t[i]
    <3> SUFFICES ASSUME \A i \in 1..Len(s) : s[i] = t[i] PROVE FALSE
      OBVIOUS
    <3> QED BY <1>4, SeqEqual
  <2>2. i + 1 \in 1..Len(a) /\ i + 1 <= Len(b) /\ a[i + 1] # b[i + 1]
    BY <1>1, <1>2, <1>4, <2>1
  <2> QED BY <2>2 DEF Parted, a, b
<1> QED BY <1>3, <1>4

LEMMA MapsPart ==
  ASSUME LayoutInv, NEW S, IsMap(S), NEW T, IsMap(T)
  PROVE  /\ S \in Seq(Name) /\ S # <<>>
         /\ S # T => Parted(S, T)
<1>1. PICK n \in Name, s \in Seq(Name) : Under(n, s) /\ S = Named(n, s)
  BY DEF IsMap
<1>2. PICK m \in Name, t \in Seq(Name) : Under(m, t) /\ T = Named(m, t)
  BY DEF IsMap
<1>3. n = m => Len(s) = Len(t)
  BY <1>1, <1>2, UnderSame
<1>4. S # T => n # m \/ (s # t /\ Len(s) = Len(t))
  BY <1>1, <1>2, <1>3
<1>5. S # T => Parted(S, T)
  BY <1>1, <1>2, <1>4, NamedParted
<1> QED BY <1>1, <1>5, NamedLists

LEMMA LaidMaps ==
  ASSUME LayoutInv
  PROVE  /\ IsMap(Named(PkName, <<>>)) /\ IsMap(Named(CheckpointsName, <<>>))
         /\ IsMap(Named(UniqueName, <<>>))
         /\ \A k \in LaidKeys : IsMap(Named(ChangelogName, Steps(k)))
         /\ \A b \in Buckets : IsMap(Named(MultiName, <<BucketBytes[b]>>))
<1>1. <<>> \in Seq(Name)
  OBVIOUS
<1>2. \A k \in LaidKeys : Steps(k) \in Seq(Name)
  BY LaidTypes
<1>3. \A b \in Buckets : <<BucketBytes[b]>> \in Seq(Name)
  BY LayoutSteps
<1>4. IsMap(Named(PkName, <<>>)) /\ IsMap(Named(CheckpointsName, <<>>)) /\ IsMap(Named(UniqueName, <<>>))
  BY <1>1, LayoutNames DEF IsMap, Under
<1>5. \A k \in LaidKeys : IsMap(Named(ChangelogName, Steps(k)))
  BY <1>2, LayoutNames DEF IsMap, Under
<1>6. \A b \in Buckets : IsMap(Named(MultiName, <<BucketBytes[b]>>))
  BY <1>3, LayoutNames DEF IsMap, Under
<1> QED BY <1>4, <1>5, <1>6

LEMMA EntryParts ==
  ASSUME NEW names, NEW key, NEW value
  PROVE  /\ EntryAt(names, key, value).map = names /\ EntryAt(names, key, value).key = key
         /\ EntryAt(names, key, value).value = value
BY DEF EntryAt

(* The name an entry begins with says what it is an entry of.               *)
LEMMA EntryKinds ==
  ASSUME LayoutInv, NEW e \in Entries
  PROVE  /\ IsMap(e.map) /\ e.key \in Seq(Byte)
         /\ \/ e.map[1] = PkName /\ \E k \in Rows : e = RowEntry(k)
            \/ e.map[1] = CheckpointsName /\ \E h \in Marked : e = CheckpointEntry(h)
            \/ e.map[1] = ChangelogName /\ \E c \in Changes : e = ChangeEntry(c[1], c[2])
            \/ e.map[1] = MultiName /\ \E c \in multi : e = BucketEntry(c[1], c[2])
            \/ e.map[1] = UniqueName /\ \E t \in Taken : e = TagEntry(t)
<1>1. \A n \in Name, s \in Seq(Name) : Named(n, s)[1] = n
  BY NamedLists
<1>2. <<>> \in Seq(Name)
  OBVIOUS
<1>3. CASE e \in RowEntries
  <2>1. PICK k \in Rows : e = RowEntry(k)
    BY <1>3 DEF RowEntries
  <2>2. e.map = Named(PkName, <<>>) /\ e.key = JoinedKey(Steps(k))
    BY <2>1, EntryParts DEF RowEntry
  <2>3. JoinedKey(Steps(k)) \in Seq(Byte)
    BY LaidTypes
  <2>4. e.map[1] = PkName
    BY <1>1, <1>2, <2>2, LayoutNames
  <2> QED BY <2>1, <2>2, <2>3, <2>4, LaidMaps
<1>4. CASE e \in CheckpointEntries
  <2>1. PICK h \in Marked : e = CheckpointEntry(h)
    BY <1>4 DEF CheckpointEntries
  <2>2. e.map = Named(CheckpointsName, <<>>) /\ e.key = IntKey(h)
    BY <2>1, EntryParts DEF CheckpointEntry
  <2>3. IntKey(h) \in Seq(Byte)
    BY IntKeys DEF Marked
  <2>4. e.map[1] = CheckpointsName
    BY <1>1, <1>2, <2>2, LayoutNames
  <2> QED BY <2>1, <2>2, <2>3, <2>4, LaidMaps
<1>5. CASE e \in ChangeEntries
  <2>1. PICK c \in Changes : e = ChangeEntry(c[1], c[2])
    BY <1>5 DEF ChangeEntries
  <2>2. e.map = Named(ChangelogName, Steps(c[1])) /\ e.key = IntKey(c[2])
    BY <2>1, EntryParts DEF ChangeEntry
  <2>3. c[1] \in LaidKeys /\ c[2] \in Heights /\ Steps(c[1]) \in Seq(Name)
    BY LaidTypes
  <2>4. IntKey(c[2]) \in Seq(Byte) /\ IsMap(e.map)
    BY <2>2, <2>3, IntKeys, LaidMaps
  <2>5. e.map[1] = ChangelogName
    BY <1>1, <2>2, <2>3, LayoutNames
  <2> QED BY <2>1, <2>2, <2>4, <2>5
<1>6. CASE e \in BucketEntries
  <2>1. PICK c \in multi : e = BucketEntry(c[1], c[2])
    BY <1>6 DEF BucketEntries
  <2>2. e.map = Named(MultiName, <<BucketBytes[c[1]]>>) /\ e.key = JoinedKey(Steps(c[2]))
    BY <2>1, EntryParts DEF BucketEntry
  <2>3. c[1] \in Buckets /\ c[2] \in Keys
    BY LaidTypes
  <2>4. JoinedKey(Steps(c[2])) \in Seq(Byte) /\ IsMap(e.map) /\ BucketBytes[c[1]] \in Name
    BY <2>2, <2>3, LaidTypes, LaidMaps, LayoutSteps
  <2>5. e.map[1] = MultiName
    <3>1. <<BucketBytes[c[1]]>> \in Seq(Name)
      BY <2>4
    <3> QED BY <1>1, <2>2, <3>1, LayoutNames
  <2> QED BY <2>1, <2>2, <2>4, <2>5
<1>7. CASE e \in TagEntries
  <2>1. PICK t \in Taken : e = TagEntry(t)
    BY <1>7 DEF TagEntries
  <2>2. e.map = Named(UniqueName, <<>>) /\ e.key = TagBytes[t]
    BY <2>1, EntryParts DEF TagEntry
  <2>3. TagBytes[t] \in Seq(Byte)
    BY LayoutSteps DEF Taken, Bytes
  <2>4. e.map[1] = UniqueName
    BY <1>1, <1>2, <2>2, LayoutNames
  <2> QED BY <2>1, <2>2, <2>3, <2>4, LaidMaps
<1> QED BY <1>3, <1>4, <1>5, <1>6, <1>7 DEF Entries

LEMMA EntriesAreLaid ==
  ASSUME LayoutInv
  PROVE  Laid(Entries) /\ \A S : IsMap(S) => Elsewhere(Entries, S)
<1>1. \A e \in Entries : IsMap(e.map) /\ e.key \in Seq(Byte)
  BY EntryKinds
<1>2. \A e \in Entries : e.map \in Seq(Name) /\ e.map # <<>>
  BY <1>1, MapsPart
<1>3. \A e, f \in Entries : e.map # f.map => Parted(e.map, f.map)
  BY <1>1, MapsPart
<1>4. ASSUME NEW e \in Entries, NEW f \in Entries, e.map = f.map, e.key = f.key
      PROVE  e.value = f.value
  <2>1. CASE e.map[1] = PkName
    <3>1. PICK k \in Rows : e = RowEntry(k)
      BY <2>1, EntryKinds, LayoutNames
    <3>2. PICK j \in Rows : f = RowEntry(j)
      BY <1>4, <2>1, EntryKinds, LayoutNames
    <3>3. JoinedKey(Steps(j)) = JoinedKey(Steps(k))
      BY <1>4, <3>1, <3>2, EntryParts DEF RowEntry
    <3>4. j = k
      BY <3>3, LaidTypes
    <3> QED BY <3>1, <3>2, <3>4
  <2>2. CASE e.map[1] = CheckpointsName
    <3>1. PICK g \in Marked : e = CheckpointEntry(g)
      BY <2>2, EntryKinds, LayoutNames
    <3>2. PICK h \in Marked : f = CheckpointEntry(h)
      BY <1>4, <2>2, EntryKinds, LayoutNames
    <3>3. IntKey(g) = IntKey(h)
      BY <1>4, <3>1, <3>2, EntryParts DEF CheckpointEntry
    <3>4. g = h
      BY <3>3, IntKeys DEF Marked
    <3> QED BY <3>1, <3>2, <3>4
  <2>3. CASE e.map[1] = ChangelogName
    <3>1. PICK c \in Changes : e = ChangeEntry(c[1], c[2])
      BY <2>3, EntryKinds, LayoutNames
    <3>2. PICK d \in Changes : f = ChangeEntry(d[1], d[2])
      BY <1>4, <2>3, EntryKinds, LayoutNames
    <3>3. /\ e.map = Named(ChangelogName, Steps(c[1])) /\ e.key = IntKey(c[2])
          /\ f.map = Named(ChangelogName, Steps(d[1])) /\ f.key = IntKey(d[2])
      BY <3>1, <3>2, EntryParts DEF ChangeEntry
    <3>4. /\ c[1] \in LaidKeys /\ c[2] \in Heights /\ Steps(c[1]) \in Seq(Name)
          /\ d[1] \in LaidKeys /\ d[2] \in Heights /\ Steps(d[1]) \in Seq(Name)
      BY LaidTypes
    <3>5. Steps(c[1]) = Steps(d[1])
      <4> DEFINE s == Steps(c[1])
                 t == Steps(d[1])
      <4>1. Named(ChangelogName, s) = Named(ChangelogName, t) /\ s \in Seq(Name) /\ t \in Seq(Name)
        BY <1>4, <3>3, <3>4
      <4>2. ChangelogName \in Name
        BY LayoutNames
      <4> HIDE DEF s, t
      <4>3. s = t
        BY <4>1, <4>2, NamedSame
      <4> QED BY <4>3 DEF s, t
    <3>6. c[1] = d[1]
      BY <3>4, <3>5, LaidTypes
    <3>7. c[2] = d[2]
      BY <1>4, <3>3, <3>4, IntKeys
    <3> QED BY <3>1, <3>2, <3>6, <3>7
  <2>4. CASE e.map[1] = MultiName
    <3>1. PICK c \in multi : e = BucketEntry(c[1], c[2])
      BY <2>4, EntryKinds, LayoutNames
    <3>2. PICK d \in multi : f = BucketEntry(d[1], d[2])
      BY <1>4, <2>4, EntryKinds, LayoutNames
    <3> QED BY <1>4, <3>1, <3>2, EntryParts DEF BucketEntry
  <2>5. CASE e.map[1] = UniqueName
    <3>1. PICK t \in Taken : e = TagEntry(t)
      BY <2>5, EntryKinds, LayoutNames
    <3>2. PICK u \in Taken : f = TagEntry(u)
      BY <1>4, <2>5, EntryKinds, LayoutNames
    <3>3. TagBytes[t] = TagBytes[u]
      BY <1>4, <3>1, <3>2, EntryParts DEF TagEntry
    <3>4. t = u
      BY <3>3, LayoutSteps DEF Taken
    <3> QED BY <3>1, <3>2, <3>4
  <2> QED BY <2>1, <2>2, <2>3, <2>4, <2>5, EntryKinds
<1>5. Laid(Entries)
  BY <1>1, <1>2, <1>3, <1>4 DEF Laid
<1>6. ASSUME NEW S, IsMap(S) PROVE Elsewhere(Entries, S)
  <2>1. \A e \in Entries : e.map # S => Parted(S, e.map)
    BY <1>1, <1>6, MapsPart
  <2>2. S \in Seq(Name) /\ S # <<>>
    BY <1>6, MapsPart
  <2> QED BY <2>1, <2>2 DEF Elsewhere
<1> QED BY <1>5, <1>6


ChangeCell(k, h) == Cell(IntKey(h), <<"old", changelog[k][h]>>)
CheckpointCell(h) == Cell(IntKey(h), <<"count", checkpoints[h]>>)
LengthCell(k) == Cell(JoinedKey(Steps(k)), <<"length", Len(JoinedKey(Steps(k)))>>)
Changed(k) == {h \in Heights : HasChangelog(k, h)}
InBucket(b) == {k \in Rows : BucketOf[primary[k]] = b}

LEMMA OfGroup ==
  ASSUME NEW E, NEW S, NEW x
  PROVE  x \in Group(E, S) <=> \E e \in E : e.map = S /\ x = Cell(e.key, e.value)
BY DEF Group

LEMMA ChangeGroup ==
  ASSUME LayoutInv, NEW k \in LaidKeys
  PROVE  Group(Entries, Named(ChangelogName, Steps(k))) = {ChangeCell(k, h) : h \in Changed(k)}
<1> DEFINE S == Named(ChangelogName, Steps(k))
<1>1. Steps(k) \in Seq(Name) /\ ChangelogName \in Name /\ k \in AllKeys
  BY LaidTypes, LayoutNames DEF LaidKeys, AllKeys
<1>2. S[1] = ChangelogName
  BY <1>1, NamedLists
<1>3. ASSUME NEW x \in Group(Entries, S) PROVE x \in {ChangeCell(k, h) : h \in Changed(k)}
  <2>1. PICK e \in Entries : e.map = S /\ x = Cell(e.key, e.value)
    BY OfGroup
  <2>2. PICK c \in Changes : e = ChangeEntry(c[1], c[2])
    BY <1>2, <2>1, EntryKinds, LayoutNames
  <2>3. /\ e.map = Named(ChangelogName, Steps(c[1]))
        /\ x = ChangeCell(c[1], c[2])
    BY <2>1, <2>2, EntryParts DEF ChangeEntry, ChangeCell
  <2>4. c[1] \in LaidKeys /\ Steps(c[1]) \in Seq(Name) /\ c[2] \in Heights /\ HasChangelog(c[1], c[2])
    BY LaidTypes DEF Changes
  <2>5. Steps(c[1]) = Steps(k)
    <3> DEFINE s == Steps(c[1])
               t == Steps(k)
    <3>1. Named(ChangelogName, s) = Named(ChangelogName, t) /\ s \in Seq(Name) /\ t \in Seq(Name)
      BY <1>1, <2>1, <2>3, <2>4
    <3> HIDE DEF s, t
    <3>2. s = t
      BY <1>1, <3>1, NamedSame
    <3> QED BY <3>2 DEF s, t
  <2>6. c[1] = k
    BY <2>4, <2>5, LaidTypes
  <2> QED BY <2>3, <2>4, <2>6 DEF Changed
<1>4. ASSUME NEW h \in Changed(k) PROVE ChangeCell(k, h) \in Group(Entries, S)
  <2> DEFINE c == <<k, h>>
  <2>1. c \in Changes /\ c[1] = k /\ c[2] = h
    BY <1>1 DEF Changes, Changed
  <2>2. ChangeEntry(k, h) \in Entries
    BY <2>1 DEF Entries, ChangeEntries
  <2>3. ChangeEntry(k, h).map = S
        /\ ChangeCell(k, h) = Cell(ChangeEntry(k, h).key, ChangeEntry(k, h).value)
    BY EntryParts DEF ChangeEntry, ChangeCell
  <2> QED BY <2>2, <2>3, OfGroup
<1> QED BY <1>3, <1>4

LEMMA CheckpointGroup ==
  ASSUME LayoutInv
  PROVE  Group(Entries, Named(CheckpointsName, <<>>)) = {CheckpointCell(h) : h \in Marked}
<1> DEFINE S == Named(CheckpointsName, <<>>)
<1>1. S[1] = CheckpointsName
  <2>1. <<>> \in Seq(Name)
    OBVIOUS
  <2> QED BY <2>1, LayoutNames, NamedLists
<1>2. ASSUME NEW x \in Group(Entries, S) PROVE x \in {CheckpointCell(h) : h \in Marked}
  <2>1. PICK e \in Entries : e.map = S /\ x = Cell(e.key, e.value)
    BY OfGroup
  <2>2. PICK h \in Marked : e = CheckpointEntry(h)
    BY <1>1, <2>1, EntryKinds, LayoutNames
  <2>3. x = CheckpointCell(h)
    BY <2>1, <2>2, EntryParts DEF CheckpointEntry, CheckpointCell
  <2> QED BY <2>3
<1>3. ASSUME NEW h \in Marked PROVE CheckpointCell(h) \in Group(Entries, S)
  <2>1. CheckpointEntry(h) \in Entries
    BY DEF Entries, CheckpointEntries
  <2>2. CheckpointEntry(h).map = S
        /\ CheckpointCell(h) = Cell(CheckpointEntry(h).key, CheckpointEntry(h).value)
    BY EntryParts DEF CheckpointEntry, CheckpointCell
  <2> QED BY <2>1, <2>2, OfGroup
<1> QED BY <1>2, <1>3

LEMMA RowGroup ==
  ASSUME LayoutInv
  PROVE  Group(Entries, Named(PkName, <<>>)) = {RowCell(k) : k \in Rows}
<1> DEFINE S == Named(PkName, <<>>)
<1>1. S[1] = PkName
  <2>1. <<>> \in Seq(Name)
    OBVIOUS
  <2> QED BY <2>1, LayoutNames, NamedLists
<1>2. ASSUME NEW x \in Group(Entries, S) PROVE x \in {RowCell(k) : k \in Rows}
  <2>1. PICK e \in Entries : e.map = S /\ x = Cell(e.key, e.value)
    BY OfGroup
  <2>2. PICK k \in Rows : e = RowEntry(k)
    BY <1>1, <2>1, EntryKinds, LayoutNames
  <2>3. x = RowCell(k)
    BY <2>1, <2>2, EntryParts DEF RowEntry, RowCell
  <2> QED BY <2>3
<1>3. ASSUME NEW k \in Rows PROVE RowCell(k) \in Group(Entries, S)
  <2>1. RowEntry(k) \in Entries
    BY DEF Entries, RowEntries
  <2>2. RowEntry(k).map = S /\ RowCell(k) = Cell(RowEntry(k).key, RowEntry(k).value)
    BY EntryParts DEF RowEntry, RowCell
  <2> QED BY <2>1, <2>2, OfGroup
<1> QED BY <1>2, <1>3

LEMMA BucketGroup ==
  ASSUME LayoutInv, form = "indexed", NEW b \in Buckets
  PROVE  Group(Entries, Named(MultiName, <<BucketBytes[b]>>)) = {LengthCell(k) : k \in InBucket(b)}
<1> DEFINE s == <<BucketBytes[b]>>
           S == Named(MultiName, s)
<1>1. s \in Seq(Name) /\ MultiName \in Name
  BY LayoutNames, LayoutSteps
<1>2. S[1] = MultiName
  BY <1>1, NamedLists
<1>3. ASSUME NEW x \in Group(Entries, S) PROVE x \in {LengthCell(k) : k \in InBucket(b)}
  <2>1. PICK e \in Entries : e.map = S /\ x = Cell(e.key, e.value)
    BY OfGroup
  <2>2. PICK c \in multi : e = BucketEntry(c[1], c[2])
    BY <1>2, <2>1, EntryKinds, LayoutNames
  <2>3. /\ e.map = Named(MultiName, <<BucketBytes[c[1]]>>)
        /\ x = LengthCell(c[2])
    BY <2>1, <2>2, EntryParts DEF BucketEntry, LengthCell
  <2>4. c[1] \in Buckets /\ c[2] \in Rows /\ BucketOf[primary[c[2]]] = c[1]
    BY LaidTypes
  <2>5. c[1] = b
    <3> DEFINE t == <<BucketBytes[c[1]]>>
    <3>1. t \in Seq(Name) /\ Named(MultiName, s) = Named(MultiName, t)
      BY <2>1, <2>3, <2>4, LayoutSteps
    <3>2. BucketBytes[c[1]] = t[1] /\ BucketBytes[b] = s[1]
      OBVIOUS
    <3> HIDE DEF s, t
    <3>3. s = t
      BY <1>1, <3>1, NamedSame
    <3> QED BY <2>4, <3>2, <3>3, LayoutSteps
  <2> QED BY <2>3, <2>4, <2>5 DEF InBucket
<1>4. ASSUME NEW k \in InBucket(b) PROVE LengthCell(k) \in Group(Entries, S)
  <2> DEFINE c == <<b, k>>
  <2>1. c \in multi /\ c[1] = b /\ c[2] = k
    BY DEF InBucket, Rows, AllKeys, LayoutInv, IndexInv, BucketsAreRows
  <2>2. BucketEntry(b, k) \in Entries
    BY <2>1 DEF Entries, BucketEntries
  <2>3. BucketEntry(b, k).map = S
        /\ LengthCell(k) = Cell(BucketEntry(b, k).key, BucketEntry(b, k).value)
    BY EntryParts DEF BucketEntry, LengthCell
  <2> QED BY <2>2, <2>3, OfGroup
<1> QED BY <1>3, <1>4

(* The row of an item is out of the way of its checkpoints and changes.     *)
LEMMA ItemIsOutside ==
  ASSUME LayoutInv
  PROVE  /\ \A c, d \in ItemCells : c = d
         /\ \A c \in ItemCells : /\ c.key \in Seq(Byte) /\ form = "item"
                                 /\ Outside(c.key, LengthPrefixed(Named(CheckpointsName, <<>>)))
                                 /\ Outside(c.key, LengthPrefixed(Named(ChangelogName, <<>>)))
         /\ \A c \in ItemCells, e \in Entries : Outside(c.key, LengthPrefixed(e.map))
<1>1. ASSUME NEW c \in ItemCells
      PROVE  /\ c.key \in Seq(Byte) /\ form = "item"
             /\ Outside(c.key, LengthPrefixed(Named(CheckpointsName, <<>>)))
             /\ Outside(c.key, LengthPrefixed(Named(ChangelogName, <<>>)))
  <2>1. c = Cell(PkName, <<"row", primary[Unit]>>) /\ primary[Unit] # Absent
    BY DEF ItemCells
  <2>2. c.key = PkName
    BY <2>1, CellParts
  <2>3. form = "item"
    BY <2>1 DEF LayoutInv, OfTheForm
  <2>4. PkName \in Seq(Byte)
    BY LayoutNames DEF Name, Bytes
  <2>5. \A name \in {CheckpointsName, ChangelogName} : Outside(PkName, PrefixKey(name, <<>>))
    BY SnapshotLayoutAssumption DEF SnapshotLayoutAssumption, Outside
  <2>6. <<>> \in Seq(Name)
    OBVIOUS
  <2>7. \A name \in {CheckpointsName, ChangelogName} :
          PrefixKey(name, <<>>) = LengthPrefixed(Named(name, <<>>))
    BY <2>6, LayoutNames, PathKeys
  <2> QED BY <2>2, <2>3, <2>4, <2>5, <2>7
<1>2. ASSUME NEW c \in ItemCells, NEW e \in Entries PROVE Outside(c.key, LengthPrefixed(e.map))
  <2>1. form = "item" /\ Rows = {} /\ multi = {} /\ Taken = {} /\ LaidKeys = {Unit}
    BY <1>1 DEF LayoutInv, OfTheForm, Rows, Taken, LaidKeys
  <2>2. CASE \E h \in Marked : e = CheckpointEntry(h)
    <3>1. e.map = Named(CheckpointsName, <<>>)
      BY <2>2, EntryParts DEF CheckpointEntry
    <3> QED BY <1>1, <3>1
  <2>3. CASE \E x \in Changes : e = ChangeEntry(x[1], x[2])
    <3>1. PICK x \in Changes : e = ChangeEntry(x[1], x[2])
      BY <2>3
    <3>2. Steps(x[1]) = <<>>
      BY <2>1, LaidTypes, LayoutSteps
    <3>3. e.map = Named(ChangelogName, <<>>)
      BY <3>1, <3>2, EntryParts DEF ChangeEntry
    <3> QED BY <1>1, <3>3
  <2> QED BY <2>1, <2>2, <2>3, EntryKinds
<1>3. \A c, d \in ItemCells : c = d
  BY DEF ItemCells
<1> QED BY <1>1, <1>2, <1>3

LEMMA RangeOver ==
  ASSUME LayoutInv, NEW S, IsMap(S),
         \A c \in ItemCells : Outside(c.key, LengthPrefixed(S)),
         NEW start, NEW s \in Seq(Byte),
         CalcStartBound(LengthPrefixed(S), start) = LengthPrefixed(S) \o s
  PROVE  RangeWithPrefix(Cells, LengthPrefixed(S), start, NoBound)
           = InKeyOrder(From(Group(Entries, S), s))
<1>1. Laid(Entries) /\ Elsewhere(Entries, S)
  BY EntriesAreLaid
<1>2. Cells = ItemCells \cup Placed(Entries)
  BY CellsArePlaced
<1>3. \A c \in ItemCells : c.key \in Seq(Byte) /\ Outside(c.key, LengthPrefixed(S))
  BY ItemIsOutside
<1> QED BY <1>1, <1>2, <1>3, RangeOfMap

LEMMA KeysAreUnique ==
  ASSUME LayoutInv, NEW c \in Cells, NEW d \in Cells, c.key = d.key
  PROVE  c = d
<1>1. Laid(Entries) /\ Cells = ItemCells \cup Placed(Entries)
  BY EntriesAreLaid, CellsArePlaced
<1> QED BY <1>1, ItemIsOutside, PlacedKeys


(* The entries of a map by heights, in a list.                              *)
HeightCells(H, v) == {Cell(IntKey(h), v[h]) : h \in H}

LEMMA HeightList ==
  ASSUME NEW H \in SUBSET Heights, NEW v, NEW G, G = HeightCells(H, v),
         NEW t, t = InKeyOrder(G)
  PROVE  /\ Keyed(G) /\ Len(t) \in Nat
         /\ t = <<>> <=> H = {}
         /\ H # {} => \E c \in H : t[1] = Cell(IntKey(c), v[c]) /\ \A d \in H : c <= d
         /\ H # {} => \E c \in H : t[Len(t)] = Cell(IntKey(c), v[c]) /\ \A d \in H : d <= c
<1> DEFINE cell(h) == Cell(IntKey(h), v[h])
<1>1. \A h \in H : cell(h).key = IntKey(h)
  BY CellParts
<1>2. MaxHeight \in Nat /\ \A h \in H : h \in Heights /\ h \in Nat
  BY SnapshotsAssumption DEF SnapshotsAssumption, Heights
<1>3. IsFiniteSet(H)
  <2>1. IsFiniteSet(Heights)
    BY <1>2, FS_Interval DEF Heights
  <2> QED BY <2>1, FS_Subset
<1>4. G = {cell(h) : h \in H}
  BY DEF HeightCells
<1> HIDE DEF cell
<1>5. IsFiniteSet(G)
  <2> DEFINE f == [h \in H |-> cell(h)]
  <2>1. f \in Surjection(H, G)
    BY <1>4 DEF Surjection
  <2> QED BY <1>3, <2>1, FS_Surjection
<1>6. Keyed(G)
  <2>1. \A c \in G : \E h \in H : c = cell(h)
    BY <1>4
  <2>2. ASSUME NEW c \in G PROVE c.key \in Seq(Nat)
    <3>1. PICK h \in H : c = cell(h)
      BY <2>1
    <3>2. IntKey(h) \in Seq(Nat)
      BY <1>2, IntKeys, ByteNat
    <3> QED BY <1>1, <3>1, <3>2
  <2>3. ASSUME NEW c \in G, NEW d \in G, c.key = d.key PROVE c = d
    <3>1. PICK g \in H : c = cell(g)
      BY <2>1
    <3>2. PICK h \in H : d = cell(h)
      BY <2>1
    <3>3. IntKey(g) = IntKey(h)
      BY <1>1, <2>3, <3>1, <3>2
    <3> QED BY <1>2, <3>1, <3>2, <3>3, IntKeys
  <2> QED BY <1>5, <2>2, <2>3 DEF Keyed
<1>7. /\ t \in Seq(G) /\ Len(t) \in Nat
      /\ \A i, j \in 1..Len(t) : i < j => LexLess(t[i].key, t[j].key)
      /\ \A c \in G : \E i \in 1..Len(t) : t[i] = c
  <2>1. IsListing(t, KeyOrder(G), G)
    BY <1>6, CellsAreListed
  <2>2. \A c, d \in G : <<c, d>> \in KeyOrder(G) <=> LexLess(c.key, d.key)
    BY <1>6, KeysAreOrdered
  <2>3. t \in Seq(G) /\ Len(t) \in Nat
    BY <2>1 DEF IsListing
  <2>4. \A i \in 1..Len(t) : t[i] \in G
    BY <2>3, ElementOfSeq
  <2> QED BY <2>1, <2>2, <2>3, <2>4 DEF IsListing
<1>8. t = <<>> <=> H = {}
  <2>1. CASE H = {}
    <3>1. Len(t) = 0
      BY <1>4, <1>7, <2>1
    <3>2. t = <<>>
      BY <1>7, <3>1
    <3> QED BY <2>1, <3>2
  <2>2. CASE H # {}
    <3>1. PICK h \in H : TRUE
      BY <2>2
    <3>2. PICK i \in 1..Len(t) : t[i] = cell(h)
      BY <1>4, <1>7
    <3>3. Len(t) # 0
      BY <1>7, <3>2
    <3> QED BY <2>2, <3>3
  <2> QED BY <2>1, <2>2
<1>9. ASSUME H # {} PROVE /\ 1 \in 1..Len(t) /\ Len(t) \in 1..Len(t)
  <2>1. Len(t) # 0
    BY <1>7, <1>8, <1>9
  <2> QED BY <1>7, <2>1
<1>10. ASSUME NEW i \in 1..Len(t) PROVE \E c \in H : t[i] = cell(c)
  <2>1. t[i] \in G
    BY <1>7, ElementOfSeq
  <2> QED BY <1>4, <2>1
<1>11. ASSUME NEW i \in 1..Len(t), NEW j \in 1..Len(t), i < j,
              NEW c \in H, t[i] = cell(c), NEW d \in H, t[j] = cell(d)
       PROVE  c < d
  <2>1. LexLess(IntKey(c), IntKey(d))
    BY <1>1, <1>7, <1>11, SMTT(20)
  <2> QED BY <1>2, <2>1, IntKeys
<1>12. ASSUME NEW i \in 1..Len(t), NEW c \in H, t[i] = cell(c), NEW d \in H, t[i] = cell(d)
       PROVE  c = d
  <2>1. IntKey(c) = IntKey(d)
    BY <1>1, <1>12
  <2> QED BY <1>2, <2>1, IntKeys
<1>13. ASSUME H # {} PROVE \E c \in H : t[1] = cell(c) /\ \A d \in H : c <= d
  <2>1. PICK c \in H : t[1] = cell(c)
    BY <1>9, <1>10, <1>13
  <2>2. ASSUME NEW d \in H PROVE c <= d
    <3>1. PICK j \in 1..Len(t) : t[j] = cell(d)
      BY <1>4, <1>7
    <3>2. j = 1 \/ 1 < j
      BY <1>7
    <3>3. c = d \/ c < d
      BY <1>9, <1>11, <1>12, <1>13, <2>1, <3>1, <3>2
    <3> QED BY <1>2, <3>3
  <2> QED BY <2>1, <2>2
<1>14. ASSUME H # {} PROVE \E c \in H : t[Len(t)] = cell(c) /\ \A d \in H : d <= c
  <2>1. PICK c \in H : t[Len(t)] = cell(c)
    BY <1>9, <1>10, <1>14
  <2>2. ASSUME NEW d \in H PROVE d <= c
    <3>1. PICK j \in 1..Len(t) : t[j] = cell(d)
      BY <1>4, <1>7
    <3>2. j = Len(t) \/ j < Len(t)
      BY <1>7
    <3>3. c = d \/ d < c
      BY <1>9, <1>11, <1>12, <1>14, <2>1, <3>1, <3>2
    <3> QED BY <1>2, <3>3
  <2> QED BY <2>1, <2>2
<1> QED BY <1>6, <1>7, <1>8, <1>13, <1>14 DEF cell

(* The changes of a key from a height on.                                   *)
LEMMA ChangesAreExact ==
  ASSUME LayoutInv, NEW k \in LaidKeys, NEW h \in Heights
  PROVE  LET found == ChangesRange(Cells, k, h)
         IN  /\ found = <<>> <=> ChangesFrom(k, h) = {}
             /\ found # <<>> => \E c \in Heights :
                  /\ IsFirstChange(k, h, c)
                  /\ Head(found) = Cell(IntKey(c), <<"old", changelog[k][c]>>)
<1> DEFINE found == ChangesRange(Cells, k, h)
           S == Named(ChangelogName, Steps(k))
           p == LengthPrefixed(S)
           s == IntKey(h)
           H == ChangesFrom(k, h)
           v == [c \in Heights |-> <<"old", changelog[k][c]>>]
           G == HeightCells(H, v)
<1>1. Steps(k) \in Seq(Name) /\ ChangelogName \in Name /\ IsMap(S)
  BY LaidTypes, LayoutNames, LaidMaps
<1>2. PrefixKey(ChangelogName, Steps(k)) = p
  BY <1>1, PathKeys
<1>3. s \in Seq(Byte)
  BY IntKeys
<1>4. CalcStartBound(p, Inclusive(s)) = p \o s
  <2> HIDE DEF p, s
  <2>1. Inclusive(s).limit = s /\ Inclusive(s).inclusive = TRUE
    BY DEF Inclusive
  <2>2. Inclusive(s) # NoBound
    <3>1. Inclusive(s) \in [limit : Bytes, inclusive : BOOLEAN]
      BY <1>3 DEF Inclusive, Bytes
    <3> QED BY <3>1, KeyspaceAssumption DEF KeyspaceAssumption
  <2> QED BY <2>1, <2>2 DEF CalcStartBound
<1>5. \A c \in ItemCells : Outside(c.key, p)
  <2>1. ASSUME form = "item" PROVE Steps(k) = <<>>
    BY <2>1, LayoutSteps DEF LaidKeys
  <2> QED BY <2>1, ItemIsOutside
<1>6. From(Group(Entries, S), s) = G
  <2>1. Group(Entries, S) = {ChangeCell(k, c) : c \in Changed(k)}
    BY ChangeGroup
  <2>2. \A c \in Heights : ChangeCell(k, c) = Cell(IntKey(c), v[c]) /\ ChangeCell(k, c).key = IntKey(c)
    BY CellParts DEF ChangeCell
  <2>3. \A c \in Heights : ~ LexLess(IntKey(c), s) <=> c >= h
    <3>1. \A c \in Heights : LexLess(IntKey(c), s) <=> c < h
      BY IntKeys
    <3>2. \A c \in Heights : c \in Int
      BY DEF Heights
    <3> QED BY <3>1, <3>2
  <2>4. H = {c \in Changed(k) : c >= h} /\ Changed(k) \subseteq Heights
    BY DEF ChangesFrom, Changed
  <2>5. ASSUME NEW x \in From(Group(Entries, S), s) PROVE x \in G
    <3>1. PICK c \in Changed(k) : x = ChangeCell(k, c)
      BY <2>1 DEF From
    <3>2. ~ LexLess(x.key, s)
      BY DEF From
    <3>3. c \in H
      BY <2>2, <2>3, <2>4, <3>1, <3>2
    <3> QED BY <2>2, <2>4, <3>1, <3>3 DEF HeightCells
  <2>6. ASSUME NEW x \in G PROVE x \in From(Group(Entries, S), s)
    <3>1. PICK c \in H : x = Cell(IntKey(c), v[c])
      BY DEF HeightCells
    <3>2. c \in Changed(k) /\ c \in Heights /\ c >= h
      BY <2>4
    <3>3. x = ChangeCell(k, c) /\ ~ LexLess(x.key, s)
      BY <2>2, <2>3, <3>1, <3>2
    <3> QED BY <2>1, <3>2, <3>3 DEF From
  <2> QED BY <2>5, <2>6
<1>7. found = InKeyOrder(G)
  <2> HIDE DEF p, s, G, S
  <2>1. RangeWithPrefix(Cells, LengthPrefixed(S), Inclusive(s), NoBound)
          = InKeyOrder(From(Group(Entries, S), s))
    BY <1>1, <1>3, <1>4, <1>5, RangeOver DEF p
  <2> QED BY <1>2, <1>6, <2>1 DEF ChangesRange, p, s
<1>8. H \in SUBSET Heights
  BY DEF ChangesFrom
<1> HIDE DEF found, H, v, G
<1>9. /\ found = <<>> <=> H = {}
      /\ H # {} => \E c \in H : found[1] = Cell(IntKey(c), v[c]) /\ \A d \in H : c <= d
  BY <1>7, <1>8, HeightList DEF G
<1>10. ASSUME found # <<>>
       PROVE  \E c \in Heights : IsFirstChange(k, h, c) /\ Head(found) = Cell(IntKey(c), <<"old", changelog[k][c]>>)
  <2>1. PICK c \in H : found[1] = Cell(IntKey(c), v[c]) /\ \A d \in H : c <= d
    BY <1>9, <1>10
  <2>2. c \in Heights /\ IsFirstChange(k, h, c)
    BY <1>8, <2>1 DEF IsFirstChange, H
  <2>3. v[c] = <<"old", changelog[k][c]>>
    BY <2>2 DEF v
  <2>4. Head(found) = found[1]
    OBVIOUS
  <2> QED BY <2>1, <2>2, <2>3, <2>4
<1> QED BY <1>9, <1>10 DEF found, H

(* The last checkpoint.                                                     *)
LEMMA CheckpointsAreExact ==
  ASSUME LayoutInv, NEW h \in Heights, IsLatestCheckpoint(h)
  PROVE  Last(CheckpointsRange(Cells)).key = IntKey(h)
<1> DEFINE found == CheckpointsRange(Cells)
           S == Named(CheckpointsName, <<>>)
           p == LengthPrefixed(S)
           v == [c \in Heights |-> <<"count", checkpoints[c]>>]
           G == HeightCells(Marked, v)
<1>1. <<>> \in Seq(Name) /\ CheckpointsName \in Name /\ IsMap(S) /\ <<>> \in Seq(Byte)
  BY LayoutNames, LaidMaps
<1>2. PrefixKey(CheckpointsName, <<>>) = p
  BY <1>1, PathKeys
<1>3. p \in Seq(Byte)
  BY <1>1, NamedLists, PrefixedBounded
<1>4. CalcStartBound(p, NoBound) = p \o <<>>
  <2> HIDE DEF p
  <2> QED BY <1>3, ConcatEmptySeq DEF CalcStartBound
<1>5. \A c \in ItemCells : Outside(c.key, p)
  BY ItemIsOutside
<1>6. Marked \in SUBSET Heights
  BY DEF Marked
<1>7. Group(Entries, S) = G
  <2>1. Group(Entries, S) = {CheckpointCell(c) : c \in Marked}
    BY CheckpointGroup
  <2>2. \A c \in Marked : CheckpointCell(c) = Cell(IntKey(c), v[c])
    BY <1>6 DEF CheckpointCell
  <2> HIDE DEF v
  <2> QED BY <2>1, <2>2 DEF HeightCells
<1>8. From(G, <<>>) = G
  <2>1. \A x : ~ LexLess(x, <<>>)
    BY DEF LexLess, IsStrictPrefix, IsPrefix
  <2> QED BY <2>1 DEF From
<1>9. found = InKeyOrder(G)
  <2> HIDE DEF p, G, S
  <2>1. RangeWithPrefix(Cells, LengthPrefixed(S), NoBound, NoBound)
          = InKeyOrder(From(Group(Entries, S), <<>>))
    BY <1>1, <1>4, <1>5, RangeOver DEF p
  <2> QED BY <1>2, <1>7, <1>8, <2>1 DEF CheckpointsRange, p
<1>10. h \in Marked /\ \A g \in Marked : g <= h
  BY DEF IsLatestCheckpoint, Marked
<1> HIDE DEF found, G, v
<1>11. PICK c \in Marked : found[Len(found)] = Cell(IntKey(c), v[c]) /\ \A d \in Marked : d <= c
  BY <1>6, <1>9, <1>10, HeightList DEF G
<1>12. c = h
  <2>1. c \in Int /\ h \in Int
    BY <1>6 DEF Heights
  <2> QED BY <1>10, <1>11, <2>1
<1> QED BY <1>11, <1>12, CellParts DEF Last, found


(* The ranges under a prefix give the cells E, from wherever they start.    *)
RangesGive(cells, p, E) ==
  \A start : \A s \in Seq(Byte) :
    CalcStartBound(p, start) = p \o s
      => RangeWithPrefix(cells, p, start, NoBound) = InKeyOrder(From(E, s))

PagedCells(cells, p, E) ==
  /\ p \in Seq(Byte) /\ Keyed(E) /\ RangesGive(cells, p, E)
  /\ \A e \in E : e.key \in Seq(Byte)

PageFollows(cells, p, list, limit, t, m) ==
  list \o Page(cells, p, list, limit) = SubSeq(t, 1, Further(m, PageSize(limit), Len(t)))

LEMMA NextPage ==
  ASSUME NEW cells, NEW p, NEW E, PagedCells(cells, p, E), NEW limit \in Nat,
         NEW t, t = InKeyOrder(E), NEW m \in 0..Len(t),
         NEW list, list = SubSeq(t, 1, m)
  PROVE  PageFollows(cells, p, list, limit, t, m)
<1> DEFINE start == StartAfter(list)
           s == IF m = 0 THEN <<>> ELSE Append(t[m].key, 0)
           rest == RangeWithPrefix(cells, p, start, NoBound)
           size == PageSize(limit)
<1>1. Keyed(E) /\ IsListing(t, KeyOrder(E), E) /\ p \in Seq(Byte)
  BY CellsAreListed DEF PagedCells
<1>2. t \in Seq(E) /\ Len(t) \in Nat /\ m \in Nat /\ m <= Len(t) /\ \A i \in 1..Len(t) : t[i] \in E
  <2>1. t \in Seq(E) /\ Len(t) \in Nat
    BY <1>1 DEF IsListing
  <2> QED BY <2>1, ElementOfSeq
<1>3. \A e \in E : e.key \in Seq(Byte) /\ e.key \in Seq(Nat)
  BY ByteNat DEF PagedCells
<1>4. size \in Nat \ {0}
  BY KeyspaceAssumption DEF KeyspaceAssumption, PageSize, NoLimit
<1> HIDE DEF size
<1>5. ASSUME m = 0
      PROVE  CalcStartBound(p, start) = p \o s /\ s \in Seq(Byte) /\ Behind(E, t, m, s)
  <2>1. list = <<>>
    BY <1>5, SubSeqEmpty
  <2>2. s = <<>> /\ start = NoBound
    BY <1>5, <2>1 DEF StartAfter
  <2>3. CalcStartBound(p, start) = p \o s
    BY <1>1, <2>2, ConcatEmptySeq DEF CalcStartBound
  <2>4. s \in Seq(Byte) /\ \A e \in E : ~ LexLess(e.key, s)
    <3>1. \A x : ~ LexLess(x, <<>>)
      BY DEF LexLess, IsStrictPrefix, IsPrefix
    <3>2. <<>> \in Seq(Byte)
      OBVIOUS
    <3> HIDE DEF s
    <3> QED BY <2>2, <3>1, <3>2
  <2>5. Behind(E, t, m, s)
    BY <1>2, <1>5, <2>4 DEF Behind
  <2> QED BY <2>3, <2>4, <2>5
<1>6. ASSUME m > 0
      PROVE  CalcStartBound(p, start) = p \o s /\ s \in Seq(Byte) /\ Behind(E, t, m, s)
  <2> DEFINE k == t[m].key
  <2>1. m \in 1..Len(t) /\ t[m] \in E
    BY <1>2, <1>6
  <2>2. k \in Seq(Byte) /\ k \in Seq(Nat)
    BY <1>3, <2>1
  <2> HIDE DEF k
  <2>3. list \in Seq(E) /\ Len(list) = m /\ list[m] = t[m]
    BY <1>2, <2>1
  <2>4. list # <<>> /\ Last(list) = t[m]
    BY <1>6, <2>3 DEF Last
  <2>5. start = Exclusive(k)
    BY <2>4 DEF StartAfter, k
  <2>6. start # NoBound /\ start.inclusive = FALSE /\ start.limit = k
    <3>1. start \in [limit : Bytes, inclusive : BOOLEAN]
      <4>1. start = [limit |-> k, inclusive |-> FALSE] /\ k \in Bytes
        BY <2>2, <2>5 DEF Exclusive, Bytes
      <4> HIDE DEF start
      <4> QED BY <4>1
    <3>2. start # NoBound
      BY <3>1, KeyspaceAssumption DEF KeyspaceAssumption
    <3> QED BY <2>5, <3>2 DEF Exclusive
  <2>7. s = Append(k, 0) /\ s \in Seq(Byte)
    <3>1. 0 \in Byte
      BY ByteNat DEF Byte
    <3>2. s = Append(k, 0)
      BY <1>6 DEF k
    <3>3. Append(k, 0) \in Seq(Byte)
      BY <2>2, <3>1, AppendProperties
    <3> QED BY <3>2, <3>3
  <2>8. CalcStartBound(p, start) = p \o s
    BY <2>6, <2>7 DEF CalcStartBound, OneByteHigher
  <2> HIDE DEF s, start
  <2>9. ASSUME NEW e \in E PROVE ~ LexLess(e.key, s) <=> LexLess(k, e.key)
    BY <1>3, <2>2, <2>7, LexNext
  <2>10. Behind(E, t, m, s)
    BY <1>2, <1>6, <2>9 DEF Behind, k
  <2> QED BY <2>7, <2>8, <2>10
<1>7. CalcStartBound(p, start) = p \o s /\ s \in Seq(Byte) /\ Behind(E, t, m, s)
  <2> HIDE DEF s, start
  <2>1. m = 0 \/ m > 0
    BY <1>2
  <2> QED BY <1>5, <1>6, <2>1
<1> HIDE DEF s, start
<1>8. rest = InKeyOrder(From(E, s))
  BY <1>7 DEF PagedCells, RangesGive
<1>9. Page(cells, p, list, limit) = FirstOf(rest, size)
  BY DEF Page, FirstOf, size, start
<1> HIDE DEF rest
<1>10. GoesOn(t, m, rest, size)
  BY <1>1, <1>4, <1>7, <1>8, PageGoesOn
<1> QED BY <1>9, <1>10 DEF size, GoesOn, PageFollows

LEMMA PagesListAll ==
  ASSUME NEW cells, NEW p, NEW E, PagedCells(cells, p, E), NEW limit \in Nat,
         NEW t, t = InKeyOrder(E), NEW pages, pages = Len(t)
  PROVE  Listed(cells, p, limit, pages) = t
<1> DEFINE size == PageSize(limit)
           IsPaging(f) ==
             f = [n \in 0..pages |->
                    IF n = 0 THEN <<>> ELSE f[n - 1] \o Page(cells, p, f[n - 1], limit)]
           g == [n \in 0..pages |-> SubSeq(t, 1, Reached(n, size, pages))]
<1>1. t \in Seq(E) /\ pages \in Nat
  <2>1. IsListing(t, KeyOrder(E), E)
    BY CellsAreListed DEF PagedCells
  <2> QED BY <2>1 DEF IsListing
<1>2. size \in Nat \ {0}
  BY KeyspaceAssumption DEF KeyspaceAssumption, PageSize, NoLimit
<1> HIDE DEF size
<1>3. /\ Reached(0, size, pages) = 0
      /\ \A n \in Nat : Reached(n, size, pages) \in 0..pages
      /\ \A n \in Nat \ {0} : Reached(n, size, pages) = Further(Reached(n - 1, size, pages), size, pages)
      /\ Reached(pages, size, pages) = pages
  <2> SUFFICES ASSUME NEW N \in Nat
               PROVE  /\ Reached(0, size, N) = 0
                      /\ \A n \in Nat : Reached(n, size, N) \in 0..N
                      /\ \A n \in Nat \ {0} :
                           Reached(n, size, N) = Further(Reached(n - 1, size, N), size, N)
                      /\ Reached(N, size, N) = N
    BY <1>1, Zenon
  <2> QED BY <1>2, ReachedNext, Zenon
<1>4. g[0] = <<>>
  BY <1>1, <1>3, SubSeqEmpty
<1>5. ASSUME NEW n \in 1..pages
      PROVE  g[n] = g[n - 1] \o Page(cells, p, g[n - 1], limit)
  <2> DEFINE m == Reached(n - 1, size, pages)
             list == SubSeq(t, 1, m)
  <2>1. n - 1 \in Nat /\ n - 1 \in 0..pages /\ n \in Nat \ {0} /\ n \in 0..pages
    BY <1>1
  <2>2. m \in 0..Len(t)
    BY <1>3, <2>1
  <2>3. g[n - 1] = list
    BY <2>1
  <2>4. g[n] = SubSeq(t, 1, Further(m, size, pages))
    BY <1>3, <2>1
  <2> HIDE DEF m, g, list
  <2>5. PageFollows(cells, p, list, limit, t, m)
    <3>1. list = SubSeq(t, 1, m)
      BY DEF list
    <3> QED BY <2>2, <3>1, NextPage
  <2> QED BY <2>3, <2>4, <2>5 DEF size, PageFollows
<1>6. IsPaging(g)
  <2> DEFINE Next(n) == g[n - 1] \o Page(cells, p, g[n - 1], limit)
  <2>1. \A n \in 0..pages : g[n] = IF n = 0 THEN <<>> ELSE Next(n)
    <3>1. \A n \in 0..pages : n # 0 => n \in 1..pages
      BY <1>1
    <3> HIDE DEF g
    <3> QED BY <1>4, <1>5, <3>1
  <2>2. g = [n \in 0..pages |-> g[n]]
    OBVIOUS
  <2> HIDE DEF g
  <2> QED BY <2>1, <2>2
<1>7. ASSUME NEW f, IsPaging(f) PROVE \A n \in 0..pages : f[n] = g[n]
  <2> DEFINE P == {n \in 0..pages : f[n] = g[n]}
  <2>1. ASSUME NEW n \in 0..pages
        PROVE  f[n] = IF n = 0 THEN <<>> ELSE f[n - 1] \o Page(cells, p, f[n - 1], limit)
    BY <1>7, Zenon
  <2> HIDE DEF g, IsPaging
  <2>2. 0 \in P
    <3>1. 0 \in 0..pages
      BY <1>1
    <3> QED BY <1>4, <2>1, <3>1
  <2>3. ASSUME NEW n \in 1..pages, n - 1 \in P PROVE n \in P
    <3>1. n \in 0..pages /\ n # 0
      BY <1>1
    <3>2. f[n - 1] = g[n - 1]
      BY <2>3
    <3> QED BY <1>5, <2>1, <3>1, <3>2
  <2> HIDE DEF P
  <2>4. 0..pages \subseteq P
    BY <1>1, <2>2, <2>3, UpTo
  <2> QED BY <2>4 DEF P
<1> DEFINE h == CHOOSE f : IsPaging(f)
<1>8. Listed(cells, p, limit, pages) = h[pages]
  BY DEF Listed
<1>9. IsPaging(h)
  <2> HIDE DEF IsPaging
  <2> QED BY <1>6
<1>10. h[pages] = g[pages]
  <2>1. pages \in 0..pages
    BY <1>1
  <2> HIDE DEF IsPaging, h, g
  <2> QED BY <1>7, <1>9, <2>1
<1>11. g[pages] = SubSeq(t, 1, pages)
  BY <1>1, <1>3
<1>12. SubSeq(t, 1, pages) = t
  BY <1>1, SubSeqFull
<1> QED BY <1>8, <1>10, <1>11, <1>12

(* Cells that keep their keys are listed in the same order.                 *)
LEMMA SameOrder ==
  ASSUME NEW E, Keyed(E), NEW F, Keyed(F), NEW f \in [E -> F],
         \A e \in E : f[e].key = e.key, \A c \in F : \E e \in E : f[e] = c,
         NEW t, t = InKeyOrder(E)
  PROVE  [i \in DOMAIN t |-> f[t[i]]] = InKeyOrder(F)
<1> DEFINE u == [i \in DOMAIN t |-> f[t[i]]]
<1>1. IsListing(t, KeyOrder(E), E)
  BY CellsAreListed
<1>2. \A c, d \in E : <<c, d>> \in KeyOrder(E) <=> LexLess(c.key, d.key)
  BY KeysAreOrdered
<1>3. t \in Seq(E) /\ Len(t) \in Nat /\ DOMAIN t = 1..Len(t)
  BY <1>1 DEF IsListing
<1>4. \A i \in 1..Len(t) : t[i] \in E
  BY <1>3, ElementOfSeq
<1>5. \A i, j \in 1..Len(t) : i < j => LexLess(t[i].key, t[j].key)
  BY <1>1, <1>2, <1>4 DEF IsListing
<1>6. u \in Seq(F) /\ Len(u) = Len(t) /\ \A i \in 1..Len(t) : u[i] = f[t[i]]
  BY <1>3, <1>4, IsASeq
<1> HIDE DEF u
<1>7. \A i, j \in 1..Len(u) : i < j => LexLess(u[i].key, u[j].key)
  BY <1>4, <1>5, <1>6
<1>8. ASSUME NEW c \in F PROVE \E i \in 1..Len(u) : u[i] = c
  <2>1. PICK e \in E : f[e] = c
    OBVIOUS
  <2>2. PICK i \in 1..Len(t) : t[i] = e
    BY <1>1 DEF IsListing
  <2> QED BY <1>6, <2>1, <2>2
<1>9. u = InKeyOrder(F)
  BY <1>6, <1>7, <1>8, OrderedList
<1> QED BY <1>9 DEF u


LEMMA RowsAreFinite ==
  ASSUME LayoutInv
  PROVE  IsFiniteSet(Rows)
<1>1. PICK K \in SUBSET AllKeys : IsFiniteSet(K) /\ \A k \in AllKeys \ K : primary[k] = Absent
  BY DEF LayoutInv, FewRows
<1>2. Rows \in SUBSET K
  BY <1>1 DEF Rows, AllKeys
<1> QED BY <1>1, <1>2, FS_Subset

LEMMA RowsAreKeyed ==
  ASSUME LayoutInv, NEW R \in SUBSET Rows
  PROVE  /\ Keyed({RowCell(k) : k \in R}) /\ Keyed({LengthCell(k) : k \in R})
         /\ \A k \in R : /\ RowCell(k).key = JoinedKey(Steps(k)) /\ JoinedKey(Steps(k)) \in Seq(Byte)
                         /\ LengthCell(k).key = JoinedKey(Steps(k))
<1>1. IsFiniteSet(R)
  BY RowsAreFinite, FS_Subset
<1>2. \A k \in R : k \in Keys
  BY LaidTypes
<1>3. \A k \in R : JoinedKey(Steps(k)) \in Seq(Byte) /\ JoinedKey(Steps(k)) \in Seq(Nat)
  BY <1>2, LaidTypes, ByteNat
<1>4. \A j, k \in R : JoinedKey(Steps(j)) = JoinedKey(Steps(k)) => j = k
  BY <1>2, LaidTypes
<1>5. \A k \in R : RowCell(k).key = JoinedKey(Steps(k)) /\ LengthCell(k).key = JoinedKey(Steps(k))
  BY CellParts DEF RowCell, LengthCell
<1>6. Keyed({RowCell(k) : k \in R})
  <2> DEFINE G == {RowCell(k) : k \in R}
             f == [k \in R |-> RowCell(k)]
  <2>1. f \in Surjection(R, G)
    BY DEF Surjection
  <2>2. IsFiniteSet(G)
    <3> HIDE DEF f, G
    <3> QED BY <1>1, <2>1, FS_Surjection
  <2>3. \A c \in G : c.key \in Seq(Nat)
    BY <1>3, <1>5
  <2>4. \A c, d \in G : c.key = d.key => c = d
    BY <1>4, <1>5
  <2> QED BY <2>2, <2>3, <2>4 DEF Keyed
<1>7. Keyed({LengthCell(k) : k \in R})
  <2> DEFINE G == {LengthCell(k) : k \in R}
             f == [k \in R |-> LengthCell(k)]
  <2>1. f \in Surjection(R, G)
    BY DEF Surjection
  <2>2. IsFiniteSet(G)
    <3> HIDE DEF f, G
    <3> QED BY <1>1, <2>1, FS_Surjection
  <2>3. \A c \in G : c.key \in Seq(Nat)
    BY <1>3, <1>5
  <2>4. \A c, d \in G : c.key = d.key => c = d
    BY <1>4, <1>5
  <2> QED BY <2>2, <2>3, <2>4 DEF Keyed
<1> QED BY <1>3, <1>5, <1>6, <1>7

LEMMA NothingBelow ==
  ASSUME NEW E
  PROVE  From(E, <<>>) = E
<1>1. \A x : ~ LexLess(x, <<>>)
  BY DEF LexLess, IsStrictPrefix, IsPrefix
<1> QED BY <1>1 DEF From

(* The rows of a bucket, read through the index.                            *)
LEMMA BucketsAreExact ==
  ASSUME LayoutInv, form = "indexed", NEW b \in Buckets
  PROVE  MultiRange(Cells, OneStep(BucketBytes[b])) = InKeyOrder({RowCell(k) : k \in InBucket(b)})
<1> DEFINE s == <<BucketBytes[b]>>
           S == Named(MultiName, s)
           p == LengthPrefixed(S)
           L == {LengthCell(k) : k \in InBucket(b)}
           R == {RowCell(k) : k \in InBucket(b)}
           entries == RangeWithPrefix(Cells, PrefixKey(MultiName, s), NoBound, NoBound)
           f == [e \in L |-> DeserializeMulti(Cells, e)]
<1>1. s \in Seq(Name) /\ MultiName \in Name /\ IsMap(S) /\ <<>> \in Seq(Byte)
  BY LayoutNames, LayoutSteps, LaidMaps
<1>2. PrefixKey(MultiName, s) = p /\ p \in Seq(Byte)
  BY <1>1, PathKeys, NamedLists, PrefixedBounded
<1>3. ItemCells = {}
  BY ItemIsOutside
<1>4. CalcStartBound(p, NoBound) = p \o <<>>
  <2> HIDE DEF p
  <2> QED BY <1>2, ConcatEmptySeq DEF CalcStartBound
<1>5. Group(Entries, S) = L
  BY BucketGroup
<1>6. entries = InKeyOrder(L)
  <2> HIDE DEF L, S, s
  <2>1. RangeWithPrefix(Cells, LengthPrefixed(S), NoBound, NoBound)
          = InKeyOrder(From(Group(Entries, S), <<>>))
    BY <1>1, <1>3, <1>4, RangeOver
  <2> QED BY <1>2, <1>5, <2>1, NothingBelow
<1>7. InBucket(b) \in SUBSET Rows
  BY DEF InBucket
<1>8. /\ Keyed(R) /\ Keyed(L)
      /\ \A k \in InBucket(b) : /\ RowCell(k).key = JoinedKey(Steps(k))
                                /\ JoinedKey(Steps(k)) \in Seq(Byte)
                                /\ LengthCell(k).key = JoinedKey(Steps(k))
  BY <1>7, RowsAreKeyed
<1>9. ASSUME NEW k \in InBucket(b) PROVE DeserializeMulti(Cells, LengthCell(k)) = RowCell(k)
  <2> DEFINE key == JoinedKey(Steps(k))
             pk == SubSeq(LengthCell(k).key, Len(LengthCell(k).key) - LengthCell(k).value[2] + 1,
                          Len(LengthCell(k).key))
             wanted == NamespacesWithKey(<<PkName>>, key)
             row == CHOOSE c \in Cells : c.key = wanted
  <2>1. key \in Seq(Byte) /\ LengthCell(k).key = key /\ LengthCell(k).value[2] = Len(key)
    BY <1>8, CellParts DEF LengthCell
  <2>2. pk = key
    <3>1. Len(key) \in Nat /\ (Len(key) - Len(key)) + 1 = 1
      BY <2>1
    <3>2. SubSeq(key, 1, Len(key)) = key
      BY <2>1, SubSeqFull
    <3> QED BY <2>1, <3>1, <3>2
  <2>3. CellOf(RowEntry(k)) \in Cells
    <3>1. k \in Rows
      BY <1>7
    <3>2. RowEntry(k) \in Entries
      BY <3>1 DEF Entries, RowEntries
    <3> QED BY <3>2, CellsArePlaced DEF Placed
  <2>4. CellOf(RowEntry(k)).key = wanted /\ CellOf(RowEntry(k)).value = <<"row", primary[k]>>
    <3>1. CellOf(RowEntry(k)) = Cell(LengthPrefixed(Named(PkName, <<>>)) \o key, <<"row", primary[k]>>)
      BY PlacedEntry DEF RowEntry
    <3>2. Named(PkName, <<>>) = <<PkName>>
      BY DEF Named
    <3>3. wanted = LengthPrefixed(Named(PkName, <<>>)) \o key
      BY <3>2 DEF NamespacesWithKey
    <3> DEFINE v == <<"row", primary[k]>>
               full == LengthPrefixed(Named(PkName, <<>>)) \o key
    <3>4. CellOf(RowEntry(k)) = Cell(full, v)
      BY <3>1
    <3> HIDE DEF wanted, full, v
    <3>5. Cell(full, v).key = full /\ Cell(full, v).value = v
      BY CellParts
    <3>6. wanted = full
      BY <3>3 DEF full
    <3>7. CellOf(RowEntry(k)).key = wanted /\ CellOf(RowEntry(k)).value = v
      BY <3>4, <3>5, <3>6
    <3> QED BY <3>7 DEF v
  <2>5. row = CellOf(RowEntry(k))
    <3> HIDE DEF wanted
    <3>1. row \in Cells /\ row.key = wanted
      BY <2>3, <2>4
    <3> HIDE DEF row
    <3> QED BY <2>3, <2>4, <3>1, KeysAreUnique
  <2>6. DeserializeMulti(Cells, LengthCell(k)) = Cell(pk, (CHOOSE c \in Cells : c.key = NamespacesWithKey(<<PkName>>, pk)).value)
    BY DEF DeserializeMulti
  <2> HIDE DEF pk
  <2>7. DeserializeMulti(Cells, LengthCell(k)) = Cell(key, row.value)
    BY <2>2, <2>6
  <2> QED BY <2>4, <2>5, <2>7 DEF RowCell
<1>10. /\ f \in [L -> R] /\ \A e \in L : f[e].key = e.key
       /\ \A c \in R : \E e \in L : f[e] = c
  <2>1. \A k \in InBucket(b) : LengthCell(k) \in L /\ f[LengthCell(k)] = RowCell(k) /\ RowCell(k) \in R
    BY <1>9
  <2>2. \A e \in L : \E k \in InBucket(b) : e = LengthCell(k)
    OBVIOUS
  <2>3. \A c \in R : \E k \in InBucket(b) : c = RowCell(k)
    OBVIOUS
  <2>4. DOMAIN f = L /\ f = [e \in L |-> f[e]]
    OBVIOUS
  <2> HIDE DEF f, L, R
  <2>5. f \in [L -> R]
    BY <2>1, <2>2, <2>4
  <2>6. \A e \in L : f[e].key = e.key
    BY <1>8, <2>1, <2>2
  <2> QED BY <2>1, <2>3, <2>5, <2>6
<1>11. [i \in DOMAIN entries |-> f[entries[i]]] = InKeyOrder(R)
  <2> HIDE DEF f, L, R, entries
  <2> QED BY <1>6, <1>8, <1>10, SameOrder
<1>12. [i \in DOMAIN entries |-> f[entries[i]]]
         = [i \in DOMAIN entries |-> DeserializeMulti(Cells, entries[i])]
  <2>1. IsListing(entries, KeyOrder(L), L)
    <3> HIDE DEF L, entries
    <3> QED BY <1>6, <1>8, CellsAreListed
  <2>2. entries \in Seq(L)
    BY <2>1 DEF IsListing
  <2> HIDE DEF entries
  <2>3. \A i \in DOMAIN entries : entries[i] \in L
    <3> HIDE DEF L
    <3> QED BY <2>2, ElementOfSeq
  <2>4. \A e \in L : f[e] = DeserializeMulti(Cells, e)
    OBVIOUS
  <2> HIDE DEF f, L
  <2> QED BY <2>3, <2>4
<1>13. MultiRange(Cells, OneStep(BucketBytes[b]))
         = [i \in DOMAIN entries |-> DeserializeMulti(Cells, entries[i])]
  BY DEF MultiRange, OneStep
<1> QED BY <1>11, <1>12, <1>13

(* All rows, at once and in pages.                                          *)
LEMMA RowsAreExact ==
  ASSUME LayoutInv, form # "item"
  PROVE  LET p == PrefixKey(PkName, <<>>)
             everything == RangeWithPrefix(Cells, p, NoBound, NoBound)
         IN  /\ everything = InKeyOrder({RowCell(k) : k \in Rows})
             /\ \A limit \in Limits : Listed(Cells, p, limit, Len(everything)) = everything
<1> DEFINE S == Named(PkName, <<>>)
           p == PrefixKey(PkName, <<>>)
           E == {RowCell(k) : k \in Rows}
           everything == RangeWithPrefix(Cells, p, NoBound, NoBound)
<1>1. <<>> \in Seq(Name) /\ PkName \in Name /\ IsMap(S) /\ <<>> \in Seq(Byte)
  BY LayoutNames, LaidMaps
<1>2. p = LengthPrefixed(S) /\ p \in Seq(Byte)
  BY <1>1, PathKeys, NamedLists, PrefixedBounded
<1>3. ItemCells = {}
  BY ItemIsOutside
<1>4. Group(Entries, S) = E
  BY RowGroup
<1>5. Keyed(E) /\ \A e \in E : e.key \in Seq(Byte)
  BY RowsAreKeyed
<1> HIDE DEF S, p, E
<1>6. RangesGive(Cells, p, E)
  <2> SUFFICES ASSUME NEW start, NEW s \in Seq(Byte), CalcStartBound(p, start) = p \o s
               PROVE  RangeWithPrefix(Cells, p, start, NoBound) = InKeyOrder(From(E, s))
    BY DEF RangesGive
  <2>1. CalcStartBound(LengthPrefixed(S), start) = LengthPrefixed(S) \o s
    BY <1>2
  <2>2. RangeWithPrefix(Cells, LengthPrefixed(S), start, NoBound)
          = InKeyOrder(From(Group(Entries, S), s))
    BY <1>1, <1>3, <2>1, RangeOver
  <2> QED BY <1>2, <1>4, <2>2
<1>7. PagedCells(Cells, p, E)
  BY <1>2, <1>5, <1>6 DEF PagedCells
<1>8. everything = InKeyOrder(E)
  <2>1. CalcStartBound(p, NoBound) = p \o <<>>
    BY <1>2, ConcatEmptySeq DEF CalcStartBound
  <2>2. everything = InKeyOrder(From(E, <<>>))
    BY <1>1, <1>6, <2>1 DEF RangesGive
  <2> QED BY <2>2, NothingBelow
<1> HIDE DEF everything
<1>9. ASSUME NEW limit \in Limits PROVE Listed(Cells, p, limit, Len(everything)) = everything
  <2>1. limit \in Nat
    BY SnapshotLayoutAssumption DEF SnapshotLayoutAssumption
  <2> QED BY <1>7, <1>8, <2>1, PagesListAll
<1> QED BY <1>8, <1>9 DEF everything, p, E

LEMMA InvRanges ==
  ASSUME LayoutInv
  PROVE  RangesAreExact
<1>1. ASSUME NEW c \in Cells, NEW d \in Cells, c.key = d.key PROVE c = d
  BY <1>1, KeysAreUnique
<1>2. ASSUME NEW k \in IF form = "item" THEN {Unit} ELSE Keys, NEW h \in Heights
      PROVE  LET found == ChangesRange(Cells, k, h)
             IN  /\ found = <<>> <=> ChangesFrom(k, h) = {}
                 /\ found # <<>> => \E c \in Heights :
                      /\ IsFirstChange(k, h, c)
                      /\ Head(found) = Cell(IntKey(c), <<"old", changelog[k][c]>>)
  <2>1. k \in LaidKeys
    BY DEF LaidKeys
  <2> QED BY <2>1, ChangesAreExact
<1>3. ASSUME NEW h \in Heights, IsLatestCheckpoint(h)
      PROVE  Last(CheckpointsRange(Cells)).key = IntKey(h)
  BY <1>3, CheckpointsAreExact
<1>4. ASSUME form = "indexed", NEW b \in Buckets
      PROVE  MultiRange(Cells, OneStep(BucketBytes[b]))
               = InKeyOrder({RowCell(k) : k \in {j \in Rows : BucketOf[primary[j]] = b}})
  BY <1>4, BucketsAreExact DEF InBucket
<1>5. ASSUME form # "item"
      PROVE  LET everything == RangeWithPrefix(Cells, PrefixKey(PkName, <<>>), NoBound, NoBound)
             IN  /\ everything = InKeyOrder({RowCell(k) : k \in Rows})
                 /\ \A limit \in Limits :
                      Listed(Cells, PrefixKey(PkName, <<>>), limit, Len(everything)) = everything
  BY <1>5, RowsAreExact
<1> QED BY <1>1, <1>2, <1>3, <1>4, <1>5 DEF RangesAreExact


-----------------------------------------------------------------------------
(* The cells stay apart *)

(* Which keys a call writes, and that it leaves the indexes to others.      *)
LEMMA CallsKeepTheForm ==
  ASSUME SnapshotsTypeOK,
         \/ ItemCall
         \/ \E k \in Keys : MapCall(k) \/ IndexedCall(k)
  PROVE  \E k \in AllKeys : \E value :
           /\ Store(k, value)
           /\ form = "item" => k = Unit
           /\ form # "item" => k \in Keys
           /\ form # "indexed" => UNCHANGED indexes
<1>1. CASE ItemCall
  <2>1. PICK value : form = "item" /\ Store(Unit, value) /\ UNCHANGED indexes
    BY <1>1 DEF ItemCall, ItemSave, ItemRemove, ItemUpdate
  <2> QED BY <2>1 DEF AllKeys
<1>2. ASSUME NEW k \in Keys, MapCall(k)
      PROVE  \E value : form = "map" /\ Store(k, value) /\ UNCHANGED indexes
  BY <1>2 DEF MapCall, MapSave, MapRemove, MapUpdate
<1>3. ASSUME NEW k \in Keys, IndexedCall(k)
      PROVE  \E value : form = "indexed" /\ Store(k, value)
  BY <1>3 DEF IndexedCall, IndexedSave, IndexedRemove, IndexedUpdate, Replace
<1>4. CASE \E k \in Keys : MapCall(k)
  BY <1>2, <1>4 DEF AllKeys
<1>5. CASE \E k \in Keys : IndexedCall(k)
  BY <1>3, <1>5 DEF AllKeys
<1> QED BY <1>1, <1>4, <1>5

LEMMA StoreKeepsTheForm ==
  ASSUME LayoutInv, IndexInv', NEW k \in AllKeys, NEW value, Store(k, value),
         form = "item" => k = Unit, form # "item" => k \in Keys,
         form # "indexed" => UNCHANGED indexes
  PROVE  LayoutInv'
<1>1. /\ primary \in [AllKeys -> Maybe]
      /\ changelog \in [AllKeys -> [Heights -> Maybe \cup {Unchanged}]] /\ height \in Heights
  BY DEF LayoutInv, IndexInv, SnapshotsTypeOK
<1>2. /\ \A j \in AllKeys : j # k => primary'[j] = primary[j]
      /\ \A j \in AllKeys : j # k => changelog'[j] = changelog[j]
  <2>1. primary' = [primary EXCEPT ![k] = value]
    BY DEF Store
  <2>2. changelog' = changelog \/ changelog' = [changelog EXCEPT ![k][height] = primary[k]]
    BY DEF Store, WriteChange
  <2> QED BY <1>1, <2>1, <2>2
<1>3. form' = form
  BY DEF Store
<1>4. \A j \in Keys : j # Unit
  BY SnapshotsAssumption DEF SnapshotsAssumption
<1>5. OfTheForm'
  <2>1. form = "item" =>
          \A j \in Keys : primary'[j] = Absent /\ \A h \in Heights : ~ HasChangelog(j, h)'
    BY <1>2, <1>4 DEF LayoutInv, OfTheForm, HasChangelog, AllKeys
  <2>2. form # "item" => primary'[Unit] = Absent /\ \A h \in Heights : ~ HasChangelog(Unit, h)'
    BY <1>2, <1>4 DEF LayoutInv, OfTheForm, HasChangelog, AllKeys
  <2>3. form # "indexed" => multi' = {} /\ \A t \in Tags : unique'[t] = Absent
    BY DEF LayoutInv, OfTheForm, indexes
  <2> QED BY <1>3, <2>1, <2>2, <2>3 DEF OfTheForm
<1>6. FewRows'
  <2>1. PICK K \in SUBSET AllKeys : IsFiniteSet(K) /\ \A j \in AllKeys \ K : primary[j] = Absent
    BY DEF LayoutInv, FewRows
  <2>2. IsFiniteSet(K \cup {k}) /\ K \cup {k} \in SUBSET AllKeys
    BY <2>1, FS_AddElement
  <2>3. \A j \in AllKeys \ (K \cup {k}) : primary'[j] = Absent
    BY <1>2, <2>1
  <2> QED BY <2>2, <2>3 DEF FewRows
<1> QED BY <1>5, <1>6 DEF LayoutInv

LEMMA NextLayout ==
  ASSUME LayoutInv, [SnapshotsNext]_snapshotVars
  PROVE  LayoutInv'
<1>1. IndexInv' /\ SnapshotsTypeOK /\ SnapshotsTypeOK'
  BY NextIndexes DEF LayoutInv, IndexInv
<1>2. CASE ItemCall \/ \E k \in Keys : MapCall(k) \/ IndexedCall(k)
  <2>1. PICK k \in AllKeys : \E value :
           /\ Store(k, value)
           /\ form = "item" => k = Unit
           /\ form # "item" => k \in Keys
           /\ form # "indexed" => UNCHANGED indexes
    BY <1>1, <1>2, CallsKeepTheForm
  <2> QED BY <1>1, <2>1, StoreKeepsTheForm
<1>3. CASE UNCHANGED <<form, primary, changelog, multi, unique>>
  <2>1. OfTheForm'
    BY <1>3 DEF LayoutInv, OfTheForm, HasChangelog
  <2>2. FewRows'
    BY <1>3 DEF LayoutInv, FewRows
  <2> QED BY <1>1, <2>1, <2>2 DEF LayoutInv
<1>4. CASE NextBlock
  BY <1>3, <1>4 DEF NextBlock, snapshots, indexes
<1>5. CASE CheckpointCall
  BY <1>3, <1>5 DEF CheckpointCall, AddCheckpoint, RemoveCheckpoint, indexes
<1>6. CASE UNCHANGED snapshotVars
  BY <1>3, <1>6 DEF snapshotVars, snapshots, indexes
<1> QED BY <1>2, <1>4, <1>5, <1>6 DEF SnapshotsNext

LEMMA InitLayout ==
  ASSUME SnapshotsInit
  PROVE  LayoutInv
<1>1. IndexInv
  <2>1. RowsKeepTheirTag /\ TagsAreCopies /\ BucketsAreRows
    BY DEF SnapshotsInit, RowsKeepTheirTag, TagsAreCopies, BucketsAreRows
  <2> QED BY <2>1, InitType DEF IndexInv
<1>2. OfTheForm
  BY DEF SnapshotsInit, OfTheForm, HasChangelog, AllKeys
<1>3. FewRows
  <2>1. {} \in SUBSET AllKeys /\ IsFiniteSet({}) /\ \A k \in AllKeys : primary[k] = Absent
    BY FS_EmptySet DEF SnapshotsInit
  <2> QED BY <2>1 DEF FewRows
<1> QED BY <1>1, <1>2, <1>3 DEF LayoutInv

(* Every range over the raw store gives the entries of its own map, all of *)
(* them and in the order of their keys, whatever else lies in the store;   *)
(* no two entries share a raw key, the first change and the last           *)
(* checkpoint are read, the index finds the rows of a bucket and pages     *)
(* list every row once.                                                    *)
THEOREM RangesStayExact == SnapshotsSpec => []RangesAreExact
<1>1. SnapshotsInit => LayoutInv
  BY InitLayout
<1>2. LayoutInv /\ [SnapshotsNext]_snapshotVars => LayoutInv'
  BY NextLayout
<1>3. LayoutInv => RangesAreExact
  BY InvRanges
<1> QED BY <1>1, <1>2, <1>3, PTL DEF SnapshotsSpec

-----------------------------------------------------------------------------
(* The controllers and the wallets: types *)

LEMMA RemoveFirstType ==
  ASSUME NEW S, NEW s \in Seq(S), NEW e, Contains(s, e)
  PROVE  RemoveFirst(s, e) \in Seq(S)
<1> DEFINE I == {i \in 1..Len(s) : s[i] = e}
           p == Min(I)
<1>1. \E i \in 1..Len(s) : s[i] = e
  BY DEF Contains
<1>2. p \in 1..Len(s)
  <2>1. \E i \in I : \A j \in I : i <= j
    <3>1. Len(s) \in Nat /\ I \in SUBSET (1..Len(s)) /\ I # {}
      BY <1>1
    <3> HIDE DEF I
    <3> QED BY <3>1, MinimumExists
  <2>2. p \in I
    BY <2>1 DEF Min
  <2> QED BY <2>2
<1>3. RemoveFirst(s, e) = RemoveAt(s, p)
  <2>1. I # {}
    BY <1>1
  <2> QED BY <1>1, <2>1 DEF RemoveFirst, SelectInSeq
<1> HIDE DEF p
<1>4. HasInside(s, RemoveAt(s, p), p, s[p], S)
  BY <1>2, RemoveAtTakes
<1> QED BY <1>3, <1>4 DEF HasInside

LEMMA HooksNext ==
  ASSUME ControllersTypeOK, [ControllersNext]_controllersVars
  PROVE  (admin \in Admins \cup {NoAdmin} /\ hooks \in Seq(Admins))'
<1>1. admin \in Admins \cup {NoAdmin} /\ hooks \in Seq(Admins)
  BY DEF ControllersTypeOK
<1>2. ASSUME NEW caller \in Admins, NEW new \in Admins \cup {NoAdmin}, ExecuteUpdateAdmin(caller, new)
      PROVE  (admin \in Admins \cup {NoAdmin} /\ hooks \in Seq(Admins))'
  BY <1>1, <1>2 DEF ExecuteUpdateAdmin
<1>3. ASSUME NEW caller \in Admins, NEW hook \in Admins, ExecuteAddHook(caller, hook)
      PROVE  (admin \in Admins \cup {NoAdmin} /\ hooks \in Seq(Admins))'
  <2>1. Append(hooks, hook) \in Seq(Admins)
    BY <1>1
  <2> QED BY <1>1, <1>3, <2>1 DEF ExecuteAddHook, AddHook
<1>4. ASSUME NEW caller \in Admins, NEW hook \in Admins, ExecuteRemoveHook(caller, hook)
      PROVE  (admin \in Admins \cup {NoAdmin} /\ hooks \in Seq(Admins))'
  <2>1. Contains(hooks, hook) /\ hooks' = RemoveFirst(hooks, hook) /\ UNCHANGED admin
    BY <1>4 DEF ExecuteRemoveHook, RemoveHook
  <2> QED BY <1>1, <2>1, RemoveFirstType
<1>5. CASE UNCHANGED <<admin, hooks>>
  BY <1>1, <1>5
<1> QED BY <1>2, <1>3, <1>4, <1>5 DEF ControllersNext, controllersVars, CreateClaim, ClaimTokens, Tick

(* Admin, hooks, claims and what was paid stay in their types, through any  *)
(* changes of the admin, registrations and removals of hooks.               *)
THEOREM ControllersAreTyped == ControllersSpec => []ControllersTypeOK
<1>1. ControllersSpec => []ClaimsInv
  BY ClaimsInit, ClaimsNext, PTL DEF ControllersSpec
<1>2. ControllersInit => ControllersTypeOK
  <2>1. ASSUME ControllersInit PROVE ControllersTypeOK
    <3>1. admin \in Admins \cup {NoAdmin} /\ hooks \in Seq(Admins)
      BY <2>1 DEF ControllersInit
    <3>2. ClaimTypes
      BY <2>1, ClaimsInit DEF ClaimsInv
    <3> QED BY <3>1, <3>2 DEF ControllersTypeOK, ClaimTypes, ClaimLists
  <2> QED BY <2>1
<1>3. ControllersTypeOK /\ ClaimsInv' /\ [ControllersNext]_controllersVars => ControllersTypeOK'
  <2>1. ASSUME ControllersTypeOK, ClaimsInv', [ControllersNext]_controllersVars
        PROVE  ControllersTypeOK'
    <3>1. (admin \in Admins \cup {NoAdmin} /\ hooks \in Seq(Admins))'
      BY <2>1, HooksNext
    <3>2. ClaimTypes'
      BY <2>1 DEF ClaimsInv
    <3> QED BY <3>1, <3>2 DEF ControllersTypeOK, ClaimTypes, ClaimLists
  <2> QED BY <2>1
<1> QED BY <1>1, <1>2, <1>3, PTL DEF ControllersSpec

(* A wallet is a list of coins of known denominations with amounts that     *)
(* never run below zero, and neither does what was paid in less what was    *)
(* paid out.                                                                *)
THEOREM WalletsAreTyped == WalletSpec => []WalletTypeOK
<1>1. WalletSpec => []WalletInv
  BY WalletInvInit, WalletInvNext, PTL DEF WalletSpec
<1>2. WalletInv => WalletTypeOK
  BY DEF WalletInv, WalletTypeOK, Wallet, CoinSeqs
<1> QED BY <1>1, <1>2, PTL
=============================================================================
