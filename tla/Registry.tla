------------------------------- MODULE Registry -------------------------------
(***************************************************************************)
(* terraswap_factory with the pairs and liquidity tokens it creates.       *)
(*                                                                         *)
(* A creation is one transaction of five steps: the factory notes the pair *)
(* in TMP_PAIR_INFO and instantiates the pair, which stores its record and *)
(* instantiates its liquidity token, whose address the reply to the pair   *)
(* adds, after which the reply to the factory asks the pair for it and     *)
(* registers the pair under the key of its assets.  Should a step fail     *)
(* the chain takes back all of them.                                       *)
(***************************************************************************)
EXTENDS Keyspace

CONSTANTS
  Users, FirstOwner,  \* wallets; the one that instantiates the factory
  Proxy,              \* proxy_contract_addr
  Natives, Tokens,    \* the assets
  AssetBytes,         \* as_bytes of an asset: denom or canonical address
  TokenDecimals,      \* what the token contracts say
  PairCodes, TokenCodes, \* code ids
  None,               \* nothing stored yet
  PairsName,          \* namespace of PAIRS
  ListLimits,         \* limits of the calls of query_pairs
  MaxPairs            \* bound: pairs created

Assets == Natives \cup Tokens
AssetPair == {p \in [1..2 -> Assets] : p[1] # p[2]}

ASSUME RegistryAssumption ==
  /\ FirstOwner \in Users
  /\ Natives \cap Tokens = {}
  /\ AssetBytes \in [Assets -> Seq(Byte)]
  /\ TokenDecimals \in [Tokens -> Nat]
  /\ None \notin Nat
  /\ PairsName \in Name
  /\ ListLimits \subseteq Nat
  /\ MaxPairs \in Nat

VARIABLES
  config,     \* CONFIG of the factory
  funded,     \* native assets the factory has a balance of
  tmp,        \* TMP_PAIR_INFO
  pairs,      \* PAIRS: the set of its entries
  contracts,  \* PAIR_INFO and PROXY_ADDRESS of the pair contracts, by number
  lpTokens,   \* minter of the liquidity tokens, by number
  stage,      \* what the transaction does next; "idle" between transactions
  before      \* what the chain goes back to should the transaction fail

created == <<tmp, contracts, lpTokens>>
registryVars == <<config, funded, pairs, created, stage, before>>

Config == [owner : Users, pairCode : PairCodes, tokenCode : TokenCodes]
PairInfo == [assets : AssetPair, decimals : [1..2 -> Nat], lpToken : Nat \cup {None}]
Entry == [key : Seq(Byte), contract : Nat, info : PairInfo]
Stages == {"idle", "pair", "token", "pairReply", "factoryReply"}

RegistryTypeOK ==
  /\ config \in Config
  /\ funded \subseteq Natives
  /\ tmp \in [key : Seq(Byte), assets : AssetPair, decimals : [1..2 -> Nat]] \cup {None}
  /\ pairs \subseteq Entry
  /\ contracts \in Seq([info : PairInfo, proxy : {Proxy}])
  /\ lpTokens \in Seq(Nat)
  /\ stage \in Stages

RegistryInit ==
  /\ config \in {[owner |-> FirstOwner, pairCode |-> p, tokenCode |-> t] :
                   p \in PairCodes, t \in TokenCodes}
  /\ funded = {}
  /\ tmp = None
  /\ pairs = {}
  /\ contracts = <<>>
  /\ lpTokens = <<>>
  /\ stage = "idle"
  /\ before = <<None, <<>>, <<>>>>

-----------------------------------------------------------------------------
(* Keys of the registry *)

(* Mutant: the assets are taken in the order they are given. *)
GivenOrder(assets) == AssetBytes[assets[1]] \o AssetBytes[assets[2]]

PairKey(assets) ==
  IF LexLess(AssetBytes[assets[2]], AssetBytes[assets[1]])
  THEN AssetBytes[assets[2]] \o AssetBytes[assets[1]]
  ELSE AssetBytes[assets[1]] \o AssetBytes[assets[2]]

Registered(key) == {e \in pairs : e.key = key}
QueryPair(assets) == Registered(PairKey(assets))

-----------------------------------------------------------------------------
(* Handlers of the factory *)

UpdateConfig(sender, owner, pairCode, tokenCode) ==
  /\ stage = "idle"
  /\ sender = config.owner
  /\ config' = [owner |-> owner, pairCode |-> pairCode, tokenCode |-> tokenCode]
  /\ UNCHANGED <<funded, pairs, created, stage, before>>

\* query_decimals: a native asset must be among the factory's own funds
HasDecimals(asset) == asset \in Tokens \/ asset \in funded
QueryDecimals(asset) == IF asset \in Natives THEN 6 ELSE TokenDecimals[asset]

CreatePair(x, y) ==
  /\ stage = "idle"
  /\ x # y
  /\ HasDecimals(x) /\ HasDecimals(y)
  /\ Registered(PairKey(<<x, y>>)) = {}
  /\ tmp' = [key |-> PairKey(<<x, y>>), assets |-> <<x, y>>,
             decimals |-> <<QueryDecimals(x), QueryDecimals(y)>>]
  /\ stage' = "pair"
  /\ before' = created
  /\ UNCHANGED <<config, funded, pairs, contracts, lpTokens>>

FactoryReply ==
  /\ stage = "factoryReply"
  /\ LET contract == Len(contracts)
     IN  pairs' = {e \in pairs : e.key # tmp.key} \cup
           {[key |-> tmp.key, contract |-> contract,
             info |-> [assets |-> tmp.assets, decimals |-> tmp.decimals,
                       lpToken |-> contracts[contract].info.lpToken]]}
  /\ stage' = "idle"
  /\ UNCHANGED <<config, funded, created, before>>

-----------------------------------------------------------------------------
(* The pair and its liquidity token *)

PairInstantiate ==
  /\ stage = "pair"
  /\ contracts' = Append(contracts,
       [info |-> [assets |-> tmp.assets, decimals |-> tmp.decimals, lpToken |-> None],
        proxy |-> Proxy])
  /\ stage' = "token"
  /\ UNCHANGED <<config, funded, pairs, tmp, lpTokens, before>>

\* terraswap_token: the pair may mint, without a cap
TokenInstantiate ==
  /\ stage = "token"
  /\ lpTokens' = Append(lpTokens, Len(contracts))
  /\ stage' = "pairReply"
  /\ UNCHANGED <<config, funded, pairs, tmp, contracts, before>>

PairReply ==
  /\ stage = "pairReply"
  /\ contracts' = [contracts EXCEPT ![Len(contracts)].info.lpToken = Len(lpTokens)]
  /\ stage' = "factoryReply"
  /\ UNCHANGED <<config, funded, pairs, tmp, lpTokens, before>>

-----------------------------------------------------------------------------
\* a code id that is none, an answer that cannot be parsed, no gas left
Abort ==
  /\ stage # "idle"
  /\ tmp' = before[1] /\ contracts' = before[2] /\ lpTokens' = before[3]
  /\ stage' = "idle"
  /\ UNCHANGED <<config, funded, pairs, before>>

Fund(asset) ==
  /\ stage = "idle"
  /\ funded' = funded \cup {asset}
  /\ UNCHANGED <<config, pairs, created, stage, before>>

CreationStep == PairInstantiate \/ TokenInstantiate \/ PairReply \/ FactoryReply
RegistryCall ==
  \/ \E sender, owner \in Users, p \in PairCodes, t \in TokenCodes :
       UpdateConfig(sender, owner, p, t)
  \/ Len(contracts) < MaxPairs /\ \E x, y \in Assets : CreatePair(x, y)
RegistryNext ==
  \/ RegistryCall
  \/ CreationStep
  \/ Abort
  \/ \E asset \in Natives : Fund(asset)

RegistrySpec == RegistryInit /\ [][RegistryNext]_registryVars

-----------------------------------------------------------------------------
(* Between transactions every pair contract is registered, once, under     *)
(* the key of its assets in either order, with the assets, decimals and    *)
(* liquidity token its own record has; no two pairs have the same assets;  *)
(* and its token is one that it, and no other pair, mints.                 *)
PairsAreRegistered ==
  stage = "idle" =>
    /\ \A i \in DOMAIN contracts :
         LET info == contracts[i].info
         IN  /\ QueryPair(info.assets)
                  = {[key |-> PairKey(info.assets), contract |-> i, info |-> info]}
             /\ QueryPair(<<info.assets[2], info.assets[1]>>) = QueryPair(info.assets)
             /\ info.lpToken \in DOMAIN lpTokens /\ lpTokens[info.lpToken] = i
    /\ \A e \in pairs : e.contract \in DOMAIN contracts

-----------------------------------------------------------------------------
(* read_pairs: a page begins behind the key of the last pair with a byte 1 *)

PairCells ==
  {[key |-> PathKey(PairsName, <<e.key>>), value |-> e.contract] : e \in pairs}
\* an exclusive raw bound is the bound with one more byte 0
AtPair(key) == Inclusive(key)  \* Mutant: a page begins with the last pair again
BehindPair(key) == Exclusive(Append(key, 1))
ReadPairs(start, limit) ==
  LET rest == RangeWithPrefix(PairCells, PrefixKey(PairsName, <<>>), start, NoBound)
  IN  SubSeq(rest, 1, IF Len(rest) < PageSize(limit) THEN Len(rest) ELSE PageSize(limit))
PairsListed(limit, pages) ==
  LET list[n \in 0..pages] ==
        IF n = 0 THEN <<>>
        ELSE list[n - 1] \o
               ReadPairs(IF list[n - 1] = <<>> THEN NoBound
                         ELSE BehindPair(Last(list[n - 1]).key), limit)
  IN  list[pages]

(* No pair has its key between that of another pair and that key with the   *)
(* bytes 1 and 0 behind it, from which the next page is read.               *)
PairKeysApart ==
  \A e, f \in pairs : LexLess(e.key, f.key) => ~ LexLess(f.key, e.key \o <<1, 0>>)

(* A client that takes up each page behind the last pair of the one before *)
(* sees every pair once, also where the key of one begins that of another. *)
PagesListPairs ==
  \A limit \in ListLimits :
    LET list == PairsListed(limit, Cardinality(pairs))
    IN  /\ Len(list) = Cardinality(pairs)
        /\ {list[i].value : i \in DOMAIN list} = {e.contract : e \in pairs}
=============================================================================
