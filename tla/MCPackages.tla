----------------------------- MODULE MCPackages -----------------------------
(* The registry of pairs, the controllers, the wallets, the Anchor          *)
(* integration and the marketing record of a token share nothing; a         *)
(* behaviour runs one of them and leaves the others where they began.       *)
EXTENDS Registry, Controllers, Wallets, Anchor, Marketing, TLC

CONSTANTS ann, bob, eve, uluna, uusd, fury, gold

VARIABLE subject

(* Two native assets and two tokens; the bytes of one begin those of        *)
(* another, and a key of two assets begins that of another pair.            *)
BytesOfAssets ==
  uluna :> <<5>> @@ uusd :> <<6>> @@ fury :> <<6, 7>> @@ gold :> <<6, 7, 7>>
DecimalsOfTokens == fury :> 6 @@ gold :> 8
PairInfoName == <<7, 7>>

(* Lists of up to two coins, and those of three that name one twice. *)
AllCoins == [denom : Denoms, amount : CoinAmounts]
SomeLists == SeqOf(AllCoins, 2) \cup {<<c, d, c>> : c, d \in AllCoins}
SomeFunds == {f \in SeqOf(AllCoins, 2) : \A i, j \in DOMAIN f : i < j => f[i].denom < f[j].denom}

(* A release by height and one by time. *)
MCPeriods == {[kind |-> "height", delta |-> 1], [kind |-> "time", delta |-> 3]}

PackagesInit ==
  /\ subject \in {"registry", "controllers", "wallets", "anchor", "marketing"}
  /\ RegistryInit /\ ControllersInit /\ WalletInit /\ AnchorInit /\ MarketingInit
  /\ subject # "registry" => config.pairCode = 1
  /\ subject # "controllers" => admin = ann
  /\ subject # "anchor" => account.anchor = One
  /\ subject # "marketing" => info = NoInfo

RunRegistry ==
  subject = "registry" /\ RegistryNext
    /\ UNCHANGED <<controllersVars, walletVars, anchorVars, marketingVars>>
RunControllers ==
  subject = "controllers" /\ ControllersNext
    /\ UNCHANGED <<registryVars, walletVars, anchorVars, marketingVars>>
RunWallets ==
  subject = "wallets" /\ WalletNext
    /\ UNCHANGED <<registryVars, controllersVars, anchorVars, marketingVars>>
RunAnchor ==
  subject = "anchor" /\ AnchorNext
    /\ UNCHANGED <<registryVars, controllersVars, walletVars, marketingVars>>
RunMarketing ==
  subject = "marketing" /\ MarketingNext
    /\ UNCHANGED <<registryVars, controllersVars, walletVars, anchorVars>>

PackagesNext ==
  /\ RunRegistry \/ RunControllers \/ RunWallets \/ RunAnchor \/ RunMarketing
  /\ UNCHANGED subject

PackagesSpec ==
  /\ PackagesInit
  /\ [][PackagesNext]_<<subject, registryVars, controllersVars, walletVars, anchorVars, marketingVars>>
=============================================================================
