-------------------------------- MODULE Proxy --------------------------------
(***************************************************************************)
(* The proxy in front of the terraswap pair.  An authorized provider       *)
(* deposits through it and keeps the shares; an investor deposits, leaves  *)
(* the shares to a holder wallet, and is promised discounted fury tokens   *)
(* instead, fetched from a reward wallet and bonded until they mature;     *)
(* swaps and claims of bonded rewards open at a date.                      *)
(*                                                                         *)
(* A deposit is one transaction of several messages: the proxy sends a     *)
(* message, stores under its request id what to do next, and goes on when  *)
(* the reply arrives.  Each handler is an action, and so is the execution  *)
(* of a message by the token or the pair; a message that is refused undoes *)
(* the transaction.  Platform fees are checked and kept, since the bank    *)
(* message that should pass them on carries no coins.  HelloSub, which     *)
(* changes nothing, is left out.                                           *)
(***************************************************************************)
EXTENDS Pair

CONSTANTS
  Admin,                   \* admin_address
  Provider,                \* authorized_liquidity_provider
  Investors,               \* everybody else who calls
  PairRewardWallet,        \* pair_fury_reward_wallet
  NativeRewardWallet,      \* native_investment_reward_wallet
  LpHolder,                \* pair_lp_tokens_holder
  NativeReceiver,          \* native_investment_receive_wallet
  HundredPercent,          \* HUNDRED_PERCENT
  PairDiscount,            \* pair_discount_rate
  NativeDiscount,          \* native_discount_rate
  PairPeriod,              \* pair_bonding_period_in_sec
  NativePeriod,            \* native_bonding_period_in_sec
  PlatformFees,            \* platform_fees + transaction_fees
  SwapFees,                \* swap_fees
  MaxBonds,                \* max_bonding_limit_per_user
  OpeningDates,            \* dates of instantiation and configuration
  InitialHoldings,         \* what everybody holds at first
  InitialAllowances,       \* fury the proxy may take at first, by owner
  Deposits,                \* assets of the deposits
  Sent,                    \* native coins sent with a call
  Amounts,                 \* amounts of swaps, claims, withdrawals, gifts
  Tolerances, Beliefs, Spreads,  \* optional parameters of the calls
  MaxTime, MaxRequests     \* bounds: block time, request ids

Callers == {Provider} \cup Investors
Bond == [amount : Nat, period : Nat, start : Nat]
Actions == {"TransferCustomAssetsFromFundsOwner", "TransferToNativeInvestmentReceiveWallet",
            "IncreaseAllowance", "ProvideLiquidity"}
Addresses == {"pool_pair_address", "liquidity_token"}
Details == [next : Actions, deposit : Deposit, tolerance : Nat \cup {None},
            receiver : Parties, funds : Nat, user : Parties]

ASSUME ProxyAssumption ==
  /\ {Admin, PairRewardWallet, NativeRewardWallet, LpHolder, NativeReceiver} \cup Callers
       \subseteq Parties \ {PairContract, ProxyContract}
  /\ HundredPercent \in Nat \ {0}
  /\ {PairDiscount, NativeDiscount, PairPeriod, NativePeriod, PlatformFees, SwapFees, MaxBonds,
      MaxRequests} \subseteq Nat
  /\ MaxTime \in Nat \ {0}
  /\ OpeningDates \subseteq Nat \ {0}
  /\ InitialHoldings \subseteq Holdings
  /\ InitialAllowances \subseteq [Parties -> Nat]
  /\ Deposits \subseteq Deposit
  /\ Sent \cup Amounts \subseteq Nat
  /\ Tolerances \cup Beliefs \cup Spreads \subseteq Nat \cup {None}

VARIABLES
  now,          \* env.block.time
  configured,   \* the addresses that are set
  opening,      \* swap_opening_date
  held,         \* native coins, fury and LP tokens, by party
  allowance,    \* fury allowances given to the proxy, by owner
  pairAllowed,  \* fury allowance the proxy has given to the pair
  bonds,        \* BONDED_REWARDS_DETAILS
  requests,     \* SUB_REQ_ID, 0 if absent
  details,      \* SUB_MESSAGE_DETAILS, by the request ids that have some
  pending,      \* request id of the transaction, 0 between two, and its message
  before        \* storage when the transaction began

settings == <<now, configured, opening>>
stored == <<held, allowance, pairAllowed, bonds, requests, details>>
proxyVars == <<settings, stored, pending, before>>

(* The message has been executed, or there is none. *)
NoMessage == [kind |-> "None"]
Outside == [id |-> 0, message |-> NoMessage]
Idle == pending.id = 0
Storage == [held |-> held, allowance |-> allowance, pairAllowed |-> pairAllowed,
            bonds |-> bonds, requests |-> requests, details |-> details]

ProxyTypeOK ==
  /\ now \in 1..MaxTime
  /\ configured \in SUBSET Addresses
  /\ opening \in Nat
  /\ held \in Holdings
  /\ allowance \in [Parties -> Nat]
  /\ pairAllowed \in Nat
  /\ bonds \in [Parties -> Seq(Bond)]
  /\ requests \in 0..MaxRequests
  /\ DOMAIN details \subseteq 1..MaxRequests
  /\ \A id \in DOMAIN details : details[id] \in Details
  /\ pending.id \in 0..MaxRequests

ProxyInit ==
  /\ now = 1
  /\ configured \in SUBSET {"pool_pair_address"}
  /\ opening \in OpeningDates
  /\ held \in InitialHoldings
  /\ allowance \in InitialAllowances
  /\ pairAllowed = 0
  /\ bonds = [p \in Parties |-> <<>>]
  /\ requests = 0
  /\ details = [id \in {} |-> None]
  /\ pending = Outside
  /\ before = None

(* Either address may be left as it is. *)
Configure(sender, given, date) ==
  /\ Idle
  /\ sender = Admin
  /\ configured' = configured \cup given
  /\ opening' = date
  /\ UNCHANGED <<now, stored, pending, before>>

-----------------------------------------------------------------------------
(* Quotes; both divide by what the pool and the amount add up to. *)

FuryEquivalentToUst(n) ==
  Pool(held, "fury")
    - (Pool(held, "native") * Pool(held, "fury")) \div (Pool(held, "native") + n)
UstEquivalentToFury(n) ==
  Pool(held, "native")
    - (Pool(held, "fury") * Pool(held, "native")) \div (Pool(held, "fury") + n)

PairKnown == "pool_pair_address" \in configured

Quotable(deposit) ==
  /\ PairKnown
  /\ \A a \in Assets : Pool(held, a) + deposit[a] > 0

QueryPlatformFees(deposit, rate) ==
  ((UstEquivalentToFury(deposit["fury"]) + deposit["native"]) * rate) \div HundredPercent

Of(asset, n) == [a \in Assets |-> IF a = asset THEN n ELSE 0]

(* What was sent covers the deposit and the fees. *)
FeesPaid(deposit, rate, sent) ==
  /\ PairKnown
  /\ Pool(held, "fury") + deposit["fury"] > 0
  /\ sent >= deposit["native"] + QueryPlatformFees(deposit, rate)

(* The coins of a call are moved before it runs. *)
WithFunds(sender, sent) == Given(held, "native", sender, ProxyContract, sent)

-----------------------------------------------------------------------------
(* The messages of a transaction *)

TransferFrom(owner, n) == [kind |-> "TransferFrom", owner |-> owner, amount |-> n]
IncreaseAllowance(n) == [kind |-> "IncreaseAllowance", amount |-> n]
ToPair(d) == [kind |-> "ProvideLiquidity", deposit |-> d.deposit, tolerance |-> d.tolerance,
              receiver |-> d.receiver, funds |-> d.funds]
SwapNative(n, belief, spread, to) ==
  [kind |-> "Swap", amount |-> n, belief |-> belief, spread |-> spread, to |-> to]

(* A message with a new request id and, if it is not the last one, what to  *)
(* do when it is answered.                                                  *)
SendLast(message, kept) ==
  /\ requests < MaxRequests
  /\ requests' = requests + 1
  /\ details' = kept
  /\ pending' = [id |-> requests + 1, message |-> message]

SendSub(message, then, kept) ==
  SendLast(message, [id \in DOMAIN kept \cup {requests + 1} |->
                       IF id = requests + 1 THEN then ELSE kept[id]])

Begin == Idle /\ PairKnown /\ before' = Storage /\ UNCHANGED settings

(* provide_liquidity *)
ProvideLiquidityThrough(sender, deposit, tolerance, receiver, next, sent, passed) ==
  /\ Begin
  /\ sent <= held["native"][sender]
  /\ held' = WithFunds(sender, sent)
  /\ SendSub(TransferFrom(sender, deposit["fury"]),
             [next |-> next, deposit |-> deposit, tolerance |-> tolerance,
              receiver |-> receiver, funds |-> passed, user |-> sender],
             details)
  /\ UNCHANGED <<allowance, pairAllowed, bonds>>

ProvideLiquidity(sender, deposit, tolerance, sent) ==
  /\ sender = Provider
  /\ ProvideLiquidityThrough(sender, deposit, tolerance, Provider, "IncreaseAllowance",
                             sent, sent)

ProvidePairForReward(sender, deposit, tolerance, sent) ==
  /\ FeesPaid(deposit, PlatformFees, sent)
  /\ ProvideLiquidityThrough(sender, deposit, tolerance, LpHolder,
                             "TransferCustomAssetsFromFundsOwner", sent,
                             sent - QueryPlatformFees(deposit, PlatformFees))

(* transfer_custom_assets_from_funds_owner_to_proxy *)
PairReward(deposit) ==
  (2 * Lesser(FuryEquivalentToUst(deposit["native"]), deposit["fury"])
     * (HundredPercent + PairDiscount)) \div HundredPercent
NativeReward(n) ==
  (FuryEquivalentToUst(n) * (HundredPercent + NativeDiscount)) \div HundredPercent

MayBond(user) == Len(bonds[user]) < MaxBonds

BondReward(user, reward, period) ==
  /\ MayBond(user)
  /\ bonds' = [bonds EXCEPT ![user] =
                 Append(@, [amount |-> reward, period |-> period,
                            start |-> IF opening < now THEN now ELSE 0])]

ProvideNativeForReward(sender, n, tolerance, sent) ==
  LET deposit == Of("native", n)
  IN  /\ Begin
      /\ FeesPaid(deposit, PlatformFees, sent)
      /\ Pool(held, "native") + n > 0
      /\ sent <= held["native"][sender]
      /\ held' = WithFunds(sender, sent)
      /\ BondReward(sender, NativeReward(n), NativePeriod)
      /\ SendSub(TransferFrom(NativeRewardWallet, NativeReward(n)),
                 [next |-> "TransferToNativeInvestmentReceiveWallet", deposit |-> deposit,
                  tolerance |-> tolerance, receiver |-> NativeReceiver, funds |-> n,
                  user |-> sender],
                 details)
      /\ UNCHANGED <<allowance, pairAllowed>>

(* The native swap, which has nothing to do after the reply. *)
SwapNativeForFury(sender, n, belief, spread, sent) ==
  /\ Begin
  /\ opening <= now
  /\ FeesPaid(Of("native", n), PlatformFees + SwapFees, sent)
  /\ sent <= held["native"][sender]
  /\ held' = WithFunds(sender, sent)
  /\ SendLast(SwapNative(n, belief, spread, sender), details)
  /\ UNCHANGED <<allowance, pairAllowed, bonds>>

-----------------------------------------------------------------------------
(* The token and the pair execute a message *)

Message == pending.message
MessageSent(kind) == ~ Idle /\ Message.kind = kind

(* From then on the transaction goes on with the reply. *)
Executed ==
  /\ pending' = [pending EXCEPT !.message = NoMessage]
  /\ UNCHANGED <<settings, bonds, requests, details, before>>

CanTransferFrom(m) == m.amount <= allowance[m.owner] /\ m.amount <= held["fury"][m.owner]

ExecuteTransferFrom ==
  /\ MessageSent("TransferFrom")
  /\ CanTransferFrom(Message)
  /\ allowance' = [allowance EXCEPT ![Message.owner] = @ - Message.amount]
  /\ held' = Given(held, "fury", Message.owner, ProxyContract, Message.amount)
  /\ Executed /\ UNCHANGED pairAllowed

ExecuteIncreaseAllowance ==
  /\ MessageSent("IncreaseAllowance")
  /\ pairAllowed' = pairAllowed + Message.amount
  /\ Executed /\ UNCHANGED <<held, allowance>>

CanProvideNow(m) == CanProvide(held, pairAllowed, m.deposit, m.funds, m.tolerance)

ExecuteProvideLiquidity ==
  /\ MessageSent("ProvideLiquidity")
  /\ CanProvideNow(Message)
  /\ held' = Provided(held, Message.deposit, Message.receiver)
  /\ pairAllowed' = pairAllowed - Message.deposit["fury"]
  /\ Executed /\ UNCHANGED allowance

Offered(m) == Given(held, "native", ProxyContract, PairContract, m.amount)
CanSwapNow(m) ==
  /\ m.amount <= held["native"][ProxyContract]
  /\ CanSwap(Offered(m), "native", m.amount, m.belief, m.spread)

ExecuteSwap ==
  /\ MessageSent("Swap")
  /\ CanSwapNow(Message)
  /\ held' = Swapped(Offered(Message), "native", Message.amount, Message.to)
  /\ Executed /\ UNCHANGED <<allowance, pairAllowed>>

End == pending' = Outside /\ before' = None /\ UNCHANGED settings

(* The reply to a refused message, or a handler that fails itself, fails    *)
(* the transaction.                                                         *)
Rollback ==
  /\ held' = before.held
  /\ allowance' = before.allowance
  /\ pairAllowed' = before.pairAllowed
  /\ bonds' = before.bonds
  /\ requests' = before.requests
  /\ details' = before.details
  /\ End

(* Mutant: the reply takes a refused message for an executed one. *)
RefusalIgnored ==
  /\ \/ MessageSent("TransferFrom") /\ ~ CanTransferFrom(Message)
     \/ MessageSent("ProvideLiquidity") /\ ~ CanProvideNow(Message)
     \/ MessageSent("Swap") /\ ~ CanSwapNow(Message)
  /\ Executed /\ UNCHANGED <<held, allowance, pairAllowed>>

MessageRefused ==
  /\ \/ MessageSent("TransferFrom") /\ ~ CanTransferFrom(Message)
     \/ MessageSent("ProvideLiquidity") /\ ~ CanProvideNow(Message)
     \/ MessageSent("Swap") /\ ~ CanSwapNow(Message)
  /\ Rollback

-----------------------------------------------------------------------------
(* reply: the details are removed, and say what comes next. *)

Replied == ~ Idle /\ Message = NoMessage
Noted == pending.id \in DOMAIN details
Then == details[pending.id]

(* Mutant: they are kept. *)
AllKept == details

Remaining == Restrict(details, DOMAIN details \ {pending.id})

RepliedFor(next) == Replied /\ Noted /\ Then.next = next

ReplyFetchReward ==
  /\ RepliedFor("TransferCustomAssetsFromFundsOwner")
  /\ Quotable(Then.deposit)
  /\ BondReward(Then.user, PairReward(Then.deposit), PairPeriod)
  /\ SendSub(TransferFrom(PairRewardWallet, PairReward(Then.deposit)),
             [Then EXCEPT !.next = "IncreaseAllowance"], Remaining)
  /\ UNCHANGED <<settings, held, allowance, pairAllowed, before>>

ReplyTooManyBonds ==
  /\ RepliedFor("TransferCustomAssetsFromFundsOwner")
  /\ ~ (Quotable(Then.deposit) /\ MayBond(Then.user))
  /\ Rollback

ReplyIncreaseAllowance ==
  /\ RepliedFor("IncreaseAllowance")
  /\ SendSub(IncreaseAllowance(Then.deposit["fury"]),
             [Then EXCEPT !.next = "ProvideLiquidity"], Remaining)
  /\ UNCHANGED <<settings, held, allowance, pairAllowed, bonds, before>>

ReplyProvideLiquidity ==
  /\ RepliedFor("ProvideLiquidity")
  /\ SendLast(ToPair(Then), Remaining)
  /\ UNCHANGED <<settings, held, allowance, pairAllowed, bonds, before>>

ReplyTransferToReceiver ==
  /\ RepliedFor("TransferToNativeInvestmentReceiveWallet")
  /\ held' = Given(held, "native", ProxyContract, Then.receiver, Then.funds)
  /\ details' = Remaining
  /\ End
  /\ UNCHANGED <<allowance, pairAllowed, bonds, requests>>

ReplyNothingLeft ==
  /\ Replied /\ ~ Noted
  /\ End
  /\ UNCHANGED stored

-----------------------------------------------------------------------------
(* Handlers whose messages are not replied to: one action each *)

Whole ==
  /\ Idle
  /\ UNCHANGED <<settings, pairAllowed, requests, details, pending, before>>

(* swap of fury: to the proxy, and by Send on to the pair. *)
SwapFuryForNative(sender, n, belief, spread, sent) ==
  LET offered == Given(WithFunds(sender, sent), "fury", sender, PairContract, n)
  IN  /\ Whole
      /\ opening <= now
      /\ FeesPaid(Of("fury", n), PlatformFees + SwapFees, sent)
      /\ sent <= held["native"][sender]
      /\ n > 0 /\ n <= allowance[sender] /\ n <= held["fury"][sender]
      /\ allowance' = [allowance EXCEPT ![sender] = @ - n]
      /\ CanSwap(offered, "fury", n, belief, spread)
      /\ held' = Swapped(offered, "fury", n, sender)
      /\ UNCHANGED bonds

(* claim_investment_reward *)
BondStart(b) == IF b.start = 0 THEN opening ELSE b.start

Mature(b) == BondStart(b) + b.period < now

(* Mutant: the bond that is claimed in part is dropped. *)
TakeWholeBond(c, b) ==
  IF ~ Mature(b) \/ c.left = 0 THEN [c EXCEPT !.kept = Append(@, b)]
  ELSE [c EXCEPT !.left = @ - Lesser(@, b.amount)]

TakeFromBond(c, b) ==
  CASE ~ Mature(b) \/ c.left = 0 -> [c EXCEPT !.kept = Append(@, b)]
    [] Mature(b) /\ 0 < c.left /\ c.left < b.amount ->
         [left |-> 0, kept |-> Append(c.kept, [b EXCEPT !.amount = @ - c.left])]
    [] OTHER -> [c EXCEPT !.left = @ - b.amount]

Claimed(s, n) ==
  LET take[i \in 0..Len(s)] ==
        IF i = 0 THEN [left |-> n, kept |-> <<>>] ELSE TakeFromBond(take[i-1], s[i])
  IN  take[Len(s)]

RewardClaim(sender, n, sent) ==
  LET claim == Claimed(bonds[sender], n)
  IN  /\ Whole
      /\ opening <= now
      /\ FeesPaid(Of("fury", n), PlatformFees, sent)
      /\ sent <= held["native"][sender]
      /\ n > 0 /\ claim.left = 0
      /\ n <= held["fury"][ProxyContract]
      /\ bonds' = [bonds EXCEPT ![sender] = claim.kept]
      /\ held' = Given(WithFunds(sender, sent), "fury", ProxyContract, sender, n)
      /\ UNCHANGED allowance

(* Receive, withdraw_liquidity: the shares are sent on to the pair, whose   *)
(* sender is then the proxy.                                                *)
WithdrawThroughProxy(sender, n) ==
  LET shares == Given(held, "lp", sender, PairContract, n)
  IN  /\ Whole
      /\ configured = Addresses
      /\ n <= held["lp"][sender]
      /\ CanWithdraw(shares, n)
      /\ held' = Withdrawn(shares, ProxyContract, n)
      /\ UNCHANGED <<allowance, bonds>>

-----------------------------------------------------------------------------
(* Calls of the pair that do not go through the proxy *)

SendFuryToPair(sender, n, belief, spread) ==
  LET offered == Given(held, "fury", sender, PairContract, n)
  IN  /\ Whole
      /\ n > 0 /\ n <= held["fury"][sender]
      /\ CanSwap(offered, "fury", n, belief, spread)
      /\ held' = Swapped(offered, "fury", n, sender)
      /\ UNCHANGED <<allowance, bonds>>

SendSharesToPair(sender, n) ==
  LET shares == Given(held, "lp", sender, PairContract, n)
  IN  /\ Whole
      /\ n <= held["lp"][sender]
      /\ CanWithdraw(shares, n)
      /\ held' = Withdrawn(shares, sender, n)
      /\ UNCHANGED <<allowance, bonds>>

GiveToPair(sender, asset, n) ==
  /\ Whole
  /\ n > 0 /\ n <= held[asset][sender]
  /\ held' = Given(held, asset, sender, PairContract, n)
  /\ UNCHANGED <<allowance, bonds>>

-----------------------------------------------------------------------------
Call(sender) ==
  \/ \E deposit \in Deposits, tolerance \in Tolerances, sent \in Sent :
       \/ ProvideLiquidity(sender, deposit, tolerance, sent)
       \/ ProvidePairForReward(sender, deposit, tolerance, sent)
  \/ \E n \in Amounts, sent \in Sent :
       \/ ProvideNativeForReward(sender, n, None, sent)
       \/ RewardClaim(sender, n, sent)
       \/ \E belief \in Beliefs, spread \in Spreads :
            \/ SwapNativeForFury(sender, n, belief, spread, sent)
            \/ SwapFuryForNative(sender, n, belief, spread, sent)
  \/ \E n \in Amounts : WithdrawThroughProxy(sender, n)

PairCall(sender) ==
  \E n \in Amounts :
    \/ \E belief \in Beliefs, spread \in Spreads : SendFuryToPair(sender, n, belief, spread)
    \/ SendSharesToPair(sender, n)
    \/ \E asset \in Assets : GiveToPair(sender, asset, n)

ExecuteMessage ==
  \/ ExecuteTransferFrom
  \/ ExecuteIncreaseAllowance
  \/ ExecuteProvideLiquidity
  \/ ExecuteSwap
  \/ MessageRefused

Reply ==
  \/ ReplyFetchReward
  \/ ReplyTooManyBonds
  \/ ReplyIncreaseAllowance
  \/ ReplyProvideLiquidity
  \/ ReplyTransferToReceiver
  \/ ReplyNothingLeft

Tick ==
  /\ Idle
  /\ now < MaxTime
  /\ now' = now + 1
  /\ UNCHANGED <<configured, opening, stored, pending, before>>

ProxyNext ==
  \/ \E sender \in Callers : Call(sender) \/ PairCall(sender)
  \/ \E given \in SUBSET Addresses, date \in OpeningDates : Configure(Admin, given, date)
  \/ ExecuteMessage
  \/ Reply
  \/ Tick

ProxySpec == ProxyInit /\ [][ProxyNext]_proxyVars

-----------------------------------------------------------------------------
(* Properties *)

(* A share is never worth less afterwards, whatever was swapped, deposited, *)
(* redeemed or given: the product of the pools per square of the shares     *)
(* never falls.                                                             *)
ShareValueNeverFalls ==
  [][TotalShare(held) > 0 /\ TotalShare(held') > 0 =>
       Pool(held', "native") * Pool(held', "fury") * TotalShare(held) * TotalShare(held)
         >= Pool(held, "native") * Pool(held, "fury") * TotalShare(held') * TotalShare(held')
     ]_proxyVars

Bonded(user) == SumFunction([i \in DOMAIN bonds[user] |-> bonds[user][i].amount])

(* Between transactions the proxy holds the tokens of every bond, so that a *)
(* mature claim is not refused for want of tokens.                          *)
RewardsAreFunded ==
  Idle => SumFunction([u \in Callers |-> Bonded(u)]) <= held["fury"][ProxyContract]

(* Between transactions no request waits for a reply, and the pair has no   *)
(* allowance left with which it could take bonded tokens.                   *)
NothingLeftPending ==
  Idle => pairAllowed = 0 /\ DOMAIN details = {}

(* What the pair quotes holds: a swap right after a simulation pays what it  *)
(* said, and an offer that a reverse simulation named buys no more than was *)
(* asked for.                                                               *)
QuotesHold ==
  Idle => \A offer \in Assets, n \in Amounts :
    LET ask == Other(offer)
    IN  Pool(held, offer) > 0 /\ Pool(held, ask) > 0 =>
          /\ Returned([held EXCEPT ![offer][PairContract] = @ + n], offer, n)
               = Simulation(held, offer, n)
          /\ BeforeCommission(n) < Pool(held, ask) =>
               Simulation(held, offer, ReverseSimulation(held, ask, n)) <= n

Immature(user) ==
  SumFunction([i \in DOMAIN bonds[user] |->
                 IF Mature(bonds[user][i]) THEN 0 ELSE bonds[user][i].amount])

(* A reward that is not mature is never claimed, and a claim takes from the *)
(* bonds of the claimant exactly what it is paid.                           *)
ClaimsTakeMatureBonds ==
  [][Idle /\ Idle' /\ now' = now /\ opening' = opening =>
       \A u \in Callers :
         /\ Immature(u)' = Immature(u)
         /\ Bonded(u) - Bonded(u)' =
              IF bonds'[u] # bonds[u] THEN held'["fury"][u] - held["fury"][u] ELSE 0]_proxyVars
=============================================================================
