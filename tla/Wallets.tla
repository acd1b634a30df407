------------------------------- MODULE Wallets -------------------------------
(***************************************************************************)
(* cw0::NativeBalance, a sorted list of coins kept in step with what is    *)
(* paid in and out, and the helpers of cw0::payment that read the funds of *)
(* a message.  Denominations are numbers in the order of their strings.    *)
(***************************************************************************)
EXTENDS Integers, SequencesExt

CONSTANTS
  Denoms,         \* denominations, ordered
  CoinAmounts,    \* amounts of the coins that come and go
  CoinLists,      \* lists of them, in any order and with repetitions
  Funds,          \* funds of messages: the bank allows one coin per denomination
  MaxPerDenom     \* bound: total per denomination

Coin == [denom : Denoms, amount : Nat]
Coins == [denom : Denoms, amount : CoinAmounts]

ASSUME WalletsAssumption ==
  /\ Denoms \subseteq Nat
  /\ CoinAmounts \subseteq Nat
  /\ CoinLists \subseteq Seq(Coins)
  /\ Funds \subseteq {f \in Seq(Coins) : \A i, j \in DOMAIN f : i < j => f[i].denom < f[j].denom}
  /\ MaxPerDenom \in Nat

VARIABLES
  wallet,   \* NativeBalance
  owned     \* what was paid in less what was paid out, per denomination

walletVars == <<wallet, owned>>

WalletTypeOK == wallet \in Seq(Coin) /\ owned \in [Denoms -> Nat]

WalletInit == wallet = <<>> /\ owned = [d \in Denoms |-> 0]

-----------------------------------------------------------------------------
(* NativeBalance *)

(* find: positions of a denomination, the first one first. *)
Found(w, denom) == {i \in DOMAIN w : w[i].denom = denom /\ \A j \in 1..(i - 1) : w[j].denom # denom}

Has(w, coin) == \E i \in Found(w, coin.denom) : w[i].amount >= coin.amount

IsEmpty(w) == \A i \in DOMAIN w : w[i].amount = 0

(* Mutant: the new coin goes behind the first larger one.                   *)
InsertBehind(w, denom) ==
  LET larger == {i \in DOMAIN w : w[i].denom >= denom} IN
  IF larger = {} THEN Len(w) + 1 ELSE 1 + CHOOSE i \in larger : \A j \in larger : i <= j

InsertPos(w, denom) ==
  LET larger == {i \in DOMAIN w : w[i].denom >= denom} IN
  IF larger = {} THEN Len(w) + 1 ELSE CHOOSE i \in larger : \A j \in larger : i <= j

AddCoin(w, coin) ==
  IF Found(w, coin.denom) = {}
  THEN InsertAt(w, InsertPos(w, coin.denom), coin)
  ELSE [i \in DOMAIN w |->
          IF i \in Found(w, coin.denom) THEN [w[i] EXCEPT !.amount = @ + coin.amount] ELSE w[i]]

AddWallet(w, other) ==
  LET sum[n \in 0..Len(other)] == IF n = 0 THEN w ELSE AddCoin(sum[n - 1], other[n])
  IN  sum[Len(other)]

Lowered(w, i, amount) ==
  IF w[i].amount = amount THEN RemoveAt(w, i) ELSE [w EXCEPT ![i].amount = @ - amount]

(* Sub: the results, none if there is no such coin or not enough of it.     *)
SubCoin(w, coin) ==
  {Lowered(w, i, coin.amount) : i \in {j \in Found(w, coin.denom) : w[j].amount >= coin.amount}}

SubCoins(w, list) ==
  LET left[n \in 0..Len(list)] ==
        IF n = 0 THEN {w} ELSE UNION {SubCoin(v, list[n]) : v \in left[n - 1]}
  IN  left[Len(list)]

SubSaturating(w, coin) ==
  {IF w[i].amount <= coin.amount THEN RemoveAt(w, i) ELSE Lowered(w, i, coin.amount) :
     i \in Found(w, coin.denom)}

(* normalize: drop the zeros, sort, and add each repeated denomination to   *)
(* the coin before it, from the last one back.  Which of two coins of one   *)
(* denomination is sorted first makes no difference to the merge.           *)
NonZero(w) == {i \in DOMAIN w : w[i].amount # 0}
Before(w, i, j) == w[i].denom < w[j].denom \/ (w[i].denom = w[j].denom /\ i < j)
Sorted(w) ==
  [n \in 1..Cardinality(NonZero(w)) |->
     w[CHOOSE i \in NonZero(w) : Cardinality({j \in NonZero(w) : Before(w, j, i)}) = n - 1]]

MergeCoin(coin, merged) ==
  IF merged # <<>> /\ Head(merged).denom = coin.denom
  THEN <<[coin EXCEPT !.amount = @ + Head(merged).amount]>> \o Tail(merged)
  ELSE <<coin>> \o merged

MergeDown(w) ==
  LET merged[n \in 0..Len(w)] ==
        IF n = 0 THEN <<>> ELSE MergeCoin(w[Len(w) - n + 1], merged[n - 1])
  IN  merged[Len(w)]

Normalize(w) == MergeDown(Sorted(w))

-----------------------------------------------------------------------------
(* Payments: the amount a message pays, or no result if it is refused.      *)

OneCoin(funds) == {funds[i] : i \in {j \in DOMAIN funds : Len(funds) = 1 /\ funds[j].amount # 0}}
MustPay(funds, denom) == {c.amount : c \in {d \in OneCoin(funds) : d.denom = denom}}
MayPay(funds, denom) ==
  IF funds = <<>> THEN {0}
  ELSE {funds[i].amount : i \in {j \in DOMAIN funds : Len(funds) = 1 /\ funds[j].denom = denom}}
NonPayable(funds) == funds = <<>>

-----------------------------------------------------------------------------
(* A contract that keeps a wallet *)

Total(list, denom) ==
  SumFunction([i \in DOMAIN list |-> IF list[i].denom = denom THEN list[i].amount ELSE 0])

Own(new) ==
  /\ \A d \in Denoms : new[d] <= MaxPerDenom
  /\ owned' = new

(* A wallet is made from any list of coins. *)
StartWith(list) ==
  /\ wallet = <<>>
  /\ wallet' = Normalize(list)
  /\ Own([d \in Denoms |-> Total(list, d)])

Deposit(funds, denom, required) ==
  \E amount \in IF required THEN MustPay(funds, denom) ELSE MayPay(funds, denom) :
    /\ wallet' = AddCoin(wallet, [denom |-> denom, amount |-> amount])
    /\ Own([owned EXCEPT ![denom] = @ + Total(funds, denom)])

DepositAll(list) ==
  /\ wallet' = AddWallet(wallet, list)
  /\ Own([d \in Denoms |-> owned[d] + Total(list, d)])

PayOut(funds, list) ==
  /\ NonPayable(funds)
  /\ wallet' \in SubCoins(wallet, list)
  /\ Own([d \in Denoms |-> owned[d] - Total(list, d)])

PayUpTo(coin) ==
  /\ wallet' \in SubSaturating(wallet, coin)
  /\ Own([owned EXCEPT ![coin.denom] = IF coin.amount > @ THEN 0 ELSE @ - coin.amount])

WalletNext ==
  \/ \E list \in CoinLists : StartWith(list) \/ DepositAll(list)
  \/ \E f \in Funds, d \in Denoms, required \in BOOLEAN : Deposit(f, d, required)
  \/ \E f \in Funds, list \in CoinLists : PayOut(f, list)
  \/ \E c \in Coins : PayUpTo(c)

WalletSpec == WalletInit /\ [][WalletNext]_walletVars

-----------------------------------------------------------------------------

(* However coins come and go, the wallet holds one coin per denomination in *)
(* order, worth what was paid in less what was paid out, and has and        *)
(* is_empty answer from it as they would from the amounts.  A coin of zero  *)
(* may stay behind: AddAssign stores what it is given.                      *)
WalletAgrees ==
  /\ \A i, j \in DOMAIN wallet : i < j => wallet[i].denom < wallet[j].denom
  /\ \A d \in Denoms : Total(wallet, d) = owned[d]
  /\ \A c \in Coins : c.amount > 0 => (Has(wallet, c) <=> owned[c.denom] >= c.amount)
  /\ IsEmpty(wallet) <=> \A d \in Denoms : owned[d] = 0
=============================================================================
