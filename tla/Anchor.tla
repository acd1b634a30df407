------------------------------- MODULE Anchor -------------------------------
(***************************************************************************)
(* Anchor_Luna_Integration: a deposit is split into a part for the Anchor  *)
(* market and a part that is swapped to luna for the owner.                *)
(***************************************************************************)
EXTENDS Integers

CONSTANTS
  Investors, FirstInvestor, \* wallets; the one that instantiates
  One,                      \* Decimal::one in units of a portion
  StableAmounts,            \* amounts of the calls
  MaxStable                 \* bound: stable coins paid in

ASSUME AnchorAssumption ==
  /\ FirstInvestor \in Investors
  /\ One \in Nat \ {0}
  /\ StableAmounts \subseteq Nat
  /\ MaxStable \in Nat

Portion == 0..One

VARIABLES
  account,   \* CONFIG: owner, total_deposit and the two portions
  cash,      \* stable coins of the contract
  aust,      \* aUST of the contract
  market,    \* what the contract has sent: stable and aUST to Anchor, stable to the swap
  paidIn     \* stable coins deposited

anchorVars == <<account, cash, aust, market, paidIn>>

AnchorTypeOK ==
  /\ account \in [owner : Investors, total : Nat, anchor : Portion, luna : Portion]
  /\ cash \in Nat /\ aust \in Nat
  /\ market \in [stable : Nat, aust : Nat, swapped : Nat]
  /\ paidIn \in Nat

(* Mutant: each portion is only kept from exceeding the whole. *)
PortionsBounded(anchor, luna) == anchor <= One /\ luna <= One

SumToOne(anchor, luna) == anchor + luna = One

AnchorInit ==
  /\ \E a, l \in Portion :
       /\ a + l = One
       /\ account = [owner |-> FirstInvestor, total |-> 0, anchor |-> a, luna |-> l]
  /\ cash = 0 /\ aust = 0 /\ paidIn = 0
  /\ market = [stable |-> 0, aust |-> 0, swapped |-> 0]

(* Uint128 * Decimal *)
Share(amount, portion) == (amount * portion) \div One

(* The two messages go out one after the other; the chain refuses the whole *)
(* call when the contract cannot pay for both.  Anchor answers a deposit    *)
(* with aUST, some or none.                                                 *)
ExecuteDeposit(amount, minted) ==
  LET anchorDeposit == Share(amount, account.anchor)
      lunaSwap == Share(amount, account.luna) IN
  /\ paidIn + amount <= MaxStable
  /\ paidIn' = paidIn + amount
  /\ cash + amount >= anchorDeposit + lunaSwap
  /\ cash' = cash + amount - anchorDeposit - lunaSwap
  /\ account' = [account EXCEPT !.total = @ + anchorDeposit]
  /\ market' = [market EXCEPT !.stable = @ + anchorDeposit, !.swapped = @ + lunaSwap]
  /\ minted <= anchorDeposit
  /\ aust' = aust + minted

(* Anyone may have the aUST sent to Anchor; the hook asks for a balance     *)
(* where Anchor expects a redemption, and no stable coins come back.        *)
ExecuteWithdraw(amount) ==
  /\ amount <= aust
  /\ aust' = aust - amount
  /\ market' = [market EXCEPT !.aust = @ + amount]
  /\ UNCHANGED <<account, cash, paidIn>>

ExecuteSendToWallet(caller, amount) ==
  /\ caller = account.owner
  /\ amount <= cash
  /\ cash' = cash - amount
  /\ UNCHANGED <<account, aust, market, paidIn>>

ExecuteSetOwner(caller, new) ==
  /\ caller = account.owner
  /\ account' = [account EXCEPT !.owner = new]
  /\ UNCHANGED <<cash, aust, market, paidIn>>

ExecuteChangePortion(caller, anchor, luna) ==
  /\ caller = account.owner
  /\ SumToOne(anchor, luna)
  /\ account' = [account EXCEPT !.anchor = anchor, !.luna = luna]
  /\ UNCHANGED <<cash, aust, market, paidIn>>

AnchorNext ==
  \/ \E a \in StableAmounts, minted \in 0..MaxStable : ExecuteDeposit(a, minted)
  \/ \E a \in StableAmounts : ExecuteWithdraw(a)
  \/ \E caller \in Investors, a \in StableAmounts : ExecuteSendToWallet(caller, a)
  \/ \E caller, new \in Investors : ExecuteSetOwner(caller, new)
  \/ \E caller \in Investors, a, l \in Portion : ExecuteChangePortion(caller, a, l)

AnchorSpec == AnchorInit /\ [][AnchorNext]_anchorVars

-----------------------------------------------------------------------------

(* A deposit pays for its own messages: whatever the portions were set to   *)
(* in between, each share is rounded down, and the coins of the contract    *)
(* never shrink by a deposit; total_deposit is what Anchor was sent.        *)
DepositsPayThemselves ==
  [][/\ (paidIn' > paidIn => cash' >= cash)
     /\ account'.total = market'.stable]_anchorVars
=============================================================================
