------------------------------- MODULE MCProxy -------------------------------
(***************************************************************************)
(* Inputs for model-checking the proxy and the pair: a provider, an        *)
(* investor, and one wallet that gives the rewards and receives what       *)
(* investors leave.                                                        *)
(***************************************************************************)
EXTENDS Proxy, TLC

CONSTANTS provider, investor, wallet, pair, proxy

SixAndSeven == [a \in Assets |-> IF a = "native" THEN 6 ELSE 7]

Start ==
  [lp |-> [p \in Parties |-> 0],
   native |-> [p \in Parties |-> CASE p = provider -> 2 [] p = investor -> 5 [] OTHER -> 0],
   fury |-> [p \in Parties |-> CASE p = provider -> 2 [] p = investor -> 3 [] p = wallet -> 6
                                   [] OTHER -> 0]]
OneStart == {Start}

(* The reward wallet allows for some rewards, not for all. *)
OneOrMoreRewards ==
  {[p \in Parties |-> IF p = wallet THEN n ELSE 6] : n \in {4}}

Both(native, fury) == [a \in Assets |-> IF a = "native" THEN native ELSE fury]
EvenAndUneven == {Both(2, 2), Both(2, 1)}

(* The provider deposits and redeems at the pair; the investor does the     *)
(* rest.  The administrator sets an address at a time.                      *)
RolesNext ==
  \/ ProvideLiquidity(provider, Both(2, 2), None, 2)
  \/ SendSharesToPair(provider, 1) \/ WithdrawThroughProxy(provider, 1)
  \/ \E deposit \in Deposits, tolerance \in Tolerances, sent \in Sent :
       ProvidePairForReward(investor, deposit, tolerance, sent)
  \/ ProvideNativeForReward(investor, 1, None, 1)
  \/ \E n \in Amounts : RewardClaim(investor, n, 0)
  \/ \E spread \in Spreads :
       \/ SwapNativeForFury(investor, 1, None, spread, 1)
       \/ SwapFuryForNative(investor, 1, None, spread, 0)
  \/ SendFuryToPair(investor, 2, 1500, 300)
  \/ GiveToPair(investor, "fury", 1)
  \/ \E address \in Addresses, date \in OpeningDates : Configure(Admin, {address}, date)
  \/ ExecuteMessage
  \/ Reply
  \/ Tick

RolesSpec == ProxyInit /\ [][RolesNext]_proxyVars
=============================================================================
