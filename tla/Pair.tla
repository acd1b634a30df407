-------------------------------- MODULE Pair --------------------------------
(***************************************************************************)
(* The terraswap pair: a pool of native coins and fury tokens, the shares  *)
(* of which are the LP token.  Anyone swaps fury and redeems shares by     *)
(* sending tokens to it; deposits and native swaps come from the proxy.    *)
(*                                                                         *)
(* What the pool holds is what its address holds, so the handlers are      *)
(* operators from what everybody holds before, the funds of the call       *)
(* included, to what everybody holds after, each with the condition under  *)
(* which it succeeds.  Decimals are multiples of 1/Fraction; everything is *)
(* rounded down, as the code does.                                         *)
(***************************************************************************)
EXTENDS Integers, Sequences, FiniteSets, Functions

CONSTANTS
  Parties,            \* wallets and contracts
  PairContract,       \* the address of the pair
  ProxyContract,      \* PROXY_ADDRESS
  Fraction,           \* DECIMAL_FRACTIONAL of Decimal256
  CommissionRate,     \* COMMISSION_RATE, in multiples of 1/Fraction
  AssetDecimals,      \* asset_decimals, by asset
  None                \* a parameter that is not given

Assets == {"native", "fury"}
Holdings == [Assets \cup {"lp"} -> [Parties -> Nat]]
Deposit == [Assets -> Nat]

ASSUME PairAssumption ==
  /\ IsFiniteSet(Parties)
  /\ PairContract \in Parties
  /\ ProxyContract \in Parties \ {PairContract}
  /\ Fraction \in Nat \ {0}
  /\ CommissionRate \in 0..(Fraction - 1)
  /\ AssetDecimals \in [Assets -> Nat]
  /\ None \notin Nat

Other(asset) == CHOOSE a \in Assets : a # asset

(* Tokens are moved, minted and burned by the contracts that keep them.     *)
Given(h, asset, from, to, n) ==
  [[h EXCEPT ![asset][from] = @ - n] EXCEPT ![asset][to] = @ + n]
Minted(h, to, n) == [h EXCEPT !["lp"][to] = @ + n]
Burned(h, from, n) == [h EXCEPT !["lp"][from] = @ - n]

Times(n, decimal) == (n * decimal) \div Fraction
Ratio(n, d) == (n * Fraction) \div d

Pool(h, asset) == h[asset][PairContract]
TotalShare(h) == SumFunctionOnSet(h["lp"], Parties)

-----------------------------------------------------------------------------
(* compute_swap *)

Asked(offerPool, askPool, n) ==
  (askPool * Fraction - Ratio(offerPool * askPool, offerPool + n)) \div Fraction

Commission(offerPool, askPool, n) == Times(Asked(offerPool, askPool, n), CommissionRate)
ReturnAmount(offerPool, askPool, n) ==
  Asked(offerPool, askPool, n) - Commission(offerPool, askPool, n)
SpreadAmount(offerPool, askPool, n) ==
  Times(n, Ratio(askPool, offerPool)) - Asked(offerPool, askPool, n)

(* The smaller of two scales is raised to the larger. *)
Scale(asset) ==
  LET more == AssetDecimals[Other(asset)] - AssetDecimals[asset]
  IN  IF more > 0 THEN 10 ^ more ELSE 1

(* assert_max_spread; a division by zero fails the call. *)
SpreadAccepted(offer, n, return, spread, beliefPrice, maxSpread) ==
  LET offered  == n * Scale(offer)
      returned == return * Scale(Other(offer))
      spreaded == spread * Scale(Other(offer))
      expected == (offered * Fraction) \div beliefPrice
  IN  CASE maxSpread = None -> TRUE
        [] maxSpread # None /\ beliefPrice = None ->
             /\ returned + spreaded > 0
             /\ Ratio(spreaded, returned + spreaded) <= maxSpread
        [] OTHER ->
             /\ beliefPrice > 0
             /\ returned < expected => Ratio(expected - returned, expected) <= maxSpread

(* Mutant: the offer counts as if it had been in the pool before. *)
OfferPoolWithOffer(h, offer, n) == Pool(h, offer)

(* swap: the offer is in the pool already. *)
OfferPool(h, offer, n) == Pool(h, offer) - n
Returned(h, offer, n) == ReturnAmount(OfferPool(h, offer, n), Pool(h, Other(offer)), n)

CanSwap(h, offer, n, beliefPrice, maxSpread) ==
  LET offerPool == OfferPool(h, offer, n)
      askPool   == Pool(h, Other(offer))
  IN  /\ offerPool > 0
      /\ SpreadAmount(offerPool, askPool, n) >= 0
      /\ SpreadAccepted(offer, n, Returned(h, offer, n), SpreadAmount(offerPool, askPool, n),
                        beliefPrice, maxSpread)

Swapped(h, offer, n, to) ==
  Given(h, Other(offer), PairContract, to, Returned(h, offer, n))

-----------------------------------------------------------------------------
(* provide_liquidity, called by the proxy *)

SquareRoot(n) == CHOOSE r \in 0..n : r * r <= n /\ n < (r + 1) * (r + 1)
Lesser(m, n) == IF m <= n THEN m ELSE n

(* assert_slippage_tolerance *)
SlippageAccepted(h, deposit, tolerance) ==
  tolerance # None =>
    /\ tolerance <= Fraction
    /\ \A a \in Assets : deposit[a] > 0 /\ Pool(h, a) > 0
    /\ \A a \in Assets :
         Times(Ratio(deposit[a], deposit[Other(a)]), Fraction - tolerance)
           <= Ratio(Pool(h, a), Pool(h, Other(a)))

(* Mutant: the larger of the two proportions counts. *)
ShareOfLarger(h, deposit) ==
  LET proportion(a) == (deposit[a] * TotalShare(h)) \div Pool(h, a)
  IN  IF TotalShare(h) = 0 THEN SquareRoot(deposit["native"] * deposit["fury"])
      ELSE proportion("native") + proportion("fury")
             - Lesser(proportion("native"), proportion("fury"))

Share(h, deposit) ==
  LET proportion(a) == (deposit[a] * TotalShare(h)) \div Pool(h, a)
  IN  IF TotalShare(h) = 0 THEN SquareRoot(deposit["native"] * deposit["fury"])
      ELSE Lesser(proportion("native"), proportion("fury"))

(* The native coins come with the call and must be the ones it names, the   *)
(* fury tokens are taken from an allowance of the proxy.                    *)
CanProvide(h, allowed, deposit, funds, tolerance) ==
  /\ funds = deposit["native"]
  /\ deposit["native"] <= h["native"][ProxyContract]
  /\ deposit["fury"] <= allowed
  /\ deposit["fury"] <= h["fury"][ProxyContract]
  /\ SlippageAccepted(h, deposit, tolerance)
  /\ TotalShare(h) > 0 => \A a \in Assets : Pool(h, a) > 0
  /\ Share(h, deposit) > 0

Provided(h, deposit, receiver) ==
  Minted(Given(Given(h, "native", ProxyContract, PairContract, deposit["native"]),
               "fury", ProxyContract, PairContract, deposit["fury"]),
         receiver, Share(h, deposit))

-----------------------------------------------------------------------------
(* withdraw_liquidity, through Send of the LP token: the shares are with    *)
(* the pair already; neither token nor bank transfers an amount of 0.       *)
ShareRatio(h, n) == Ratio(n, TotalShare(h))
Refund(h, asset, n) == Times(Pool(h, asset), ShareRatio(h, n))

CanWithdraw(h, n) == n > 0 /\ \A a \in Assets : Refund(h, a, n) > 0

Withdrawn(h, sender, n) ==
  Burned(Given(Given(h, "native", PairContract, sender, Refund(h, "native", n)),
               "fury", PairContract, sender, Refund(h, "fury", n)),
         PairContract, n)

-----------------------------------------------------------------------------
(* query_simulation and query_reverse_simulation, asked before the offer    *)
(* is sent.                                                                 *)
Simulation(h, offer, n) == ReturnAmount(Pool(h, offer), Pool(h, Other(offer)), n)

(* compute_offer_amount *)
BeforeCommission(n) == Times(n, Ratio(Fraction, Fraction - CommissionRate))
OfferAmount(offerPool, askPool, n) ==
  (offerPool * askPool) \div (askPool - BeforeCommission(n)) - offerPool

ReverseSimulation(h, ask, n) == OfferAmount(Pool(h, Other(ask)), Pool(h, ask), n)
=============================================================================
