------------------------------ MODULE ProxyProofs ------------------------------
(***************************************************************************)
(* What holds of the transactions of the proxy for any deposits, amounts   *)
(* and rates, whatever the pair and the token answer.  First the chain of  *)
(* messages is followed, whatever is held by whom.  Then the arithmetic of *)
(* the pair and of the quotes is bounded, the bonds are added up, and the  *)
(* fury of the proxy is accounted for at every message: what its bonds     *)
(* promise, what a deposit has it pass on, and what it is about to fetch.  *)
(* Last come what the pair quotes, and what a share of its pools is worth. *)
(***************************************************************************)
EXTENDS Proxy, InductionLemmas

LetsPairTake == "ProvideLiquidity"
Earlier == Actions \ {LetsPairTake}

NextStep(then) ==
  {"next", "deposit"} \subseteq DOMAIN then /\ then.deposit["fury"] \in Nat

(* What a transaction has left in the storage, by the message it goes on    *)
(* with: there is one record as long as there is something to do after the  *)
(* reply, and the pair is allowed just what it will be asked to take.       *)
Transferring ==
  /\ DOMAIN details = {pending.id} /\ pairAllowed = 0
  /\ NextStep(Then) /\ Then.next \in Earlier

Allowing ==
  /\ DOMAIN details = {pending.id} /\ pairAllowed = 0
  /\ NextStep(Then) /\ Then.next = LetsPairTake
  /\ Message.amount = Then.deposit["fury"]

Providing ==
  /\ DOMAIN details = {}
  /\ pairAllowed \in Nat /\ pairAllowed = Message.deposit["fury"]

Swapping == DOMAIN details = {} /\ pairAllowed = 0

Answered ==
  \/ DOMAIN details = {} /\ pairAllowed = 0
  \/ /\ DOMAIN details = {pending.id}
     /\ NextStep(Then)
     /\ \/ Then.next \in Earlier /\ pairAllowed = 0
        \/ Then.next = LetsPairTake /\ pairAllowed = Then.deposit["fury"]

Underway ==
  \/ Message.kind = "TransferFrom" /\ Transferring
  \/ Message.kind = "IncreaseAllowance" /\ Allowing
  \/ Message.kind = "ProvideLiquidity" /\ Providing
  \/ Message.kind = "Swap" /\ Swapping
  \/ Message = NoMessage /\ Answered

(* A transaction that is undone leaves nothing either.                      *)
BeganClean ==
  /\ before.requests \in Nat
  /\ before.pairAllowed = 0
  /\ DOMAIN before.details = {}

ChainInv ==
  /\ requests \in Nat
  /\ pending.id \in Nat
  /\ Idle => pairAllowed = 0 /\ DOMAIN details = {}
  /\ ~ Idle => BeganClean /\ Underway

-----------------------------------------------------------------------------
LEMMA FuryOfDeposits ==
  /\ \A deposit \in Deposits : deposit["fury"] \in Nat
  /\ \A n : Of("native", n)["fury"] = 0
<1>1. "fury" \in Assets
  BY DEF Assets
<1> QED BY <1>1, ProxyAssumption DEF ProxyAssumption, Deposit, Of

LEMMA FirstMessage ==
  ASSUME ChainInv, Begin, NEW owner, NEW n, NEW then,
         NextStep(then), then.next \in Earlier,
         SendSub(TransferFrom(owner, n), then, details), pairAllowed' = pairAllowed
  PROVE  ChainInv'
<1>1. /\ pairAllowed = 0 /\ DOMAIN details = {} /\ requests \in Nat
      /\ before' = Storage
  BY DEF ChainInv, Begin
<1>2. BeganClean'
  BY <1>1 DEF BeganClean, Storage
<1>3. /\ requests' = requests + 1
      /\ pending' = [id |-> requests + 1, message |-> TransferFrom(owner, n)]
      /\ details' = [id \in DOMAIN details \cup {requests + 1} |->
                       IF id = requests + 1 THEN then ELSE details[id]]
  BY DEF SendSub, SendLast
<1>4. /\ pending'.id = requests + 1 /\ pending'.message.kind = "TransferFrom"
      /\ DOMAIN details' = {requests + 1} /\ details'[requests + 1] = then
  BY <1>1, <1>3 DEF TransferFrom
<1>5. Transferring'
  BY <1>1, <1>4 DEF Transferring, Then
<1>6. (Message.kind = "TransferFrom")' /\ (~ Idle)'
  BY <1>1, <1>4 DEF Message, Idle
<1> QED BY <1>1, <1>2, <1>3, <1>4, <1>5, <1>6 DEF ChainInv, Underway

LEMMA ProvideInv ==
  ASSUME ChainInv, NEW sender, NEW deposit \in Deposits, NEW tolerance, NEW receiver,
         NEW next \in Earlier, NEW sent, NEW passed,
         ProvideLiquidityThrough(sender, deposit, tolerance, receiver, next, sent, passed)
  PROVE  ChainInv'
<1>1. PICK then : then = [next |-> next, deposit |-> deposit, tolerance |-> tolerance,
                          receiver |-> receiver, funds |-> passed, user |-> sender]
  OBVIOUS
<1>2. NextStep(then) /\ then.next \in Earlier
  BY <1>1, FuryOfDeposits DEF NextStep
<1>3. /\ Begin /\ pairAllowed' = pairAllowed
      /\ SendSub(TransferFrom(sender, deposit["fury"]), then, details)
  BY <1>1 DEF ProvideLiquidityThrough
<1> QED BY <1>2, <1>3, FirstMessage

LEMMA ProvideNativeInv ==
  ASSUME ChainInv, NEW sender, NEW n, NEW tolerance, NEW sent,
         ProvideNativeForReward(sender, n, tolerance, sent)
  PROVE  ChainInv'
<1>1. PICK then : then = [next |-> "TransferToNativeInvestmentReceiveWallet",
                          deposit |-> Of("native", n), tolerance |-> tolerance,
                          receiver |-> NativeReceiver, funds |-> n, user |-> sender]
  OBVIOUS
<1>2. NextStep(then) /\ then.next \in Earlier
  BY <1>1, FuryOfDeposits DEF NextStep, Earlier, Actions, LetsPairTake
<1>3. /\ Begin /\ pairAllowed' = pairAllowed
      /\ SendSub(TransferFrom(NativeRewardWallet, NativeReward(n)), then, details)
  BY <1>1 DEF ProvideNativeForReward
<1> QED BY <1>2, <1>3, FirstMessage

LEMMA SwapNativeInv ==
  ASSUME ChainInv, NEW sender, NEW n, NEW belief, NEW spread, NEW sent,
         SwapNativeForFury(sender, n, belief, spread, sent)
  PROVE  ChainInv'
<1>1. /\ pairAllowed = 0 /\ DOMAIN details = {} /\ requests \in Nat
      /\ before' = Storage /\ pairAllowed' = pairAllowed
      /\ requests' = requests + 1 /\ details' = details
      /\ pending' = [id |-> requests + 1, message |-> SwapNative(n, belief, spread, sender)]
  BY DEF ChainInv, Begin, SwapNativeForFury, SendLast
<1>2. BeganClean'
  BY <1>1 DEF BeganClean, Storage
<1>3. pending'.id = requests + 1 /\ pending'.message.kind = "Swap"
  BY <1>1 DEF SwapNative
<1>4. Swapping'
  BY <1>1 DEF Swapping
<1>5. (Message.kind = "Swap")' /\ (~ Idle)'
  BY <1>1, <1>3 DEF Message, Idle
<1> QED BY <1>1, <1>2, <1>3, <1>4, <1>5 DEF ChainInv, Underway

-----------------------------------------------------------------------------
(* What follows the execution of a message, whose effect on the allowance   *)
(* of the pair is n.                                                        *)
LEMMA ExecutedInv ==
  ASSUME ChainInv, ~ Idle, Executed,
         \/ DOMAIN details = {} /\ pairAllowed' = 0
         \/ /\ DOMAIN details = {pending.id}
            /\ NextStep(Then)
            /\ \/ Then.next \in Earlier /\ pairAllowed' = 0
               \/ Then.next = LetsPairTake /\ pairAllowed' = Then.deposit["fury"]
  PROVE  ChainInv'
<1>1. /\ pending' = [pending EXCEPT !.message = NoMessage]
      /\ requests' = requests /\ details' = details /\ before' = before
  BY DEF Executed
<1>2. pending'.id = pending.id
  BY <1>1
<1>3. Then' = Then
  BY <1>1, <1>2 DEF Then
<1>4. Answered'
  BY <1>1, <1>2, <1>3 DEF Answered
<1>5. BeganClean'
  BY <1>1 DEF ChainInv, BeganClean
<1>6. (~ Idle)'
  BY <1>2 DEF Idle
<1> QED BY <1>1, <1>2, <1>4, <1>5, <1>6 DEF ChainInv, Underway, Message

LEMMA ExecuteInv ==
  ASSUME ChainInv,
         \/ ExecuteTransferFrom \/ ExecuteIncreaseAllowance
         \/ ExecuteProvideLiquidity \/ ExecuteSwap
  PROVE  ChainInv'
<1>1. ~ Idle /\ Underway /\ Executed
  BY DEF ChainInv, ExecuteTransferFrom, ExecuteIncreaseAllowance, ExecuteProvideLiquidity,
         ExecuteSwap, MessageSent
<1>2. CASE ExecuteTransferFrom
  <2>1. Transferring /\ pairAllowed' = pairAllowed
    BY <1>1, <1>2 DEF ExecuteTransferFrom, MessageSent, Underway, NoMessage
  <2> QED BY <1>1, <2>1, ExecutedInv DEF Transferring
<1>3. CASE ExecuteIncreaseAllowance
  <2>1. Allowing /\ pairAllowed' = pairAllowed + Message.amount
    BY <1>1, <1>3 DEF ExecuteIncreaseAllowance, MessageSent, Underway, NoMessage
  <2>2. PICK n \in Nat : n = Then.deposit["fury"]
    BY <2>1 DEF Allowing, NextStep
  <2>3. pairAllowed' = 0 + n
    BY <2>1, <2>2 DEF Allowing
  <2>4. pairAllowed' = Then.deposit["fury"]
    BY <2>2, <2>3
  <2> QED BY <1>1, <2>1, <2>4, ExecutedInv DEF Allowing
<1>4. CASE ExecuteProvideLiquidity
  <2>1. Providing /\ pairAllowed' = pairAllowed - Message.deposit["fury"]
    BY <1>1, <1>4 DEF ExecuteProvideLiquidity, MessageSent, Underway, NoMessage
  <2>2. pairAllowed' = 0
    BY <2>1 DEF Providing
  <2> QED BY <1>1, <2>1, <2>2, ExecutedInv DEF Providing
<1>5. CASE ExecuteSwap
  <2>1. Swapping /\ pairAllowed' = pairAllowed
    BY <1>1, <1>5 DEF ExecuteSwap, MessageSent, Underway, NoMessage
  <2> QED BY <1>1, <2>1, ExecutedInv DEF Swapping
<1> QED BY <1>2, <1>3, <1>4, <1>5

LEMMA RollbackInv ==
  ASSUME ChainInv, ~ Idle, Rollback
  PROVE  ChainInv'
<1>1. BeganClean
  BY DEF ChainInv
<1>2. /\ requests' = before.requests /\ pairAllowed' = before.pairAllowed
      /\ details' = before.details /\ pending' = Outside
  BY DEF Rollback, End
<1>3. Idle'
  BY <1>2 DEF Idle, Outside
<1> QED BY <1>1, <1>2, <1>3 DEF ChainInv, BeganClean, Outside

-----------------------------------------------------------------------------
(* What a reply may rely on.                                                *)
LEMMA AtReply ==
  ASSUME ChainInv, Replied
  PROVE  /\ ~ Idle /\ Answered /\ BeganClean /\ requests \in Nat
         /\ DOMAIN Remaining = {}
         /\ Noted => DOMAIN details = {pending.id} /\ NextStep(Then)
<1>1. ~ Idle /\ Message = NoMessage /\ BeganClean /\ Underway /\ requests \in Nat
  BY DEF ChainInv, Replied
<1>2. Answered
  BY <1>1 DEF Underway, NoMessage
<1>3. DOMAIN Remaining = {}
  BY <1>2 DEF Answered, Remaining, Restrict
<1> QED BY <1>1, <1>2, <1>3 DEF Answered, Noted

LEMMA Redirected ==
  ASSUME NEW then, NextStep(then), NEW next
  PROVE  LET d == [then EXCEPT !.next = next]
         IN  NextStep(d) /\ d.next = next /\ d.deposit = then.deposit
BY DEF NextStep

(* A reply that sends the message n, with something to do when it returns.  *)
LEMMA SendSubStep ==
  ASSUME ChainInv, Replied, NEW message, NEW then, SendSub(message, then, Remaining),
         before' = before
  PROVE  /\ requests' \in Nat /\ pending'.id \in Nat /\ (~ Idle)' /\ BeganClean'
         /\ DOMAIN details' = {pending'.id} /\ Then' = then /\ Message' = message
<1>1. /\ requests' = requests + 1
      /\ pending' = [id |-> requests + 1, message |-> message]
      /\ details' = [id \in DOMAIN Remaining \cup {requests + 1} |->
                       IF id = requests + 1 THEN then ELSE Remaining[id]]
  BY DEF SendSub, SendLast
<1>2. DOMAIN Remaining = {} /\ BeganClean /\ requests \in Nat
  BY AtReply
<1>3. pending'.id = requests + 1 /\ pending'.message = message
  BY <1>1
<1>4. DOMAIN details' = {requests + 1} /\ details'[requests + 1] = then
  BY <1>1, <1>2
<1>5. BeganClean'
  BY <1>2 DEF BeganClean
<1> QED BY <1>1, <1>2, <1>3, <1>4, <1>5 DEF Then, Message, Idle

LEMMA ReplyFetchRewardInv ==
  ASSUME ChainInv, ReplyFetchReward
  PROVE  ChainInv'
<1>1. /\ Replied /\ Noted /\ Then.next = "TransferCustomAssetsFromFundsOwner"
      /\ pairAllowed' = pairAllowed /\ before' = before
  BY DEF ReplyFetchReward, RepliedFor
<1>2. NextStep(Then) /\ pairAllowed = 0
  BY <1>1, AtReply DEF Answered, LetsPairTake, Noted
<1>3. PICK then : then = [Then EXCEPT !.next = "IncreaseAllowance"]
  OBVIOUS
<1>4. NextStep(then) /\ then.next \in Earlier
  BY <1>2, <1>3, Redirected DEF Earlier, Actions, LetsPairTake
<1>5. PICK message : message = TransferFrom(PairRewardWallet, PairReward(Then.deposit))
  OBVIOUS
<1>6. SendSub(message, then, Remaining) /\ message.kind = "TransferFrom"
  BY <1>3, <1>5 DEF ReplyFetchReward, TransferFrom
<1>7. /\ requests' \in Nat /\ pending'.id \in Nat /\ (~ Idle)' /\ BeganClean'
      /\ DOMAIN details' = {pending'.id} /\ Then' = then /\ Message' = message
  BY <1>1, <1>6, SendSubStep
<1>8. Transferring'
  BY <1>1, <1>2, <1>4, <1>7 DEF Transferring, NextStep
<1> QED BY <1>6, <1>7, <1>8 DEF ChainInv, Underway

LEMMA ReplyIncreaseAllowanceInv ==
  ASSUME ChainInv, ReplyIncreaseAllowance
  PROVE  ChainInv'
<1>1. /\ Replied /\ Noted /\ Then.next = "IncreaseAllowance"
      /\ pairAllowed' = pairAllowed /\ before' = before
  BY DEF ReplyIncreaseAllowance, RepliedFor
<1>2. NextStep(Then) /\ pairAllowed = 0
  BY <1>1, AtReply DEF Answered, LetsPairTake, Noted
<1>3. PICK then : then = [Then EXCEPT !.next = "ProvideLiquidity"]
  OBVIOUS
<1>4. NextStep(then) /\ then.next = LetsPairTake /\ then.deposit = Then.deposit
  BY <1>2, <1>3, Redirected DEF LetsPairTake
<1>5. PICK message : message = IncreaseAllowance(Then.deposit["fury"])
  OBVIOUS
<1>6. /\ SendSub(message, then, Remaining) /\ message.kind = "IncreaseAllowance"
      /\ message.amount = Then.deposit["fury"]
  BY <1>3, <1>5 DEF ReplyIncreaseAllowance, IncreaseAllowance
<1>7. /\ requests' \in Nat /\ pending'.id \in Nat /\ (~ Idle)' /\ BeganClean'
      /\ DOMAIN details' = {pending'.id} /\ Then' = then /\ Message' = message
  BY <1>1, <1>6, SendSubStep
<1>8. Allowing'
  BY <1>1, <1>2, <1>4, <1>6, <1>7 DEF Allowing, NextStep
<1> QED BY <1>6, <1>7, <1>8 DEF ChainInv, Underway

LEMMA ReplyProvideLiquidityInv ==
  ASSUME ChainInv, ReplyProvideLiquidity
  PROVE  ChainInv'
<1>1. /\ Replied /\ Noted /\ Then.next = LetsPairTake
      /\ pairAllowed' = pairAllowed /\ before' = before
  BY DEF ReplyProvideLiquidity, RepliedFor, LetsPairTake
<1>2. /\ ~ Idle /\ BeganClean /\ requests \in Nat /\ DOMAIN Remaining = {}
      /\ NextStep(Then) /\ pairAllowed = Then.deposit["fury"]
  BY <1>1, AtReply DEF Answered, Earlier, Noted
<1>3. /\ requests' = requests + 1 /\ details' = Remaining
      /\ pending' = [id |-> requests + 1, message |-> ToPair(Then)]
  BY DEF ReplyProvideLiquidity, SendLast
<1>4. /\ pending'.id = requests + 1
      /\ Message'.kind = "ProvideLiquidity" /\ Message'.deposit = Then.deposit
  BY <1>3 DEF Message, ToPair
<1>5. Providing'
  BY <1>1, <1>2, <1>3, <1>4 DEF Providing, NextStep
<1>6. BeganClean' /\ (~ Idle)'
  BY <1>1, <1>2, <1>4 DEF BeganClean, Idle
<1> QED BY <1>2, <1>3, <1>4, <1>5, <1>6 DEF ChainInv, Underway

LEMMA LastReplyInv ==
  ASSUME ChainInv, ReplyTransferToReceiver \/ ReplyNothingLeft
  PROVE  ChainInv'
<1>1. Replied /\ pending' = Outside /\ pairAllowed' = pairAllowed /\ requests' = requests
  BY DEF ReplyTransferToReceiver, ReplyNothingLeft, RepliedFor, End, stored
<1>2. Answered /\ requests \in Nat
  BY <1>1, AtReply
<1>3. DOMAIN details' = {} /\ pairAllowed = 0
  <2>1. CASE ReplyTransferToReceiver
    <3>1. Then.next = "TransferToNativeInvestmentReceiveWallet" /\ Noted /\ details' = Remaining
      BY <2>1 DEF ReplyTransferToReceiver, RepliedFor
    <3> QED BY <1>1, <1>2, <3>1, AtReply DEF Answered, LetsPairTake, Noted
  <2>2. CASE ReplyNothingLeft
    BY <1>2, <2>2 DEF ReplyNothingLeft, Answered, Noted, stored
  <2> QED BY <2>1, <2>2
<1>4. Idle' /\ pending'.id = 0
  BY <1>1 DEF Idle, Outside
<1> QED BY <1>1, <1>2, <1>3, <1>4 DEF ChainInv

-----------------------------------------------------------------------------
(* Calls that are answered at once, and time, touch none of this.           *)
LEMMA WholeInv ==
  ASSUME ChainInv, UNCHANGED <<pairAllowed, requests, details, pending, before>>
  PROVE  ChainInv'
BY DEF ChainInv, Idle, BeganClean, Underway, Transferring, Allowing, Providing, Swapping,
       Answered, Message, Then

LEMMA CallInv ==
  ASSUME ChainInv, NEW sender, Call(sender)
  PROVE  ChainInv'
<1>1. CASE \E deposit \in Deposits, tolerance \in Tolerances, sent \in Sent :
             \/ ProvideLiquidity(sender, deposit, tolerance, sent)
             \/ ProvidePairForReward(sender, deposit, tolerance, sent)
  <2>1. PICK deposit \in Deposits, tolerance \in Tolerances, sent \in Sent :
          \/ ProvideLiquidity(sender, deposit, tolerance, sent)
          \/ ProvidePairForReward(sender, deposit, tolerance, sent)
    BY <1>1
  <2>2. {"IncreaseAllowance", "TransferCustomAssetsFromFundsOwner"} \subseteq Earlier
    BY DEF Earlier, Actions, LetsPairTake
  <2> QED BY <2>1, <2>2, ProvideInv DEF ProvideLiquidity, ProvidePairForReward
<1>2. CASE \E n \in Amounts, sent \in Sent : ProvideNativeForReward(sender, n, None, sent)
  BY <1>2, ProvideNativeInv
<1>3. CASE \E n \in Amounts, sent \in Sent, belief \in Beliefs, spread \in Spreads :
             SwapNativeForFury(sender, n, belief, spread, sent)
  BY <1>3, SwapNativeInv
<1>4. CASE \/ \E n \in Amounts, sent \in Sent :
                \/ RewardClaim(sender, n, sent)
                \/ \E belief \in Beliefs, spread \in Spreads :
                     SwapFuryForNative(sender, n, belief, spread, sent)
           \/ \E n \in Amounts : WithdrawThroughProxy(sender, n)
  BY <1>4, WholeInv DEF RewardClaim, SwapFuryForNative, WithdrawThroughProxy, Whole
<1> QED BY <1>1, <1>2, <1>3, <1>4 DEF Call

LEMMA PairCallInv ==
  ASSUME ChainInv, NEW sender, PairCall(sender)
  PROVE  ChainInv'
BY WholeInv DEF PairCall, SendFuryToPair, SendSharesToPair, GiveToPair, Whole

LEMMA MessageInv ==
  ASSUME ChainInv, ExecuteMessage
  PROVE  ChainInv'
<1>1. CASE MessageRefused
  <2>1. ~ Idle /\ Rollback
    BY <1>1 DEF MessageRefused, MessageSent
  <2> QED BY <2>1, RollbackInv
<1> QED BY <1>1, ExecuteInv DEF ExecuteMessage

LEMMA ReplyInv ==
  ASSUME ChainInv, Reply
  PROVE  ChainInv'
<1>1. CASE ReplyTooManyBonds
  <2>1. ~ Idle /\ Rollback
    BY <1>1 DEF ReplyTooManyBonds, RepliedFor, Replied
  <2> QED BY <2>1, RollbackInv
<1> QED BY <1>1, ReplyFetchRewardInv, ReplyIncreaseAllowanceInv, ReplyProvideLiquidityInv,
           LastReplyInv DEF Reply

SomeConfiguration ==
  \E given \in SUBSET Addresses, date \in OpeningDates : Configure(Admin, given, date)

LEMMA NextInv ==
  ASSUME ChainInv, [ProxyNext]_proxyVars
  PROVE  ChainInv'
<1>1. CASE \E sender \in Callers : Call(sender) \/ PairCall(sender)
  BY <1>1, CallInv, PairCallInv
<1>2. CASE \/ SomeConfiguration
           \/ Tick
           \/ UNCHANGED proxyVars
  BY <1>2, WholeInv DEF SomeConfiguration, Configure, Tick, proxyVars, stored
<1> QED BY <1>1, <1>2, MessageInv, ReplyInv DEF ProxyNext, SomeConfiguration

-----------------------------------------------------------------------------
(* Whichever message of a transaction is refused, and however many replies  *)
(* it took: no record of a request and no allowance of the pair outlasts    *)
(* the transaction that made it.                                            *)
THEOREM NothingIsLeft == ProxySpec => []NothingLeftPending
<1>1. ProxyInit => ChainInv
  BY DEF ProxyInit, ChainInv, Idle, Outside
<1>2. ChainInv /\ [ProxyNext]_proxyVars => ChainInv'
  BY NextInv
<1>3. ChainInv => NothingLeftPending
  BY DEF ChainInv, NothingLeftPending
<1> QED BY <1>1, <1>2, <1>3, PTL DEF ProxySpec

-----------------------------------------------------------------------------
(* Division                                                                 *)

LEMMA DivBounds ==
  ASSUME NEW a \in Int, NEW b \in Nat \ {0}
  PROVE  a \div b \in Int /\ (a \div b) * b <= a /\ a < (a \div b) * b + b
OBVIOUS

LEMMA DivNat ==
  ASSUME NEW a \in Nat, NEW b \in Nat \ {0}
  PROVE  a \div b \in Nat
OBVIOUS

LEMMA TimesMore ==
  ASSUME NEW a \in Int, NEW c \in Int, NEW b \in Nat, a <= c
  PROVE  a * b <= c * b
OBVIOUS

LEMMA TimesNat ==
  ASSUME NEW a \in Nat, NEW b \in Nat
  PROVE  a * b \in Nat
OBVIOUS

LEMMA DivAtMost ==
  ASSUME NEW a \in Int, NEW b \in Nat \ {0}, NEW c \in Int, a <= c * b
  PROVE  a \div b <= c
<1> DEFINE q == a \div b
<1>1. q \in Int /\ q * b <= a
  BY DivBounds
<1> HIDE DEF q
<1>2. SUFFICES ASSUME q >= c + 1 PROVE FALSE
  BY <1>1 DEF q
<1>3. (c + 1) * b <= q * b
  BY <1>1, <1>2, TimesMore
<1>4. (c + 1) * b = c * b + b /\ c * b \in Int /\ q * b \in Int
  BY <1>1
<1> QED BY <1>1, <1>3, <1>4

(* A part of n, in proportion of p to a whole that is not less.             *)
LEMMA PartOf ==
  ASSUME NEW n \in Nat, NEW p \in Nat, NEW whole \in Nat \ {0}, p <= whole
  PROVE  (n * p) \div whole \in 0..n
<1>1. n * p \in Nat /\ (n * p) \div whole \in Nat
  BY TimesNat, DivNat
<1>2. p * n <= whole * n /\ p * n = n * p /\ whole * n = n * whole
  BY TimesMore
<1>3. n * p <= n * whole
  BY <1>2
<1>4. (n * p) \div whole <= n
  BY <1>1, <1>3, DivAtMost
<1> QED BY <1>1, <1>4

-----------------------------------------------------------------------------
(* The pair takes no balance below zero.                                    *)

Kinds == Assets \cup {"lp"}

LEMMA KindsOfAssets ==
  /\ "native" \in Assets /\ "fury" \in Assets /\ Assets \subseteq Kinds /\ "lp" \in Kinds
  /\ "lp" \notin Assets
  /\ \A a \in Assets : Other(a) \in Assets /\ Other(a) # a
<1>1. \A a \in Assets : \E b \in Assets : b # a
  BY DEF Assets
<1> QED BY <1>1 DEF Assets, Kinds, Other

LEMMA HeldTypes ==
  ASSUME NEW h \in Holdings, NEW k \in Kinds
  PROVE  h[k] \in [Parties -> Nat]
BY DEF Holdings, Kinds

LEMMA PoolTypes ==
  ASSUME NEW h \in Holdings
  PROVE  /\ \A a \in Assets : Pool(h, a) \in Nat
         /\ TotalShare(h) \in Nat
         /\ h["lp"][PairContract] <= TotalShare(h)
<1>1. IsFiniteSet(Parties) /\ PairContract \in Parties
  BY PairAssumption DEF PairAssumption
<1>2. \A k \in Kinds : h[k] \in [Parties -> Nat]
  BY HeldTypes
<1>3. \A p \in Parties : h["lp"][p] \in Nat
  BY <1>2, KindsOfAssets
<1>4. TotalShare(h) \in Nat /\ h["lp"][PairContract] <= TotalShare(h)
  BY <1>1, <1>3, SumNat, SumBoundsTerm DEF TotalShare
<1> QED BY <1>1, <1>2, <1>4, KindsOfAssets DEF Pool

LEMMA GivenEffect ==
  ASSUME NEW h \in Holdings, NEW k \in Kinds, NEW from \in Parties, NEW to \in Parties,
         NEW n \in Nat, n <= h[k][from]
  PROVE  /\ Given(h, k, from, to, n) \in Holdings
         /\ \A j \in Kinds \ {k} : Given(h, k, from, to, n)[j] = h[j]
         /\ \A p \in Parties : Given(h, k, from, to, n)[k][p]
              = h[k][p] - (IF p = from THEN n ELSE 0) + (IF p = to THEN n ELSE 0)
<1> DEFINE g == Given(h, k, from, to, n)
           row == [[h[k] EXCEPT ![from] = @ - n] EXCEPT ![to] = @ + n]
<1>1. h[k] \in [Parties -> Nat] /\ h \in [Kinds -> [Parties -> Nat]]
  BY HeldTypes DEF Holdings, Kinds
<1>2. g = [h EXCEPT ![k] = row]
  <2> DEFINE first == [h EXCEPT ![k][from] = @ - n]
  <2>1. first = [h EXCEPT ![k] = [h[k] EXCEPT ![from] = @ - n]]
    BY <1>1
  <2>2. first[k] = [h[k] EXCEPT ![from] = @ - n]
    BY <1>1, <2>1
  <2>3. g = [first EXCEPT ![k] = [first[k] EXCEPT ![to] = @ + n]]
    <3>1. g = [first EXCEPT ![k][to] = @ + n]
      BY DEF Given
    <3> HIDE DEF g, first
    <3> QED BY <3>1
  <2> HIDE DEF g, first
  <2>4. g = [first EXCEPT ![k] = row]
    BY <2>2, <2>3
  <2> QED BY <1>1, <2>1, <2>4
<1>3. row \in [Parties -> Nat]
  BY <1>1
<1>4. \A p \in Parties :
        row[p] = h[k][p] - (IF p = from THEN n ELSE 0) + (IF p = to THEN n ELSE 0)
  BY <1>1
<1> HIDE DEF row, g
<1>5. g \in [Kinds -> [Parties -> Nat]] /\ g[k] = row /\ \A j \in Kinds \ {k} : g[j] = h[j]
  BY <1>1, <1>2, <1>3
<1> QED BY <1>4, <1>5 DEF Holdings, Kinds, g

LEMMA AskedRange ==
  ASSUME NEW o \in Nat \ {0}, NEW ask \in Nat, NEW n \in Nat
  PROVE  Asked(o, ask, n) \in 0..ask
<1> DEFINE q == Ratio(o * ask, o + n)
           all == ask * Fraction
           asked == Asked(o, ask, n)
<1>1. Fraction \in Nat \ {0}
  BY PairAssumption DEF PairAssumption
<1>2. all \in Nat /\ o + n \in Nat \ {0} /\ o <= o + n
  BY <1>1, TimesNat
<1>3. (o * ask) * Fraction = all * o
  BY <1>1
<1>4. q \in 0..all
  <2>1. q = (all * o) \div (o + n)
    BY <1>3 DEF Ratio
  <2> HIDE DEF all, q
  <2> QED BY <1>2, <2>1, PartOf
<1> HIDE DEF q
<1>5. asked = (all - q) \div Fraction /\ all - q \in Nat /\ all - q <= all
  BY <1>2, <1>4 DEF Asked, q
<1>6. asked \in Nat
  BY <1>1, <1>5, DivNat
<1>7. (all - q) \div Fraction <= ask
  BY <1>1, <1>5, DivAtMost
<1> QED BY <1>5, <1>6, <1>7

LEMMA AskedBound ==
  ASSUME NEW o \in Nat \ {0}, NEW ask \in Nat, NEW n \in Nat
  PROVE  /\ ReturnAmount(o, ask, n) \in 0..ask
         /\ ReturnAmount(o, ask, n) <= Asked(o, ask, n)
<1> DEFINE asked == Asked(o, ask, n)
           fee == Commission(o, ask, n)
<1>1. Fraction \in Nat \ {0} /\ CommissionRate \in Nat /\ CommissionRate <= Fraction
  BY PairAssumption DEF PairAssumption
<1>2. asked \in 0..ask
  BY AskedRange
<1> HIDE DEF asked
<1>3. fee \in 0..asked
  <2>1. fee = (asked * CommissionRate) \div Fraction
    BY DEF Commission, Times, asked
  <2> QED BY <1>1, <1>2, <2>1, PartOf
<1>4. ReturnAmount(o, ask, n) = asked - fee
  BY DEF ReturnAmount, asked
<1> HIDE DEF fee
<1>5. ReturnAmount(o, ask, n) \in 0..ask /\ ReturnAmount(o, ask, n) <= asked
  BY <1>2, <1>3, <1>4
<1> QED BY <1>5 DEF asked

LEMMA SwappedEffect ==
  ASSUME NEW h \in Holdings, NEW offer \in Assets, NEW n \in Nat, NEW belief, NEW spread,
         CanSwap(h, offer, n, belief, spread), NEW to \in Parties
  PROVE  /\ Swapped(h, offer, n, to) \in Holdings
         /\ \A k \in Kinds, p \in Parties \ {PairContract} :
              Swapped(h, offer, n, to)[k][p] >= h[k][p]
         /\ \A k \in Kinds, p \in Parties \ {PairContract, to} :
              Swapped(h, offer, n, to)[k][p] = h[k][p]
<1> DEFINE ask == Other(offer)
           r == Returned(h, offer, n)
<1>1. /\ ask \in Assets /\ ask \in Kinds /\ PairContract \in Parties
      /\ Pool(h, ask) \in Nat /\ Pool(h, offer) \in Nat
  BY KindsOfAssets, PoolTypes, PairAssumption DEF PairAssumption
<1>2. OfferPool(h, offer, n) \in Nat \ {0}
  BY <1>1 DEF CanSwap, OfferPool
<1>3. r \in 0..Pool(h, ask)
  BY <1>1, <1>2, AskedBound DEF Returned
<1>4. Swapped(h, offer, n, to) = Given(h, ask, PairContract, to, r)
  BY DEF Swapped
<1> HIDE DEF ask, r
<1>5. r \in Nat /\ r <= h[ask][PairContract]
  BY <1>1, <1>3 DEF Pool
<1>6. \A k \in Kinds : h[k] \in [Parties -> Nat]
  BY HeldTypes
<1> DEFINE g == Given(h, ask, PairContract, to, r)
<1>7. /\ g \in Holdings
      /\ \A j \in Kinds \ {ask} : g[j] = h[j]
      /\ \A p \in Parties : g[ask][p]
           = h[ask][p] - (IF p = PairContract THEN r ELSE 0) + (IF p = to THEN r ELSE 0)
  BY <1>1, <1>5, GivenEffect
<1> HIDE DEF g
<1>8. ASSUME NEW k \in Kinds, NEW p \in Parties \ {PairContract}
      PROVE  g[k][p] >= h[k][p] /\ (p # to => g[k][p] = h[k][p])
  <2>1. h[k][p] \in Nat
    BY <1>6
  <2>2. CASE k = ask
    BY <1>5, <1>7, <2>1, <2>2
  <2>3. CASE k # ask
    BY <1>7, <2>1, <2>3
  <2> QED BY <2>2, <2>3
<1> QED BY <1>4, <1>7, <1>8 DEF g

LEMMA RootExists ==
  ASSUME NEW n \in Nat
  PROVE  SquareRoot(n) \in 0..n
<1> DEFINE P == {k \in 0..n : (k + 1) * (k + 1) <= n \/ \E r \in 0..k : r * r <= n /\ n < (r + 1) * (r + 1)}
<1>1. 0 \in P
  OBVIOUS
<1>2. ASSUME NEW k \in 1..n, k - 1 \in P PROVE k \in P
  <2>1. CASE \E r \in 0..(k-1) : r * r <= n /\ n < (r + 1) * (r + 1)
    BY <2>1
  <2>2. CASE k * k <= n
    BY <2>2
  <2>3. ((k - 1) + 1) * ((k - 1) + 1) = k * k
    OBVIOUS
  <2> QED BY <1>2, <2>1, <2>2, <2>3
<1> HIDE DEF P
<1>3. n \in P
  BY <1>1, <1>2, UpTo
<1>4. (n + 1) * (n + 1) > n
  OBVIOUS
<1>5. \E r \in 0..n : r * r <= n /\ n < (r + 1) * (r + 1)
  BY <1>3, <1>4 DEF P
<1> QED BY <1>5 DEF SquareRoot

LEMMA ShareType ==
  ASSUME NEW h \in Holdings, NEW deposit \in Deposit, NEW allowed, NEW funds, NEW tolerance,
         CanProvide(h, allowed, deposit, funds, tolerance)
  PROVE  Share(h, deposit) \in Nat
<1> DEFINE part(a) == (deposit[a] * TotalShare(h)) \div Pool(h, a)
<1>1. /\ TotalShare(h) \in Nat /\ \A a \in Assets : Pool(h, a) \in Nat
      /\ \A a \in Assets : deposit[a] \in Nat
      /\ "native" \in Assets /\ "fury" \in Assets
  BY PoolTypes, KindsOfAssets DEF Deposit
<1>2. CASE TotalShare(h) = 0
  <2>1. deposit["native"] * deposit["fury"] \in Nat
    BY <1>1, TimesNat
  <2>2. SquareRoot(deposit["native"] * deposit["fury"]) \in Nat
    BY <2>1, RootExists
  <2> QED BY <1>2, <2>2 DEF Share
<1>3. CASE TotalShare(h) # 0
  <2>1. \A a \in Assets : Pool(h, a) \in Nat \ {0}
    BY <1>1, <1>3 DEF CanProvide
  <2>2. \A a \in Assets : part(a) \in Nat
    BY <1>1, <2>1, TimesNat, DivNat
  <2>3. Share(h, deposit) = Lesser(part("native"), part("fury"))
    BY <1>3 DEF Share
  <2> HIDE DEF part
  <2> QED BY <1>1, <2>2, <2>3 DEF Lesser
<1> QED BY <1>2, <1>3

LEMMA MintedType ==
  ASSUME NEW h \in Holdings, NEW to \in Parties, NEW n \in Nat
  PROVE  /\ Minted(h, to, n) \in Holdings
         /\ \A a \in Assets : Minted(h, to, n)[a] = h[a]
<1>1. h["lp"] \in [Parties -> Nat] /\ h \in [Kinds -> [Parties -> Nat]]
  BY HeldTypes, KindsOfAssets DEF Holdings, Kinds
<1>2. [h["lp"] EXCEPT ![to] = @ + n] \in [Parties -> Nat]
  BY <1>1
<1>3. Minted(h, to, n) = [h EXCEPT !["lp"] = [h["lp"] EXCEPT ![to] = @ + n]]
  BY DEF Minted
<1> QED BY <1>1, <1>2, <1>3, KindsOfAssets DEF Holdings, Kinds

LEMMA ProvidedEffect ==
  ASSUME NEW h \in Holdings, NEW deposit \in Deposit, NEW allowed, NEW funds, NEW tolerance,
         CanProvide(h, allowed, deposit, funds, tolerance), NEW receiver \in Parties
  PROVE  /\ Provided(h, deposit, receiver) \in Holdings
         /\ Provided(h, deposit, receiver)["fury"][ProxyContract]
              = h["fury"][ProxyContract] - deposit["fury"]
<1> DEFINE one == Given(h, "native", ProxyContract, PairContract, deposit["native"])
           two == Given(one, "fury", ProxyContract, PairContract, deposit["fury"])
<1>1. /\ ProxyContract \in Parties /\ PairContract \in Parties /\ ProxyContract # PairContract
      /\ "native" \in Assets /\ "fury" \in Assets /\ "native" \in Kinds /\ "fury" \in Kinds
      /\ "native" # "fury"
  BY PairAssumption, KindsOfAssets DEF PairAssumption
<1>2. deposit["native"] \in Nat /\ deposit["fury"] \in Nat
  BY <1>1 DEF Deposit
<1>3. /\ deposit["native"] <= h["native"][ProxyContract]
      /\ deposit["fury"] <= h["fury"][ProxyContract]
  BY DEF CanProvide
<1>4. one \in Holdings /\ one["fury"] = h["fury"]
  BY <1>1, <1>2, <1>3, GivenEffect
<1> HIDE DEF one
<1>5. deposit["fury"] <= one["fury"][ProxyContract]
  BY <1>3, <1>4
<1>6. two \in Holdings /\ \A p \in Parties : two["fury"][p]
        = one["fury"][p] - (IF p = ProxyContract THEN deposit["fury"] ELSE 0)
            + (IF p = PairContract THEN deposit["fury"] ELSE 0)
  BY <1>1, <1>2, <1>4, <1>5, GivenEffect
<1> HIDE DEF two
<1>7. Provided(h, deposit, receiver) = Minted(two, receiver, Share(h, deposit))
  BY DEF Provided, two, one
<1>8. Share(h, deposit) \in Nat
  BY ShareType
<1>9. /\ Provided(h, deposit, receiver) \in Holdings
      /\ Provided(h, deposit, receiver)["fury"] = two["fury"]
  <2>1. two \in Holdings
    BY <1>6
  <2>2. /\ Minted(two, receiver, Share(h, deposit)) \in Holdings
        /\ \A a \in Assets : Minted(two, receiver, Share(h, deposit))[a] = two[a]
    BY <1>8, <2>1, MintedType
  <2> QED BY <1>1, <1>7, <2>2
<1>10. h["fury"][ProxyContract] \in Nat
  BY <1>1, HeldTypes
<1> QED BY <1>1, <1>2, <1>4, <1>6, <1>9, <1>10

LEMMA RefundBound ==
  ASSUME NEW h \in Holdings, NEW a \in Assets, NEW n \in Nat \ {0}, n <= TotalShare(h)
  PROVE  Refund(h, a, n) \in 0..Pool(h, a)
<1>1. /\ Fraction \in Nat \ {0} /\ Pool(h, a) \in Nat /\ TotalShare(h) \in Nat \ {0}
      /\ n * Fraction = Fraction * n
  BY PairAssumption, PoolTypes DEF PairAssumption
<1>2. ShareRatio(h, n) \in 0..Fraction
  <2>1. (Fraction * n) \div TotalShare(h) \in 0..Fraction
    BY <1>1, PartOf
  <2> QED BY <1>1, <2>1 DEF ShareRatio, Ratio
<1>3. (Pool(h, a) * ShareRatio(h, n)) \div Fraction \in 0..Pool(h, a)
  BY <1>1, <1>2, PartOf
<1> QED BY <1>3 DEF Refund, Times

LEMMA WithdrawnEffect ==
  ASSUME NEW h \in Holdings, NEW sender \in Parties, NEW n \in Nat,
         n <= h["lp"][PairContract], CanWithdraw(h, n)
  PROVE  /\ Withdrawn(h, sender, n) \in Holdings
         /\ \A p \in Parties \ {PairContract} :
              /\ Withdrawn(h, sender, n)["fury"][p] >= h["fury"][p]
              /\ p # sender => Withdrawn(h, sender, n)["fury"][p] = h["fury"][p]
<1> DEFINE r == Refund(h, "native", n)
           s == Refund(h, "fury", n)
           one == Given(h, "native", PairContract, sender, r)
           two == Given(one, "fury", PairContract, sender, s)
<1>1. /\ PairContract \in Parties
      /\ "native" \in Assets /\ "fury" \in Assets /\ "native" \in Kinds /\ "fury" \in Kinds
      /\ "lp" \in Kinds /\ "native" # "fury" /\ "lp" # "native" /\ "lp" # "fury"
  BY PairAssumption, KindsOfAssets DEF PairAssumption
<1>2. TotalShare(h) \in Nat /\ h["lp"][PairContract] <= TotalShare(h) /\ n > 0
      /\ \A k \in Kinds : h[k] \in [Parties -> Nat]
  BY PoolTypes, HeldTypes DEF CanWithdraw
<1>3. n \in Nat \ {0} /\ n <= TotalShare(h)
  BY <1>1, <1>2
<1>4. r \in Nat /\ r <= h["native"][PairContract] /\ s \in Nat /\ s <= h["fury"][PairContract]
  <2>1. r \in 0..Pool(h, "native") /\ s \in 0..Pool(h, "fury")
    BY <1>1, <1>3, RefundBound
  <2>2. Pool(h, "native") \in Nat /\ Pool(h, "fury") \in Nat
    BY <1>1, PoolTypes
  <2> HIDE DEF r, s
  <2> QED BY <2>1, <2>2 DEF Pool
<1> HIDE DEF r, s
<1>5. one \in Holdings /\ one["fury"] = h["fury"] /\ one["lp"] = h["lp"]
  BY <1>1, <1>4, GivenEffect
<1> HIDE DEF one
<1>6. s <= one["fury"][PairContract]
  BY <1>4, <1>5
<1>7. /\ two \in Holdings /\ two["lp"] = one["lp"]
      /\ \A p \in Parties : two["fury"][p]
           = one["fury"][p] - (IF p = PairContract THEN s ELSE 0)
               + (IF p = sender THEN s ELSE 0)
  BY <1>1, <1>4, <1>5, <1>6, GivenEffect
<1> HIDE DEF two
<1> DEFINE row == [two["lp"] EXCEPT ![PairContract] = @ - n]
           w == Withdrawn(h, sender, n)
<1>8. w = [two EXCEPT !["lp"] = row]
  BY DEF Withdrawn, Burned, two, one, r, s
<1>9. row \in [Parties -> Nat]
  BY <1>1, <1>2, <1>5, <1>7
<1> HIDE DEF row, w
<1>10. w \in Holdings /\ w["fury"] = two["fury"]
  BY <1>1, <1>7, <1>8, <1>9 DEF Holdings, Kinds
<1>11. ASSUME NEW p \in Parties \ {PairContract}
       PROVE  w["fury"][p] >= h["fury"][p] /\ (p # sender => w["fury"][p] = h["fury"][p])
  <2>1. h["fury"][p] \in Nat
    BY <1>1, <1>2
  <2> QED BY <1>4, <1>5, <1>7, <1>10, <2>1
<1> QED BY <1>10, <1>11 DEF w

-----------------------------------------------------------------------------
(* Quotes, rewards and fees                                                 *)

LEMMA EquivalentBound ==
  ASSUME NEW p \in Nat, NEW q \in Nat, NEW n \in Nat, p + n > 0
  PROVE  q - (p * q) \div (p + n) \in Nat
<1>1. p + n \in Nat \ {0} /\ p <= p + n /\ p * q = q * p
  OBVIOUS
<1>2. (q * p) \div (p + n) \in 0..q
  BY <1>1, PartOf
<1> QED BY <1>1, <1>2

LEMMA FeesType ==
  ASSUME held \in Holdings, NEW deposit \in Deposit, NEW rate \in Nat,
         Pool(held, "fury") + deposit["fury"] > 0
  PROVE  QueryPlatformFees(deposit, rate) \in Nat
<1>1. /\ "native" \in Assets /\ "fury" \in Assets /\ HundredPercent \in Nat \ {0}
      /\ \A a \in Assets : Pool(held, a) \in Nat
  BY KindsOfAssets, PoolTypes, ProxyAssumption DEF ProxyAssumption
<1>2. deposit["fury"] \in Nat /\ deposit["native"] \in Nat
  BY <1>1 DEF Deposit
<1>3. UstEquivalentToFury(deposit["fury"]) \in Nat
  BY <1>1, <1>2, EquivalentBound DEF UstEquivalentToFury
<1>4. (UstEquivalentToFury(deposit["fury"]) + deposit["native"]) * rate \in Nat
  <2>1. UstEquivalentToFury(deposit["fury"]) + deposit["native"] \in Nat
    BY <1>2, <1>3
  <2> QED BY <2>1, TimesNat
<1> QED BY <1>1, <1>4, DivNat DEF QueryPlatformFees

LEMMA PairRewardType ==
  ASSUME held \in Holdings, NEW deposit \in Deposit, Quotable(deposit)
  PROVE  PairReward(deposit) \in Nat
<1> DEFINE half == Lesser(FuryEquivalentToUst(deposit["native"]), deposit["fury"])
<1>1. /\ "native" \in Assets /\ "fury" \in Assets
      /\ HundredPercent \in Nat \ {0} /\ PairDiscount \in Nat
      /\ \A a \in Assets : Pool(held, a) \in Nat
  BY KindsOfAssets, PoolTypes, ProxyAssumption DEF ProxyAssumption
<1>2. deposit["fury"] \in Nat /\ deposit["native"] \in Nat
  BY <1>1 DEF Deposit
<1>3. FuryEquivalentToUst(deposit["native"]) \in Nat
  BY <1>1, <1>2, EquivalentBound DEF FuryEquivalentToUst, Quotable
<1>4. half \in Nat
  BY <1>2, <1>3 DEF Lesser
<1>5. PairReward(deposit) = (2 * half * (HundredPercent + PairDiscount)) \div HundredPercent
  BY DEF PairReward
<1> HIDE DEF half
<1>6. 2 * half \in Nat /\ HundredPercent + PairDiscount \in Nat
  BY <1>1, <1>4
<1>7. 2 * half * (HundredPercent + PairDiscount) \in Nat
  BY <1>6, TimesNat
<1> QED BY <1>1, <1>5, <1>7, DivNat

LEMMA NativeRewardType ==
  ASSUME held \in Holdings, NEW n \in Nat, Pool(held, "native") + n > 0
  PROVE  NativeReward(n) \in Nat
<1>1. /\ "native" \in Assets /\ "fury" \in Assets
      /\ HundredPercent \in Nat \ {0} /\ NativeDiscount \in Nat
      /\ \A a \in Assets : Pool(held, a) \in Nat
  BY KindsOfAssets, PoolTypes, ProxyAssumption DEF ProxyAssumption
<1>2. FuryEquivalentToUst(n) \in Nat
  BY <1>1, EquivalentBound DEF FuryEquivalentToUst
<1>3. FuryEquivalentToUst(n) * (HundredPercent + NativeDiscount) \in Nat
  <2>1. HundredPercent + NativeDiscount \in Nat
    BY <1>1
  <2> QED BY <1>2, <2>1, TimesNat
<1> QED BY <1>1, <1>3, DivNat DEF NativeReward

-----------------------------------------------------------------------------
(* What the bonds add up to                                                 *)

AmountOf(s) == SumFunctionOnSet([i \in DOMAIN s |-> s[i].amount], DOMAIN s)
WaitingOf(s) ==
  SumFunctionOnSet([i \in DOMAIN s |-> IF Mature(s[i]) THEN 0 ELSE s[i].amount], DOMAIN s)
BondedTo(b) == [u \in Callers |-> AmountOf(b[u])]
AllBonded(b) == SumFunctionOnSet(BondedTo(b), Callers)

LEMMA BondRows ==
  ASSUME NEW s \in Seq(Bond)
  PROVE  /\ Len(s) \in Nat /\ DOMAIN s = 1..Len(s) /\ IsFiniteSet(DOMAIN s)
         /\ \A i \in 1..Len(s) : s[i] \in Bond /\ s[i].amount \in Nat
<1>1. \A b \in Bond : b.amount \in Nat
  BY DEF Bond
<1> HIDE DEF Bond
<1>2. Len(s) \in Nat /\ DOMAIN s = 1..Len(s) /\ \A i \in 1..Len(s) : s[i] \in Bond
  OBVIOUS
<1>3. IsFiniteSet(1..Len(s))
  BY <1>2, FS_Interval
<1> QED BY <1>1, <1>2, <1>3

LEMMA AmountTypes ==
  ASSUME NEW s \in Seq(Bond)
  PROVE  AmountOf(s) \in Nat /\ WaitingOf(s) \in Nat
<1> DEFINE f == [i \in DOMAIN s |-> s[i].amount]
           g == [i \in DOMAIN s |-> IF Mature(s[i]) THEN 0 ELSE s[i].amount]
<1>1. IsFiniteSet(DOMAIN s) /\ \A i \in DOMAIN s : s[i].amount \in Nat
  BY BondRows
<1>2. \A i \in DOMAIN s : f[i] \in Nat /\ g[i] \in Nat
  BY <1>1
<1> HIDE DEF f, g
<1>3. SumFunctionOnSet(f, DOMAIN s) \in Nat /\ SumFunctionOnSet(g, DOMAIN s) \in Nat
  BY <1>1, <1>2, SumNat
<1> QED BY <1>3 DEF AmountOf, WaitingOf, f, g

(* A sum with one more term.                                                *)
LEMMA SumOneMore ==
  ASSUME NEW n \in Nat, NEW f, NEW g, \A i \in 1..n : f[i] \in Int /\ f[i] = g[i],
         g[n+1] \in Int
  PROVE  SumFunctionOnSet(g, 1..(n+1)) = SumFunctionOnSet(f, 1..n) + g[n+1]
<1>1. \A i \in 1..(n+1) : g[i] \in Int
  <2> TAKE i \in 1..(n+1)
  <2>1. i \in 1..n \/ i = n + 1
    OBVIOUS
  <2> QED BY <2>1
<1>2. SumFunctionOnSet(g, 1..(n+1)) = SumFunctionOnSet(g, 1..n) + g[n+1]
  BY <1>1, SumNext
<1>3. IsFiniteSet(1..n)
  BY FS_Interval
<1>4. SumFunctionOnSet(f, 1..n) = SumFunctionOnSet(g, 1..n)
  BY <1>3, SumSame
<1> QED BY <1>2, <1>4

LEMMA BondAppended ==
  ASSUME NEW s \in Seq(Bond), NEW b \in Bond
  PROVE  /\ Append(s, b) \in Seq(Bond)
         /\ AmountOf(Append(s, b)) = AmountOf(s) + b.amount
         /\ WaitingOf(Append(s, b)) = WaitingOf(s) + IF Mature(b) THEN 0 ELSE b.amount
<1> DEFINE t == Append(s, b)
           n == Len(s)
           f == [i \in DOMAIN s |-> s[i].amount]
           g == [i \in DOMAIN t |-> t[i].amount]
           fw == [i \in DOMAIN s |-> IF Mature(s[i]) THEN 0 ELSE s[i].amount]
           gw == [i \in DOMAIN t |-> IF Mature(t[i]) THEN 0 ELSE t[i].amount]
<1>1. n \in Nat /\ DOMAIN s = 1..n /\ \A i \in 1..n : s[i].amount \in Nat
  BY BondRows
<1>2. b.amount \in Nat
  BY DEF Bond
<1>3. /\ t \in Seq(Bond) /\ DOMAIN t = 1..(n+1) /\ t[n+1] = b
      /\ \A i \in 1..n : t[i] = s[i]
  <2> HIDE DEF Bond
  <2> QED OBVIOUS
<1> HIDE DEF t, n
<1>4. \A i \in 1..n : i \in 1..(n+1)
  BY <1>1
<1>5. n + 1 \in 1..(n+1)
  BY <1>1
<1>6. \A i \in 1..n : f[i] \in Int /\ f[i] = g[i] /\ fw[i] \in Int /\ fw[i] = gw[i]
  BY <1>1, <1>3, <1>4
<1>7. g[n+1] = b.amount /\ gw[n+1] = IF Mature(b) THEN 0 ELSE b.amount
  BY <1>3, <1>5
<1>8. AmountOf(s) = SumFunctionOnSet(f, 1..n) /\ AmountOf(t) = SumFunctionOnSet(g, 1..(n+1))
  BY <1>1, <1>3 DEF AmountOf
<1>9. WaitingOf(s) = SumFunctionOnSet(fw, 1..n) /\ WaitingOf(t) = SumFunctionOnSet(gw, 1..(n+1))
  BY <1>1, <1>3 DEF WaitingOf
<1> HIDE DEF f, g, fw, gw
<1>10. g[n+1] \in Int /\ gw[n+1] \in Int
  BY <1>2, <1>7
<1>11. SumFunctionOnSet(g, 1..(n+1)) = SumFunctionOnSet(f, 1..n) + g[n+1]
  BY <1>1, <1>6, <1>10, SumOneMore
<1>12. SumFunctionOnSet(gw, 1..(n+1)) = SumFunctionOnSet(fw, 1..n) + gw[n+1]
  BY <1>1, <1>6, <1>10, SumOneMore
<1>13. AmountOf(t) = AmountOf(s) + b.amount
  BY <1>7, <1>8, <1>11
<1>14. WaitingOf(t) = WaitingOf(s) + IF Mature(b) THEN 0 ELSE b.amount
  BY <1>7, <1>9, <1>12
<1> QED BY <1>3, <1>13, <1>14 DEF t

LEMMA CallersAreFinite ==
  IsFiniteSet(Callers) /\ Callers \subseteq Parties \ {PairContract, ProxyContract}
<1>1. IsFiniteSet(Parties) /\ Callers \subseteq Parties \ {PairContract, ProxyContract}
  BY PairAssumption, ProxyAssumption DEF PairAssumption, ProxyAssumption
<1>2. Callers \subseteq Parties
  BY <1>1
<1>3. IsFiniteSet(Callers)
  BY <1>1, <1>2, FS_Subset
<1> QED BY <1>1, <1>3

(* The bonds of one caller are replaced.                                    *)
LEMMA BondsReplaced ==
  ASSUME NEW b \in [Parties -> Seq(Bond)], NEW u \in Callers, NEW t \in Seq(Bond)
  PROVE  LET c == [b EXCEPT ![u] = t]
         IN  /\ c \in [Parties -> Seq(Bond)]
             /\ AllBonded(b) \in Nat
             /\ AllBonded(c) = AllBonded(b) + (AmountOf(t) - AmountOf(b[u]))
<1> DEFINE c == [b EXCEPT ![u] = t]
           f == BondedTo(b)
           g == BondedTo(c)
<1>1. IsFiniteSet(Callers) /\ Callers \subseteq Parties /\ u \in Parties
  BY CallersAreFinite
<1>2. c \in [Parties -> Seq(Bond)] /\ c[u] = t /\ \A v \in Parties \ {u} : c[v] = b[v]
  BY <1>1
<1> HIDE DEF c
<1>3. \A v \in Callers : b[v] \in Seq(Bond) /\ c[v] \in Seq(Bond)
  BY <1>1, <1>2
<1>4. \A v \in Callers : AmountOf(b[v]) \in Nat /\ AmountOf(c[v]) \in Nat
  BY <1>3, AmountTypes
<1>5. \A v \in Callers : f[v] \in Nat /\ g[v] \in Nat
  BY <1>4 DEF BondedTo
<1>6. f[u] = AmountOf(b[u]) /\ g[u] = AmountOf(t)
  BY <1>2 DEF BondedTo
<1>7. \A v \in Callers \ {u} : f[v] = g[v]
  BY <1>1, <1>2 DEF BondedTo
<1> HIDE DEF f, g
<1>8. SumFunctionOnSet(f, Callers) \in Nat
  BY <1>1, <1>5, SumNat
<1>9. \A v \in Callers : f[v] \in Int /\ g[v] \in Int
  BY <1>5
<1>10. SumFunctionOnSet(g, Callers) = SumFunctionOnSet(f, Callers) + (g[u] - f[u])
  BY <1>1, <1>7, <1>9, SumUpdate
<1> QED BY <1>2, <1>6, <1>8, <1>10 DEF AllBonded, f, g, c

-----------------------------------------------------------------------------
(* A claim goes through the bonds in their order. It takes what it pays     *)
(* from those that are mature, and nothing from the others.                 *)

ClaimState == [left : Nat, kept : Seq(Bond)]

LEMMA TakeStep ==
  ASSUME NEW c \in ClaimState, NEW b \in Bond
  PROVE  LET d == TakeFromBond(c, b)
         IN  /\ d \in ClaimState
             /\ AmountOf(d.kept) + c.left = AmountOf(c.kept) + b.amount + d.left
             /\ WaitingOf(d.kept) = WaitingOf(c.kept) + IF Mature(b) THEN 0 ELSE b.amount
<1> DEFINE d == TakeFromBond(c, b)
           s == c.kept
<1>1. c.left \in Nat /\ s \in Seq(Bond) /\ b.amount \in Nat
  BY DEF ClaimState, Bond
<1>2. AmountOf(s) \in Nat /\ WaitingOf(s) \in Nat
  BY <1>1, AmountTypes
<1>3. CASE ~ Mature(b) \/ c.left = 0
  <2>1. d = [c EXCEPT !.kept = Append(s, b)]
    BY <1>3 DEF TakeFromBond
  <2>2. /\ Append(s, b) \in Seq(Bond)
        /\ AmountOf(Append(s, b)) = AmountOf(s) + b.amount
        /\ WaitingOf(Append(s, b)) = WaitingOf(s) + IF Mature(b) THEN 0 ELSE b.amount
    BY <1>1, BondAppended
  <2>3. d.left = c.left /\ d.kept = Append(s, b) /\ d \in ClaimState
    BY <2>1, <2>2 DEF ClaimState
  <2> HIDE DEF d, s
  <2>4. AmountOf(d.kept) + c.left = AmountOf(s) + b.amount + d.left
    BY <1>1, <1>2, <2>2, <2>3
  <2> QED BY <2>2, <2>3, <2>4 DEF d, s
<1>4. CASE Mature(b) /\ 0 < c.left /\ c.left < b.amount
  <2> DEFINE part == [b EXCEPT !.amount = @ - c.left]
  <2>1. part \in Bond /\ part.amount = b.amount - c.left
    BY <1>1, <1>4 DEF Bond
  <2>2. Mature(part)
    BY <1>4 DEF Mature, BondStart, Bond
  <2> HIDE DEF part
  <2>3. /\ Append(s, part) \in Seq(Bond)
        /\ AmountOf(Append(s, part)) = AmountOf(s) + part.amount
        /\ WaitingOf(Append(s, part)) = WaitingOf(s) + IF Mature(part) THEN 0 ELSE part.amount
    BY <1>1, <2>1, BondAppended
  <2>4. d = [left |-> 0, kept |-> Append(s, part)]
    BY <1>1, <1>4 DEF TakeFromBond, part
  <2>5. d.left = 0 /\ d.kept = Append(s, part) /\ d \in ClaimState
    BY <2>3, <2>4 DEF ClaimState
  <2> HIDE DEF d, s
  <2>6. AmountOf(d.kept) + c.left = AmountOf(s) + b.amount + d.left
    BY <1>1, <1>2, <2>1, <2>3, <2>5
  <2>7. WaitingOf(d.kept) = WaitingOf(s) + IF Mature(b) THEN 0 ELSE b.amount
    BY <1>4, <2>2, <2>3, <2>5
  <2> QED BY <2>5, <2>6, <2>7 DEF d, s
<1>5. CASE Mature(b) /\ 0 < c.left /\ b.amount <= c.left
  <2>1. d = [c EXCEPT !.left = @ - b.amount]
    BY <1>1, <1>5 DEF TakeFromBond
  <2>2. c.left - b.amount \in Nat
    BY <1>1, <1>5
  <2>3. d.left = c.left - b.amount /\ d.kept = s /\ d \in ClaimState
    BY <2>1, <2>2 DEF ClaimState
  <2> HIDE DEF d, s
  <2> QED BY <1>1, <1>2, <1>5, <2>3 DEF d, s
<1>6. \/ ~ Mature(b) \/ c.left = 0
      \/ Mature(b) /\ 0 < c.left /\ c.left < b.amount
      \/ Mature(b) /\ 0 < c.left /\ b.amount <= c.left
  BY <1>1
<1> QED BY <1>3, <1>4, <1>5, <1>6

LEMMA ClaimedEffect ==
  ASSUME NEW s \in Seq(Bond), NEW n \in Nat
  PROVE  /\ Claimed(s, n) \in ClaimState
         /\ AmountOf(Claimed(s, n).kept) + n = AmountOf(s) + Claimed(s, n).left
         /\ WaitingOf(Claimed(s, n).kept) = WaitingOf(s)
<1> DEFINE N == Len(s)
           base == [left |-> n, kept |-> <<>>]
           take == CHOOSE f : f = [i \in 0..N |->
                     IF i = 0 THEN [left |-> n, kept |-> <<>>] ELSE TakeFromBond(f[i-1], s[i])]
           step == [i \in 1..N |-> [c \in ClaimState |-> TakeFromBond(c, s[i])]]
           fa == [i \in DOMAIN s |-> s[i].amount]
           fw == [i \in DOMAIN s |-> IF Mature(s[i]) THEN 0 ELSE s[i].amount]
<1>1. /\ N \in Nat /\ DOMAIN s = 1..N
      /\ \A i \in 1..N : s[i] \in Bond /\ s[i].amount \in Nat
  BY BondRows
<1>2. Claimed(s, n) = take[N]
  BY DEF Claimed
<1>3. AmountOf(s) = SumFunctionOnSet(fa, 1..N) /\ WaitingOf(s) = SumFunctionOnSet(fw, 1..N)
  BY <1>1 DEF AmountOf, WaitingOf
<1>4. base \in ClaimState /\ base.left = n /\ base.kept = <<>>
  BY DEF ClaimState
<1>5. \A i \in 1..N : /\ fa[i] = s[i].amount
                      /\ fw[i] = IF Mature(s[i]) THEN 0 ELSE s[i].amount
  BY <1>1
<1> HIDE DEF N, fa, fw
<1>6. step \in [1..N -> [ClaimState -> ClaimState]]
  <2>1. \A i \in 1..N, c \in ClaimState : TakeFromBond(c, s[i]) \in ClaimState
    BY <1>1, TakeStep
  <2> QED BY <2>1
<1>7. PICK f : IsLoop(f, N, ClaimState, base, step)
  <2> HIDE DEF step, base
  <2> QED BY <1>1, <1>4, <1>6, LoopExists
<1>8. f = [i \in 0..N |-> IF i = 0 THEN base ELSE TakeFromBond(f[i-1], s[i])]
  <2>1. ASSUME NEW i \in 1..N PROVE f[i] = TakeFromBond(f[i-1], s[i])
    <3>1. i - 1 \in 0..N
      BY <1>1
    <3>2. f[i-1] \in ClaimState
      BY <1>7, <3>1 DEF IsLoop
    <3> QED BY <1>7, <3>2 DEF IsLoop
  <2> HIDE DEF step, base
  <2> QED BY <1>7, <2>1 DEF IsLoop
<1>9. take = [i \in 0..N |-> IF i = 0 THEN base ELSE TakeFromBond(take[i-1], s[i])]
  BY <1>8
<1> HIDE DEF take, base, step
<1> DEFINE P == {i \in 0..N :
                   /\ take[i] \in ClaimState
                   /\ AmountOf(take[i].kept) + n = SumFunctionOnSet(fa, 1..i) + take[i].left
                   /\ WaitingOf(take[i].kept) = SumFunctionOnSet(fw, 1..i)}
<1>10. 0 \in P
  <2>1. take[0] = base
    BY <1>1, <1>9
  <2>2. 1..0 = {} /\ DOMAIN <<>> = {}
    OBVIOUS
  <2>3. AmountOf(<<>>) = 0 /\ WaitingOf(<<>>) = 0
    BY <2>2, SumEmpty DEF AmountOf, WaitingOf
  <2>4. SumFunctionOnSet(fa, 1..0) = 0 /\ SumFunctionOnSet(fw, 1..0) = 0
    BY <2>2, SumEmpty
  <2> QED BY <1>1, <1>4, <2>1, <2>3, <2>4
<1>11. ASSUME NEW i \in 1..N, i - 1 \in P PROVE i \in P
  <2> DEFINE k == i - 1
             c == take[k]
             b == s[i]
             d == take[i]
  <2>1. k \in Nat /\ k + 1 = i /\ i \in 0..N /\ k \in 0..N
    BY <1>1
  <2>2. /\ c \in ClaimState
        /\ AmountOf(c.kept) + n = SumFunctionOnSet(fa, 1..k) + c.left
        /\ WaitingOf(c.kept) = SumFunctionOnSet(fw, 1..k)
    BY <1>11
  <2>3. d = TakeFromBond(c, b)
    BY <1>1, <1>9, <2>1
  <2>4. b \in Bond /\ b.amount \in Nat
    BY <1>1
  <2>5. fa[i] = b.amount /\ fw[i] = IF Mature(b) THEN 0 ELSE b.amount
    BY <1>5
  <2>6. \A j \in 1..(k+1) : fa[j] \in Int /\ fw[j] \in Int
    <3> TAKE j \in 1..(k+1)
    <3>1. j \in 1..N
      BY <1>1, <2>1
    <3>2. s[j].amount \in Nat
      BY <1>1, <3>1
    <3> QED BY <1>5, <3>1, <3>2
  <2> HIDE DEF c, b, d
  <2>7. /\ d \in ClaimState
        /\ AmountOf(d.kept) + c.left = AmountOf(c.kept) + b.amount + d.left
        /\ WaitingOf(d.kept) = WaitingOf(c.kept) + IF Mature(b) THEN 0 ELSE b.amount
    BY <2>2, <2>3, <2>4, TakeStep
  <2>8. /\ SumFunctionOnSet(fa, 1..(k+1)) = SumFunctionOnSet(fa, 1..k) + fa[k+1]
        /\ SumFunctionOnSet(fw, 1..(k+1)) = SumFunctionOnSet(fw, 1..k) + fw[k+1]
    BY <2>1, <2>6, SumNext
  <2>9. /\ SumFunctionOnSet(fa, 1..i) = SumFunctionOnSet(fa, 1..k) + b.amount
        /\ SumFunctionOnSet(fw, 1..i) = SumFunctionOnSet(fw, 1..k) + IF Mature(b) THEN 0 ELSE b.amount
    BY <2>1, <2>5, <2>8
  <2>10. c.left \in Nat /\ c.kept \in Seq(Bond) /\ d.left \in Nat /\ d.kept \in Seq(Bond)
    BY <2>2, <2>7 DEF ClaimState
  <2>11. AmountOf(c.kept) \in Nat /\ AmountOf(d.kept) \in Nat
    BY <2>10, AmountTypes
  <2>12. SumFunctionOnSet(fa, 1..k) \in Int
    <3>1. IsFiniteSet(1..k) /\ \A j \in 1..k : fa[j] \in Int
      BY <2>1, <2>6, FS_Interval
    <3> QED BY <3>1, SumInt
  <2>13. AmountOf(d.kept) + n = SumFunctionOnSet(fa, 1..i) + d.left
    <3> DEFINE sum == SumFunctionOnSet(fa, 1..k)
               next == SumFunctionOnSet(fa, 1..i)
    <3>1. next = sum + b.amount /\ sum \in Int /\ next \in Int
      BY <2>4, <2>9, <2>12
    <3>2. AmountOf(c.kept) + n = sum + c.left
      BY <2>2
    <3> HIDE DEF sum, next, k
    <3>3. AmountOf(d.kept) + c.left = AmountOf(c.kept) + b.amount + d.left
      BY <2>7
    <3>4. /\ AmountOf(c.kept) \in Int /\ AmountOf(d.kept) \in Int
          /\ c.left \in Int /\ d.left \in Int
      BY <2>10, <2>11
    <3>5. b.amount \in Int /\ sum \in Int /\ next \in Int /\ n \in Int
      BY <2>4, <3>1
    <3> DEFINE x == AmountOf(c.kept)
               y == AmountOf(d.kept)
               l == c.left
               r == d.left
               m == b.amount
    <3>6. /\ x \in Int /\ y \in Int /\ l \in Int /\ r \in Int /\ m \in Int
          /\ x + n = sum + l /\ y + l = x + m + r /\ next = sum + m
      BY <3>1, <3>2, <3>3, <3>4, <3>5
    <3> HIDE DEF x, y, l, r, m
    <3>7. y + n = next + r
      BY <3>5, <3>6
    <3> QED BY <3>7 DEF next, y, r
  <2>14. WaitingOf(d.kept) = SumFunctionOnSet(fw, 1..i)
    BY <2>2, <2>7, <2>9
  <2> QED BY <2>1, <2>7, <2>13, <2>14 DEF d
<1>12. N \in P
  <2> HIDE DEF P
  <2>1. \A i \in 1..N : i - 1 \in P => i \in P
    BY <1>11
  <2>2. 0..N \subseteq P
    BY <1>1, <1>10, <2>1, UpTo
  <2> QED BY <1>1, <2>2
<1> QED BY <1>2, <1>3, <1>12

-----------------------------------------------------------------------------
(* Types, and the tokens of the bonds                                       *)

(* The parties a message can name, and what it may ask of them.             *)
MessageOK(m) ==
  /\ m.kind = "TransferFrom" => m.owner \in Parties \ {ProxyContract} /\ m.amount \in Nat
  /\ m.kind = "IncreaseAllowance" => m.amount \in Nat
  /\ m.kind = "ProvideLiquidity" => m.deposit \in Deposit /\ m.receiver \in Parties
  /\ m.kind = "Swap" => m.amount \in Nat /\ m.to \in Callers

(* What an undone transaction goes back to.                                 *)
BeforeOK ==
  /\ before.held \in Holdings
  /\ before.allowance \in [Parties -> Nat]
  /\ before.pairAllowed \in Nat
  /\ before.bonds \in [Parties -> Seq(Bond)]
  /\ before.requests \in 0..MaxRequests
  /\ AllBonded(before.bonds) <= before.held["fury"][ProxyContract]

(* The native coins that are to be sent on were sent with the call.         *)
ReceiverIsFunded ==
  Noted /\ Then.next = "TransferToNativeInvestmentReceiveWallet"
    => Then.funds <= held["native"][ProxyContract]

(* The rewards are for those who call.                                      *)
UserCalled == Noted => Then.user \in Callers

(* The proxy has the tokens of the bonds and those it is to pass on to the  *)
(* pair, apart from the ones it is about to fetch.                          *)
PassedOn ==
  IF Noted THEN Then.deposit["fury"]
  ELSE IF Message.kind = "ProvideLiquidity" THEN Message.deposit["fury"] ELSE 0
Fetched == IF Message.kind = "TransferFrom" THEN Message.amount ELSE 0
BondsAreFunded ==
  AllBonded(bonds) + PassedOn <= held["fury"][ProxyContract] + Fetched

RewardInv ==
  /\ ProxyTypeOK
  /\ pending = [id |-> pending.id, message |-> pending.message]
  /\ MessageOK(Message)
  /\ IF Idle THEN Message = NoMessage ELSE BeforeOK
  /\ ReceiverIsFunded
  /\ UserCalled
  /\ BondsAreFunded

LEMMA AllBondedType ==
  ASSUME NEW b \in [Parties -> Seq(Bond)]
  PROVE  AllBonded(b) \in Nat
<1>1. IsFiniteSet(Callers) /\ Callers \subseteq Parties
  BY CallersAreFinite
<1>2. \A u \in Callers : BondedTo(b)[u] \in Nat
  <2> TAKE u \in Callers
  <2>1. b[u] \in Seq(Bond)
    BY <1>1
  <2> QED BY <2>1, AmountTypes DEF BondedTo
<1> QED BY <1>1, <1>2, SumNat DEF AllBonded

LEMMA StoredTypes ==
  ASSUME RewardInv
  PROVE  /\ held \in Holdings /\ allowance \in [Parties -> Nat] /\ pairAllowed \in Nat
         /\ bonds \in [Parties -> Seq(Bond)] /\ requests \in 0..MaxRequests
         /\ now \in 1..MaxTime /\ configured \in SUBSET Addresses /\ opening \in Nat
         /\ held["fury"] \in [Parties -> Nat] /\ held["native"] \in [Parties -> Nat]
         /\ held["lp"] \in [Parties -> Nat]
         /\ AllBonded(bonds) \in Nat /\ held["fury"][ProxyContract] \in Nat
         /\ held["native"][ProxyContract] \in Nat
         /\ ProxyContract \in Parties /\ PairContract \in Parties
<1>1. /\ held \in Holdings /\ allowance \in [Parties -> Nat] /\ pairAllowed \in Nat
      /\ bonds \in [Parties -> Seq(Bond)] /\ requests \in 0..MaxRequests
      /\ now \in 1..MaxTime /\ configured \in SUBSET Addresses /\ opening \in Nat
  BY DEF RewardInv, ProxyTypeOK
<1>2. /\ held["fury"] \in [Parties -> Nat] /\ held["native"] \in [Parties -> Nat]
      /\ held["lp"] \in [Parties -> Nat]
  BY <1>1, HeldTypes, KindsOfAssets
<1>3. ProxyContract \in Parties /\ PairContract \in Parties
  BY PairAssumption DEF PairAssumption
<1>4. AllBonded(bonds) \in Nat
  BY <1>1, AllBondedType
<1> QED BY <1>1, <1>2, <1>3, <1>4

(* A message goes out with something to do at the reply.                    *)
LEMMA SubMessageStep ==
  ASSUME requests \in Nat, NEW message, NEW then \in Details, NEW kept,
         SendSub(message, then, kept), DOMAIN kept = {}, then.user \in Callers,
         MessageOK(message), message.kind = "TransferFrom" \/ message.kind = "IncreaseAllowance",
         held' \in Holdings, allowance' \in [Parties -> Nat], pairAllowed' \in Nat,
         bonds' \in [Parties -> Seq(Bond)], BeforeOK',
         now' \in 1..MaxTime, configured' \in SUBSET Addresses, opening' \in Nat,
         then.next = "TransferToNativeInvestmentReceiveWallet" =>
           then.funds <= held'["native"][ProxyContract],
         AllBonded(bonds') + then.deposit["fury"]
           <= held'["fury"][ProxyContract]
                + IF message.kind = "TransferFrom" THEN message.amount ELSE 0
  PROVE  RewardInv'
<1>1. /\ requests < MaxRequests /\ requests' = requests + 1
      /\ pending' = [id |-> requests + 1, message |-> message]
      /\ details' = [id \in DOMAIN kept \cup {requests + 1} |->
                       IF id = requests + 1 THEN then ELSE kept[id]]
  BY DEF SendSub, SendLast
<1>2. MaxRequests \in Nat
  BY ProxyAssumption DEF ProxyAssumption
<1>3. requests + 1 \in 1..MaxRequests /\ requests' \in 0..MaxRequests
  BY <1>1, <1>2
<1>4. DOMAIN details' = {requests + 1} /\ details'[requests + 1] = then
  BY <1>1
<1>5. /\ pending' = [id |-> pending'.id, message |-> pending'.message] /\ pending'.id = requests + 1
      /\ pending'.message = message
  BY <1>1
<1>6. Message' = message /\ Then' = then /\ Noted' /\ ~ Idle'
  BY <1>3, <1>4, <1>5 DEF Message, Then, Noted, Idle
<1>7. /\ DOMAIN details' \subseteq 1..MaxRequests
      /\ \A id \in DOMAIN details' : details'[id] \in Details
      /\ pending'.id \in 0..MaxRequests
  BY <1>3, <1>4, <1>5
<1>8. ProxyTypeOK'
  BY <1>3, <1>7 DEF ProxyTypeOK
<1>9. ReceiverIsFunded' /\ UserCalled'
  BY <1>6 DEF ReceiverIsFunded, UserCalled
<1>10. BondsAreFunded'
  <2>1. PassedOn' = then.deposit["fury"]
    BY <1>6 DEF PassedOn
  <2>2. Fetched' = IF message.kind = "TransferFrom" THEN message.amount ELSE 0
    BY <1>6 DEF Fetched
  <2> QED BY <2>1, <2>2 DEF BondsAreFunded, AllBonded, BondedTo, AmountOf
<1>11. MessageOK(Message)'
  BY <1>6 DEF MessageOK
<1> QED BY <1>5, <1>6, <1>8, <1>9, <1>10, <1>11 DEF RewardInv

(* The last message of a transaction goes out.                              *)
LEMMA LastMessageStep ==
  ASSUME requests \in Nat, NEW message, NEW kept,
         SendLast(message, kept), DOMAIN kept = {}, MessageOK(message),
         message.kind = "ProvideLiquidity" \/ message.kind = "Swap",
         held' \in Holdings, allowance' \in [Parties -> Nat], pairAllowed' \in Nat,
         bonds' \in [Parties -> Seq(Bond)], BeforeOK',
         now' \in 1..MaxTime, configured' \in SUBSET Addresses, opening' \in Nat,
         held'["fury"][ProxyContract] \in Nat,
         AllBonded(bonds') + (IF message.kind = "ProvideLiquidity" THEN message.deposit["fury"] ELSE 0)
           <= held'["fury"][ProxyContract]
  PROVE  RewardInv'
<1>1. /\ requests < MaxRequests /\ requests' = requests + 1
      /\ pending' = [id |-> requests + 1, message |-> message]
      /\ details' = kept
  BY DEF SendLast
<1>2. MaxRequests \in Nat
  BY ProxyAssumption DEF ProxyAssumption
<1>3. requests + 1 \in 1..MaxRequests /\ requests' \in 0..MaxRequests
  BY <1>1, <1>2
<1>4. /\ pending' = [id |-> pending'.id, message |-> pending'.message] /\ pending'.id = requests + 1
      /\ pending'.message = message
  BY <1>1
<1>5. Message' = message /\ ~ Noted' /\ ~ Idle'
  BY <1>1, <1>3, <1>4 DEF Message, Noted, Idle
<1>6. ProxyTypeOK'
  BY <1>1, <1>3, <1>4 DEF ProxyTypeOK
<1>7. ReceiverIsFunded' /\ UserCalled'
  BY <1>5 DEF ReceiverIsFunded, UserCalled
<1>8. BondsAreFunded'
  <2>1. PassedOn' = IF message.kind = "ProvideLiquidity" THEN message.deposit["fury"] ELSE 0
    BY <1>5 DEF PassedOn
  <2>2. Fetched' = 0
    BY <1>5 DEF Fetched
  <2>3. AllBonded(bonds') + PassedOn' <= held'["fury"][ProxyContract] + 0
    BY <2>1
  <2> QED BY <2>2, <2>3 DEF BondsAreFunded, AllBonded, BondedTo, AmountOf
<1>9. MessageOK(Message)'
  BY <1>5 DEF MessageOK
<1> QED BY <1>4, <1>5, <1>6, <1>7, <1>8, <1>9 DEF RewardInv

(* A message is executed.                                                   *)
LEMMA ExecutedStep ==
  ASSUME RewardInv, ~ Idle, Executed,
         held' \in Holdings, allowance' \in [Parties -> Nat], pairAllowed' \in Nat,
         held'["fury"][ProxyContract] \in Nat,
         Noted => held'["native"][ProxyContract] >= held["native"][ProxyContract],
         held'["native"][ProxyContract] \in Nat,
         AllBonded(bonds) + (IF Noted THEN Then.deposit["fury"] ELSE 0)
           <= held'["fury"][ProxyContract]
  PROVE  RewardInv'
<1>1. /\ pending' = [pending EXCEPT !.message = NoMessage]
      /\ UNCHANGED <<now, configured, opening, bonds, requests, details, before>>
  BY DEF Executed, settings
<1>2. pending = [id |-> pending.id, message |-> pending.message] /\ pending.id \in 0..MaxRequests
  BY DEF RewardInv, ProxyTypeOK
<1>3. /\ pending' = [id |-> pending'.id, message |-> pending'.message] /\ pending'.id = pending.id
      /\ pending'.message = NoMessage
  BY <1>1, <1>2
<1>4. Message' = NoMessage /\ Then' = Then /\ Noted' = Noted /\ Idle' = Idle
  BY <1>1, <1>3 DEF Message, Then, Noted, Idle
<1>5. ProxyTypeOK'
  BY <1>1, <1>2, <1>3 DEF RewardInv, ProxyTypeOK
<1>6. ~ Idle' /\ BeforeOK'
  BY <1>1, <1>4 DEF RewardInv, BeforeOK, AllBonded, BondedTo, AmountOf
<1>7. ReceiverIsFunded'
  <2>1. SUFFICES ASSUME Noted, Then.next = "TransferToNativeInvestmentReceiveWallet"
                 PROVE  Then.funds <= held'["native"][ProxyContract]
    BY <1>4 DEF ReceiverIsFunded
  <2>2. Then.funds <= held["native"][ProxyContract]
    BY <2>1 DEF RewardInv, ReceiverIsFunded
  <2>3. Then.funds \in Nat
    <3>1. Then \in Details
      BY <2>1 DEF RewardInv, ProxyTypeOK, Then, Noted
    <3> QED BY <3>1 DEF Details
  <2>4. held["native"][ProxyContract] \in Nat
    BY StoredTypes
  <2> QED BY <2>1, <2>2, <2>3, <2>4
<1>8. BondsAreFunded'
  <2>1. PassedOn' = IF Noted THEN Then.deposit["fury"] ELSE 0
    BY <1>4 DEF PassedOn, NoMessage
  <2>2. Fetched' = 0
    BY <1>4 DEF Fetched, NoMessage
  <2>3. AllBonded(bonds') = AllBonded(bonds)
    BY <1>1
  <2>4. AllBonded(bonds') + PassedOn' <= held'["fury"][ProxyContract] + 0
    BY <2>1, <2>3
  <2> QED BY <2>2, <2>4 DEF BondsAreFunded, AllBonded, BondedTo, AmountOf
<1>9. MessageOK(Message)'
  BY <1>4 DEF MessageOK, NoMessage
<1>10. UserCalled'
  BY <1>4 DEF RewardInv, UserCalled
<1> QED BY <1>3, <1>5, <1>6, <1>7, <1>8, <1>9, <1>10 DEF RewardInv

(* A transaction ends, or a call is answered at once.                       *)
LEMMA BetweenTransactions ==
  ASSUME held' \in Holdings, allowance' \in [Parties -> Nat], pairAllowed' \in Nat,
         bonds' \in [Parties -> Seq(Bond)], requests' \in 0..MaxRequests,
         DOMAIN details' = {}, pending' = Outside,
         now' \in 1..MaxTime, configured' \in SUBSET Addresses, opening' \in Nat,
         held'["fury"][ProxyContract] \in Nat, AllBonded(bonds') \in Nat,
         AllBonded(bonds') <= held'["fury"][ProxyContract]
  PROVE  RewardInv'
<1>1. /\ pending' = [id |-> pending'.id, message |-> pending'.message] /\ pending'.id = 0
      /\ pending'.message = NoMessage
  BY DEF Outside
<1>2. Message' = NoMessage /\ ~ Noted' /\ Idle'
  BY <1>1 DEF Message, Noted, Idle
<1>3. MaxRequests \in Nat
  BY ProxyAssumption DEF ProxyAssumption
<1>4. ProxyTypeOK'
  BY <1>1, <1>3 DEF ProxyTypeOK
<1>5. ReceiverIsFunded' /\ UserCalled'
  BY <1>2 DEF ReceiverIsFunded, UserCalled
<1>6. BondsAreFunded'
  <2>1. PassedOn' = 0 /\ Fetched' = 0
    BY <1>2 DEF PassedOn, Fetched, NoMessage
  <2>2. AllBonded(bonds') + 0 <= held'["fury"][ProxyContract] + 0
    OBVIOUS
  <2> QED BY <2>1, <2>2 DEF BondsAreFunded, AllBonded, BondedTo, AmountOf
<1>7. MessageOK(Message)'
  BY <1>2 DEF MessageOK, NoMessage
<1> QED BY <1>1, <1>2, <1>4, <1>5, <1>6, <1>7 DEF RewardInv

-----------------------------------------------------------------------------
(* The calls that begin a transaction                                       *)

(* What a transaction starts from, and what it goes back to.                *)
LEMMA AtStart ==
  ASSUME ChainInv, RewardInv, Idle
  PROVE  /\ AllBonded(bonds) <= held["fury"][ProxyContract]
         /\ pairAllowed = 0 /\ DOMAIN details = {} /\ pending = Outside
<1>1. pairAllowed = 0 /\ DOMAIN details = {}
  BY DEF ChainInv
<1>2. /\ Message = NoMessage /\ pending.id = 0
      /\ pending = [id |-> pending.id, message |-> pending.message]
  BY DEF RewardInv, Idle
<1>3. pending = Outside
  BY <1>2 DEF Outside, Message
<1>4. Noted => FALSE
  BY <1>1 DEF Noted
<1>5. PassedOn = 0 /\ Fetched = 0
  BY <1>2, <1>4 DEF PassedOn, Fetched, NoMessage
<1>6. AllBonded(bonds) + 0 <= held["fury"][ProxyContract] + 0
  BY <1>5 DEF RewardInv, BondsAreFunded
<1>7. AllBonded(bonds) \in Nat /\ held["fury"][ProxyContract] \in Nat
  BY StoredTypes
<1>8. AllBonded(bonds) <= held["fury"][ProxyContract]
  BY <1>6, <1>7
<1> QED BY <1>1, <1>3, <1>8

LEMMA BeginStep ==
  ASSUME ChainInv, RewardInv, Begin
  PROVE  /\ BeforeOK' /\ now' \in 1..MaxTime /\ configured' \in SUBSET Addresses /\ opening' \in Nat
         /\ AllBonded(bonds) <= held["fury"][ProxyContract] /\ requests \in Nat
         /\ DOMAIN details = {}
<1>1. Idle /\ before' = Storage /\ UNCHANGED <<now, configured, opening>>
  BY DEF Begin, settings
<1>2. /\ held \in Holdings /\ allowance \in [Parties -> Nat] /\ pairAllowed \in Nat
      /\ bonds \in [Parties -> Seq(Bond)] /\ requests \in 0..MaxRequests
      /\ now \in 1..MaxTime /\ configured \in SUBSET Addresses /\ opening \in Nat
  BY StoredTypes
<1>3. AllBonded(bonds) <= held["fury"][ProxyContract] /\ DOMAIN details = {}
  BY <1>1, AtStart
<1>4. /\ before'.held = held /\ before'.allowance = allowance
      /\ before'.pairAllowed = pairAllowed /\ before'.bonds = bonds
      /\ before'.requests = requests
  BY <1>1 DEF Storage
<1>5. BeforeOK'
  BY <1>2, <1>3, <1>4 DEF BeforeOK, AllBonded, BondedTo, AmountOf
<1> QED BY <1>1, <1>2, <1>3, <1>5

LEMMA NamedParties ==
  /\ {Admin, PairRewardWallet, NativeRewardWallet, LpHolder, NativeReceiver} \cup Callers
       \subseteq Parties \ {PairContract, ProxyContract}
  /\ PairContract \in Parties /\ ProxyContract \in Parties /\ PairContract # ProxyContract
BY ProxyAssumption, PairAssumption DEF ProxyAssumption, PairAssumption

LEMMA FundsEffect ==
  ASSUME RewardInv, NEW sender \in Callers, NEW sent \in Nat, sent <= held["native"][sender]
  PROVE  /\ WithFunds(sender, sent) \in Holdings
         /\ WithFunds(sender, sent)["fury"] = held["fury"]
         /\ WithFunds(sender, sent)["lp"] = held["lp"]
         /\ WithFunds(sender, sent)["native"][ProxyContract]
              = held["native"][ProxyContract] + sent
<1>1. /\ sender \in Parties /\ sender # ProxyContract /\ ProxyContract \in Parties
      /\ "native" \in Kinds /\ "fury" \in Kinds \ {"native"} /\ "lp" \in Kinds \ {"native"}
  BY NamedParties, KindsOfAssets DEF Assets
<1>2. held \in Holdings /\ held["native"][ProxyContract] \in Nat
  BY StoredTypes
<1> DEFINE g == WithFunds(sender, sent)
<1>3. g = Given(held, "native", sender, ProxyContract, sent)
  BY DEF WithFunds
<1> HIDE DEF g
<1>4. /\ g \in Holdings /\ \A j \in Kinds \ {"native"} : g[j] = held[j]
      /\ \A p \in Parties : g["native"][p]
           = held["native"][p] - (IF p = sender THEN sent ELSE 0)
               + (IF p = ProxyContract THEN sent ELSE 0)
  BY <1>1, <1>2, <1>3, GivenEffect
<1>5. g["native"][ProxyContract] = held["native"][ProxyContract] + sent
  BY <1>1, <1>2, <1>4
<1> QED BY <1>1, <1>4, <1>5 DEF g

LEMMA ProvideReward ==
  ASSUME ChainInv, RewardInv, NEW sender \in Callers, NEW deposit \in Deposit,
         NEW tolerance \in Nat \cup {None}, NEW receiver \in Parties,
         NEW next \in Actions \ {"TransferToNativeInvestmentReceiveWallet"},
         NEW sent \in Nat, NEW passed \in Nat,
         ProvideLiquidityThrough(sender, deposit, tolerance, receiver, next, sent, passed)
  PROVE  RewardInv'
<1>1. PICK then : then = [next |-> next, deposit |-> deposit, tolerance |-> tolerance,
                          receiver |-> receiver, funds |-> passed, user |-> sender]
  OBVIOUS
<1>2. PICK message : message = TransferFrom(sender, deposit["fury"])
  OBVIOUS
<1>3. /\ Begin /\ sent <= held["native"][sender] /\ held' = WithFunds(sender, sent)
      /\ SendSub(message, then, details)
      /\ UNCHANGED <<allowance, pairAllowed, bonds>>
  BY <1>1, <1>2 DEF ProvideLiquidityThrough
<1>4. sender \in Parties \ {ProxyContract} /\ deposit["fury"] \in Nat
  BY NamedParties, KindsOfAssets DEF Deposit
<1>5. /\ then \in Details /\ then.user \in Callers
      /\ then.next # "TransferToNativeInvestmentReceiveWallet"
  BY <1>1, <1>4 DEF Details
<1>6. /\ message.kind = "TransferFrom" /\ message.amount = deposit["fury"]
      /\ MessageOK(message)
  BY <1>2, <1>4 DEF TransferFrom, MessageOK
<1>7. /\ BeforeOK' /\ now' \in 1..MaxTime /\ configured' \in SUBSET Addresses /\ opening' \in Nat
      /\ AllBonded(bonds) <= held["fury"][ProxyContract] /\ requests \in Nat
      /\ DOMAIN details = {}
  BY <1>3, BeginStep
<1>8. held' \in Holdings /\ held'["fury"] = held["fury"]
  BY <1>3, FundsEffect
<1>9. /\ allowance' \in [Parties -> Nat] /\ pairAllowed' \in Nat
      /\ bonds' \in [Parties -> Seq(Bond)]
      /\ AllBonded(bonds) \in Nat /\ held["fury"][ProxyContract] \in Nat
  BY <1>3, StoredTypes
<1>10. AllBonded(bonds') + then.deposit["fury"]
         <= held'["fury"][ProxyContract]
              + IF message.kind = "TransferFrom" THEN message.amount ELSE 0
  <2>1. then.deposit = deposit /\ AllBonded(bonds') = AllBonded(bonds)
    BY <1>1, <1>3
  <2>2. AllBonded(bonds) + deposit["fury"] <= held["fury"][ProxyContract] + deposit["fury"]
    BY <1>4, <1>7, <1>9
  <2> QED BY <1>6, <1>8, <2>1, <2>2
<1> QED BY <1>3, <1>5, <1>6, <1>7, <1>8, <1>9, <1>10, SubMessageStep

LEMMA InputTypes ==
  /\ Deposits \subseteq Deposit /\ Sent \subseteq Nat /\ Amounts \subseteq Nat
  /\ Tolerances \subseteq Nat \cup {None}
  /\ {PlatformFees, SwapFees, PairPeriod, NativePeriod, MaxTime, MaxRequests} \subseteq Nat
BY ProxyAssumption DEF ProxyAssumption

LEMMA ProvideLiquidityReward ==
  ASSUME ChainInv, RewardInv, NEW sender \in Callers, NEW deposit \in Deposits,
         NEW tolerance \in Tolerances, NEW sent \in Sent,
         \/ ProvideLiquidity(sender, deposit, tolerance, sent)
         \/ ProvidePairForReward(sender, deposit, tolerance, sent)
  PROVE  RewardInv'
<1>1. /\ deposit \in Deposit /\ tolerance \in Nat \cup {None} /\ sent \in Nat
      /\ deposit["native"] \in Nat /\ PlatformFees \in Nat
  BY InputTypes, KindsOfAssets DEF Deposit
<1>2. Provider \in Parties /\ LpHolder \in Parties
  BY NamedParties DEF Callers
<1>3. CASE ProvideLiquidity(sender, deposit, tolerance, sent)
  <2>1. "IncreaseAllowance" \in Actions \ {"TransferToNativeInvestmentReceiveWallet"}
    BY DEF Actions
  <2> QED BY <1>1, <1>2, <1>3, <2>1, ProvideReward DEF ProvideLiquidity
<1>4. CASE ProvidePairForReward(sender, deposit, tolerance, sent)
  <2> DEFINE fees == QueryPlatformFees(deposit, PlatformFees)
  <2>1. /\ FeesPaid(deposit, PlatformFees, sent)
        /\ ProvideLiquidityThrough(sender, deposit, tolerance, LpHolder,
                                   "TransferCustomAssetsFromFundsOwner", sent, sent - fees)
    BY <1>4 DEF ProvidePairForReward
  <2>2. fees \in Nat
    BY <1>1, <2>1, FeesType, StoredTypes DEF FeesPaid
  <2>3. sent >= deposit["native"] + fees
    BY <2>1 DEF FeesPaid
  <2> HIDE DEF fees
  <2>4. sent - fees \in Nat
    BY <1>1, <2>2, <2>3
  <2>5. "TransferCustomAssetsFromFundsOwner"
          \in Actions \ {"TransferToNativeInvestmentReceiveWallet"}
    BY DEF Actions
  <2> QED BY <1>1, <1>2, <2>1, <2>4, <2>5, ProvideReward
<1> QED BY <1>3, <1>4

(* One more bond of a caller.                                               *)
LEMMA BondStep ==
  ASSUME RewardInv, NEW user \in Callers, NEW reward \in Nat, NEW period \in Nat,
         BondReward(user, reward, period)
  PROVE  /\ bonds' \in [Parties -> Seq(Bond)]
         /\ AllBonded(bonds') = AllBonded(bonds) + reward
<1> DEFINE b == [amount |-> reward, period |-> period,
                 start |-> IF opening < now THEN now ELSE 0]
           s == bonds[user]
<1>1. /\ bonds \in [Parties -> Seq(Bond)] /\ now \in 1..MaxTime /\ MaxTime \in Nat
      /\ AllBonded(bonds) \in Nat
  BY StoredTypes, InputTypes
<1>2. user \in Parties
  BY NamedParties
<1>3. now \in Nat
  BY <1>1
<1>4. b \in Bond /\ b.amount = reward
  BY <1>3 DEF Bond
<1>5. bonds' = [bonds EXCEPT ![user] = Append(s, b)]
  BY DEF BondReward
<1>6. s \in Seq(Bond)
  BY <1>1, <1>2
<1> HIDE DEF b, s
<1>7. Append(s, b) \in Seq(Bond) /\ AmountOf(Append(s, b)) = AmountOf(s) + reward
  BY <1>4, <1>6, BondAppended
<1>8. AmountOf(s) \in Nat
  BY <1>6, AmountTypes
<1>9. /\ bonds' \in [Parties -> Seq(Bond)]
      /\ AllBonded(bonds') = AllBonded(bonds) + (AmountOf(Append(s, b)) - AmountOf(bonds[user]))
  BY <1>1, <1>5, <1>7, BondsReplaced
<1>10. AllBonded(bonds') = AllBonded(bonds) + ((AmountOf(s) + reward) - AmountOf(s))
  BY <1>7, <1>9 DEF s
<1> QED BY <1>1, <1>8, <1>9, <1>10

LEMMA OfType ==
  ASSUME NEW n \in Nat, NEW asset \in Assets
  PROVE  Of(asset, n) \in Deposit /\ Of("native", n)["fury"] = 0
BY KindsOfAssets DEF Of, Deposit, Assets

LEMMA ProvideNativeReward ==
  ASSUME ChainInv, RewardInv, NEW sender \in Callers, NEW n \in Nat, NEW sent \in Nat,
         ProvideNativeForReward(sender, n, None, sent)
  PROVE  RewardInv'
<1> DEFINE deposit == Of("native", n)
           fees == QueryPlatformFees(deposit, PlatformFees)
           reward == NativeReward(n)
<1>1. PICK then : then = [next |-> "TransferToNativeInvestmentReceiveWallet",
                          deposit |-> deposit, tolerance |-> None,
                          receiver |-> NativeReceiver, funds |-> n, user |-> sender]
  OBVIOUS
<1>2. PICK message : message = TransferFrom(NativeRewardWallet, reward)
  OBVIOUS
<1>3. /\ Begin /\ sent <= held["native"][sender] /\ held' = WithFunds(sender, sent)
      /\ FeesPaid(deposit, PlatformFees, sent) /\ Pool(held, "native") + n > 0
      /\ BondReward(sender, reward, NativePeriod)
      /\ SendSub(message, then, details)
      /\ UNCHANGED <<allowance, pairAllowed>>
  BY <1>1, <1>2 DEF ProvideNativeForReward
<1>4. /\ deposit \in Deposit /\ deposit["fury"] = 0 /\ deposit["native"] = n
      /\ PlatformFees \in Nat /\ NativePeriod \in Nat
  BY OfType, KindsOfAssets, InputTypes DEF Of
<1>5. /\ NativeRewardWallet \in Parties \ {ProxyContract} /\ NativeReceiver \in Parties
      /\ sender \in Parties
  BY NamedParties
<1>6. reward \in Nat /\ fees \in Nat
  BY <1>3, <1>4, NativeRewardType, FeesType, StoredTypes DEF FeesPaid
<1>7. sent >= n + fees
  BY <1>3, <1>4 DEF FeesPaid
<1> HIDE DEF deposit, fees, reward
<1>8. /\ then \in Details /\ then.user \in Callers
      /\ then.funds = n /\ then.deposit["fury"] = 0
  BY <1>1, <1>4, <1>5 DEF Details, Actions
<1>9. /\ message.kind = "TransferFrom" /\ message.amount = reward /\ MessageOK(message)
  BY <1>2, <1>5, <1>6 DEF TransferFrom, MessageOK
<1>10. /\ BeforeOK' /\ now' \in 1..MaxTime /\ configured' \in SUBSET Addresses /\ opening' \in Nat
       /\ AllBonded(bonds) <= held["fury"][ProxyContract] /\ requests \in Nat
       /\ DOMAIN details = {}
  BY <1>3, BeginStep
<1>11. /\ held' \in Holdings /\ held'["fury"] = held["fury"]
       /\ held'["native"][ProxyContract] = held["native"][ProxyContract] + sent
  BY <1>3, FundsEffect
<1>12. /\ allowance' \in [Parties -> Nat] /\ pairAllowed' \in Nat
       /\ AllBonded(bonds) \in Nat /\ held["fury"][ProxyContract] \in Nat
       /\ held["native"][ProxyContract] \in Nat
  BY <1>3, StoredTypes
<1>13. bonds' \in [Parties -> Seq(Bond)] /\ AllBonded(bonds') = AllBonded(bonds) + reward
  BY <1>3, <1>4, <1>6, BondStep
<1>14. then.funds <= held'["native"][ProxyContract]
  BY <1>6, <1>7, <1>8, <1>11, <1>12
<1>15. AllBonded(bonds') + then.deposit["fury"]
         <= held'["fury"][ProxyContract]
              + IF message.kind = "TransferFrom" THEN message.amount ELSE 0
  <2>1. (AllBonded(bonds) + reward) + 0 <= held["fury"][ProxyContract] + reward
    BY <1>6, <1>10, <1>12
  <2> QED BY <1>8, <1>9, <1>11, <1>13, <2>1
<1> QED BY <1>3, <1>8, <1>9, <1>10, <1>11, <1>12, <1>13, <1>14, <1>15, SubMessageStep

LEMMA SwapNativeReward ==
  ASSUME ChainInv, RewardInv, NEW sender \in Callers, NEW n \in Nat, NEW sent \in Nat,
         NEW belief, NEW spread,
         SwapNativeForFury(sender, n, belief, spread, sent)
  PROVE  RewardInv'
<1>1. PICK message : message = SwapNative(n, belief, spread, sender)
  OBVIOUS
<1>2. /\ Begin /\ sent <= held["native"][sender] /\ held' = WithFunds(sender, sent)
      /\ SendLast(message, details)
      /\ UNCHANGED <<allowance, pairAllowed, bonds>>
  BY <1>1 DEF SwapNativeForFury
<1>3. message.kind = "Swap" /\ MessageOK(message)
  BY <1>1 DEF SwapNative, MessageOK
<1>4. /\ BeforeOK' /\ now' \in 1..MaxTime /\ configured' \in SUBSET Addresses /\ opening' \in Nat
      /\ AllBonded(bonds) <= held["fury"][ProxyContract] /\ requests \in Nat
      /\ DOMAIN details = {}
  BY <1>2, BeginStep
<1>5. held' \in Holdings /\ held'["fury"] = held["fury"]
  BY <1>2, FundsEffect
<1>6. /\ allowance' \in [Parties -> Nat] /\ pairAllowed' \in Nat
      /\ bonds' \in [Parties -> Seq(Bond)]
      /\ AllBonded(bonds) \in Nat /\ held["fury"][ProxyContract] \in Nat
  BY <1>2, StoredTypes
<1>7. AllBonded(bonds') + (IF message.kind = "ProvideLiquidity" THEN message.deposit["fury"] ELSE 0)
        <= held'["fury"][ProxyContract]
  <2>1. AllBonded(bonds') = AllBonded(bonds)
    BY <1>2
  <2>2. AllBonded(bonds) + 0 <= held["fury"][ProxyContract]
    BY <1>4, <1>6
  <2> QED BY <1>3, <1>5, <2>1, <2>2
<1>8. held'["fury"][ProxyContract] \in Nat
  BY <1>5, <1>6
<1> QED BY <1>2, <1>3, <1>4, <1>5, <1>6, <1>7, <1>8, LastMessageStep

-----------------------------------------------------------------------------
(* The messages                                                             *)

LEMMA NotedTypes ==
  ASSUME RewardInv, Noted
  PROVE  /\ Then \in Details
         /\ Then.deposit \in Deposit /\ Then.deposit["fury"] \in Nat
         /\ Then.deposit["native"] \in Nat
         /\ Then.tolerance \in Nat \cup {None} /\ Then.receiver \in Parties
         /\ Then.funds \in Nat /\ Then.user \in Callers
<1>1. Then \in Details
  BY DEF RewardInv, ProxyTypeOK, Then, Noted
<1>2. Then.deposit \in Deposit
  BY <1>1 DEF Details
<1>3. Then.deposit["fury"] \in Nat /\ Then.deposit["native"] \in Nat
  BY <1>2, KindsOfAssets DEF Deposit
<1>4. Then.user \in Callers
  BY DEF RewardInv, UserCalled
<1> QED BY <1>1, <1>2, <1>3, <1>4 DEF Details

LEMMA TransferReward ==
  ASSUME ChainInv, RewardInv, ExecuteTransferFrom
  PROVE  RewardInv'
<1> DEFINE owner == Message.owner
           n == Message.amount
<1>1. /\ ~ Idle /\ Message.kind = "TransferFrom" /\ CanTransferFrom(Message)
      /\ allowance' = [allowance EXCEPT ![owner] = @ - n]
      /\ held' = Given(held, "fury", owner, ProxyContract, n)
      /\ Executed /\ UNCHANGED pairAllowed
  BY DEF ExecuteTransferFrom, MessageSent
<1>2. Transferring
  BY <1>1 DEF ChainInv, Underway, NoMessage
<1>3. Noted
  BY <1>2 DEF Transferring, Noted
<1>4. owner \in Parties /\ owner # ProxyContract /\ n \in Nat
  BY <1>1 DEF RewardInv, MessageOK
<1>5. n <= allowance[owner] /\ n <= held["fury"][owner]
  BY <1>1 DEF CanTransferFrom
<1>6. PassedOn = Then.deposit["fury"] /\ Fetched = n
  BY <1>1, <1>3 DEF PassedOn, Fetched
<1> HIDE DEF owner, n
<1>7. /\ held \in Holdings /\ allowance \in [Parties -> Nat] /\ pairAllowed \in Nat
      /\ AllBonded(bonds) \in Nat /\ held["fury"][ProxyContract] \in Nat
      /\ held["native"][ProxyContract] \in Nat /\ ProxyContract \in Parties
  BY StoredTypes
<1>8. /\ held' \in Holdings /\ held'["native"] = held["native"]
      /\ \A p \in Parties : held'["fury"][p]
           = held["fury"][p] - (IF p = owner THEN n ELSE 0)
               + (IF p = ProxyContract THEN n ELSE 0)
  <2>1. "fury" \in Kinds /\ "native" \in Kinds \ {"fury"}
    BY KindsOfAssets
  <2> QED BY <1>1, <1>4, <1>5, <1>7, <2>1, GivenEffect
<1>9. held'["fury"][ProxyContract] = held["fury"][ProxyContract] + n
  BY <1>4, <1>7, <1>8
<1>10. allowance' \in [Parties -> Nat]
  <2>1. allowance[owner] - n \in Nat
    BY <1>4, <1>5, <1>7
  <2> QED BY <1>1, <1>4, <1>7, <2>1
<1>11. AllBonded(bonds) + Then.deposit["fury"] <= held["fury"][ProxyContract] + n
  BY <1>6 DEF RewardInv, BondsAreFunded
<1>12. AllBonded(bonds) + (IF Noted THEN Then.deposit["fury"] ELSE 0)
         <= held'["fury"][ProxyContract]
  BY <1>3, <1>9, <1>11
<1>13. /\ held'["fury"][ProxyContract] \in Nat /\ held'["native"][ProxyContract] \in Nat
       /\ held'["native"][ProxyContract] >= held["native"][ProxyContract]
       /\ pairAllowed' \in Nat
  BY <1>1, <1>4, <1>7, <1>8, <1>9
<1> QED BY <1>1, <1>8, <1>10, <1>12, <1>13, ExecutedStep

LEMMA AllowReward ==
  ASSUME ChainInv, RewardInv, ExecuteIncreaseAllowance
  PROVE  RewardInv'
<1>1. /\ ~ Idle /\ Message.kind = "IncreaseAllowance"
      /\ pairAllowed' = pairAllowed + Message.amount
      /\ Executed /\ UNCHANGED <<held, allowance>>
  BY DEF ExecuteIncreaseAllowance, MessageSent
<1>2. Allowing
  BY <1>1 DEF ChainInv, Underway, NoMessage
<1>3. Noted
  BY <1>2 DEF Allowing, Noted
<1>4. Message.amount \in Nat
  BY <1>1 DEF RewardInv, MessageOK
<1>5. PassedOn = Then.deposit["fury"] /\ Fetched = 0
  BY <1>1, <1>3 DEF PassedOn, Fetched
<1>6. /\ held \in Holdings /\ allowance \in [Parties -> Nat] /\ pairAllowed \in Nat
      /\ AllBonded(bonds) \in Nat /\ held["fury"][ProxyContract] \in Nat
      /\ held["native"][ProxyContract] \in Nat
  BY StoredTypes
<1>7. AllBonded(bonds) + Then.deposit["fury"] <= held["fury"][ProxyContract] + 0
  BY <1>5 DEF RewardInv, BondsAreFunded
<1>8. AllBonded(bonds) + (IF Noted THEN Then.deposit["fury"] ELSE 0)
        <= held'["fury"][ProxyContract]
  BY <1>1, <1>3, <1>6, <1>7
<1>9. /\ held' \in Holdings /\ allowance' \in [Parties -> Nat] /\ pairAllowed' \in Nat
      /\ held'["fury"][ProxyContract] \in Nat /\ held'["native"][ProxyContract] \in Nat
      /\ held'["native"][ProxyContract] >= held["native"][ProxyContract]
  BY <1>1, <1>4, <1>6
<1> QED BY <1>1, <1>8, <1>9, ExecutedStep

LEMMA DepositReward ==
  ASSUME ChainInv, RewardInv, ExecuteProvideLiquidity
  PROVE  RewardInv'
<1> DEFINE deposit == Message.deposit
<1>1. /\ ~ Idle /\ Message.kind = "ProvideLiquidity" /\ CanProvideNow(Message)
      /\ held' = Provided(held, deposit, Message.receiver)
      /\ pairAllowed' = pairAllowed - deposit["fury"]
      /\ Executed /\ UNCHANGED allowance
  BY DEF ExecuteProvideLiquidity, MessageSent
<1>2. Providing
  BY <1>1 DEF ChainInv, Underway, NoMessage
<1>3. ~ Noted /\ pairAllowed' = 0
  BY <1>1, <1>2 DEF Providing, Noted
<1>4. /\ deposit \in Deposit /\ Message.receiver \in Parties /\ deposit["fury"] \in Nat
  BY <1>1, KindsOfAssets DEF RewardInv, MessageOK, Deposit
<1>5. PassedOn = deposit["fury"] /\ Fetched = 0
  BY <1>1, <1>3 DEF PassedOn, Fetched
<1>6. CanProvide(held, pairAllowed, deposit, Message.funds, Message.tolerance)
  BY <1>1 DEF CanProvideNow
<1>7. deposit["fury"] <= held["fury"][ProxyContract]
  BY <1>6 DEF CanProvide
<1> HIDE DEF deposit
<1>8. /\ held \in Holdings /\ allowance \in [Parties -> Nat]
      /\ AllBonded(bonds) \in Nat /\ held["fury"][ProxyContract] \in Nat
      /\ ProxyContract \in Parties
  BY StoredTypes
<1>9. /\ held' \in Holdings
      /\ held'["fury"][ProxyContract] = held["fury"][ProxyContract] - deposit["fury"]
  BY <1>1, <1>4, <1>6, <1>8, ProvidedEffect
<1>10. held'["native"] \in [Parties -> Nat]
  BY <1>9, HeldTypes, KindsOfAssets
<1>11. AllBonded(bonds) + deposit["fury"] <= held["fury"][ProxyContract] + 0
  BY <1>5 DEF RewardInv, BondsAreFunded
<1>12. AllBonded(bonds) + (IF Noted THEN Then.deposit["fury"] ELSE 0)
         <= held'["fury"][ProxyContract]
  BY <1>3, <1>4, <1>8, <1>9, <1>11
<1>13. /\ held'["fury"][ProxyContract] \in Nat /\ held'["native"][ProxyContract] \in Nat
       /\ allowance' \in [Parties -> Nat] /\ pairAllowed' \in Nat
  BY <1>1, <1>3, <1>4, <1>7, <1>8, <1>9, <1>10
<1> QED BY <1>1, <1>3, <1>9, <1>12, <1>13, ExecutedStep

LEMMA SwapReward ==
  ASSUME ChainInv, RewardInv, ExecuteSwap
  PROVE  RewardInv'
<1> DEFINE n == Message.amount
           offered == Offered(Message)
<1>1. /\ ~ Idle /\ Message.kind = "Swap" /\ CanSwapNow(Message)
      /\ held' = Swapped(offered, "native", n, Message.to)
      /\ Executed /\ UNCHANGED <<allowance, pairAllowed>>
  BY DEF ExecuteSwap, MessageSent
<1>2. ~ Noted
  BY <1>1 DEF ChainInv, Underway, NoMessage, Swapping, Noted
<1>3. n \in Nat /\ Message.to \in Parties
  BY <1>1, NamedParties DEF RewardInv, MessageOK
<1>4. PassedOn = 0 /\ Fetched = 0
  BY <1>1, <1>2 DEF PassedOn, Fetched
<1>5. /\ n <= held["native"][ProxyContract]
      /\ CanSwap(offered, "native", n, Message.belief, Message.spread)
      /\ offered = Given(held, "native", ProxyContract, PairContract, n)
  BY <1>1 DEF CanSwapNow, Offered
<1> HIDE DEF n, offered
<1>6. /\ held \in Holdings /\ allowance \in [Parties -> Nat] /\ pairAllowed \in Nat
      /\ AllBonded(bonds) \in Nat /\ held["fury"][ProxyContract] \in Nat
      /\ ProxyContract \in Parties \ {PairContract} /\ PairContract \in Parties
  BY StoredTypes, NamedParties
<1>7. /\ "native" \in Assets /\ "native" \in Kinds /\ "fury" \in Kinds /\ "fury" # "native"
  BY KindsOfAssets
<1>8. offered \in Holdings /\ offered["fury"] = held["fury"]
  BY <1>3, <1>5, <1>6, <1>7, GivenEffect
<1>9. held' \in Holdings /\ held'["fury"][ProxyContract] >= offered["fury"][ProxyContract]
  <2>1. /\ Swapped(offered, "native", n, Message.to) \in Holdings
        /\ \A k \in Kinds, p \in Parties \ {PairContract} :
             Swapped(offered, "native", n, Message.to)[k][p] >= offered[k][p]
    BY <1>3, <1>5, <1>7, <1>8, SwappedEffect
  <2> QED BY <1>1, <1>6, <1>7, <2>1
<1>10. held'["native"] \in [Parties -> Nat] /\ held'["fury"] \in [Parties -> Nat]
  BY <1>7, <1>9, HeldTypes
<1>11. AllBonded(bonds) + 0 <= held["fury"][ProxyContract] + 0
  BY <1>4 DEF RewardInv, BondsAreFunded
<1>12. /\ held'["fury"][ProxyContract] \in Nat /\ held'["native"][ProxyContract] \in Nat
       /\ allowance' \in [Parties -> Nat] /\ pairAllowed' \in Nat
  BY <1>1, <1>6, <1>10
<1>13. AllBonded(bonds) + (IF Noted THEN Then.deposit["fury"] ELSE 0)
         <= held'["fury"][ProxyContract]
  BY <1>2, <1>6, <1>8, <1>9, <1>11, <1>12
<1> QED BY <1>1, <1>2, <1>9, <1>12, <1>13, ExecutedStep

LEMMA RollbackReward ==
  ASSUME ChainInv, RewardInv, ~ Idle, Rollback
  PROVE  RewardInv'
<1>1. BeforeOK /\ BeganClean
  BY DEF RewardInv, ChainInv
<1>2. /\ held' = before.held /\ allowance' = before.allowance
      /\ pairAllowed' = before.pairAllowed /\ bonds' = before.bonds
      /\ requests' = before.requests /\ details' = before.details
      /\ pending' = Outside /\ UNCHANGED <<now, configured, opening>>
  BY DEF Rollback, End, settings
<1>3. held' \in Holdings /\ bonds' \in [Parties -> Seq(Bond)]
  BY <1>1, <1>2 DEF BeforeOK
<1>4. held'["fury"][ProxyContract] \in Nat
  BY <1>3, HeldTypes, KindsOfAssets, NamedParties
<1>5. AllBonded(bonds') \in Nat
  BY <1>3, AllBondedType
<1>6. AllBonded(bonds') <= held'["fury"][ProxyContract]
  BY <1>1, <1>2 DEF BeforeOK
<1>7. /\ allowance' \in [Parties -> Nat] /\ pairAllowed' \in Nat
      /\ requests' \in 0..MaxRequests /\ DOMAIN details' = {}
  BY <1>1, <1>2 DEF BeforeOK, BeganClean
<1>8. now' \in 1..MaxTime /\ configured' \in SUBSET Addresses /\ opening' \in Nat
  BY <1>2, StoredTypes
<1> QED BY <1>2, <1>3, <1>4, <1>5, <1>6, <1>7, <1>8, BetweenTransactions

-----------------------------------------------------------------------------
(* The replies                                                              *)

(* A reply goes on within the transaction.                                  *)
LEMMA ReplyTypes ==
  ASSUME ChainInv, RewardInv, Replied, Noted,
         UNCHANGED <<settings, held, allowance, pairAllowed, before>>
  PROVE  /\ BeforeOK' /\ now' \in 1..MaxTime /\ configured' \in SUBSET Addresses /\ opening' \in Nat
         /\ held' \in Holdings /\ held'["fury"] = held["fury"]
         /\ held'["native"] = held["native"]
         /\ allowance' \in [Parties -> Nat] /\ pairAllowed' \in Nat
         /\ requests \in Nat /\ DOMAIN Remaining = {}
         /\ AllBonded(bonds) \in Nat /\ held["fury"][ProxyContract] \in Nat
         /\ held["native"][ProxyContract] \in Nat
         /\ AllBonded(bonds) + Then.deposit["fury"] <= held["fury"][ProxyContract]
<1>1. ~ Idle /\ Message = NoMessage
  BY DEF Replied
<1>2. BeforeOK' /\ DOMAIN Remaining = {}
  BY <1>1, AtReply DEF RewardInv, BeforeOK
<1>3. /\ held \in Holdings /\ allowance \in [Parties -> Nat] /\ pairAllowed \in Nat
      /\ requests \in 0..MaxRequests /\ now \in 1..MaxTime /\ configured \in SUBSET Addresses
      /\ opening \in Nat
      /\ AllBonded(bonds) \in Nat /\ held["fury"][ProxyContract] \in Nat
      /\ held["native"][ProxyContract] \in Nat
  BY StoredTypes
<1>4. PassedOn = Then.deposit["fury"] /\ Fetched = 0
  BY <1>1 DEF PassedOn, Fetched, NoMessage
<1>5. AllBonded(bonds) + Then.deposit["fury"] <= held["fury"][ProxyContract] + 0
  BY <1>4 DEF RewardInv, BondsAreFunded
<1>6. AllBonded(bonds) + Then.deposit["fury"] <= held["fury"][ProxyContract]
  BY <1>3, <1>5
<1> QED BY <1>2, <1>3, <1>6 DEF settings

LEMMA FetchReward ==
  ASSUME ChainInv, RewardInv, ReplyFetchReward
  PROVE  RewardInv'
<1> DEFINE reward == PairReward(Then.deposit)
<1>1. PICK then : then = [Then EXCEPT !.next = "IncreaseAllowance"]
  OBVIOUS
<1>2. PICK message : message = TransferFrom(PairRewardWallet, reward)
  OBVIOUS
<1>3. /\ Replied /\ Noted /\ Quotable(Then.deposit)
      /\ BondReward(Then.user, reward, PairPeriod)
      /\ SendSub(message, then, Remaining)
      /\ UNCHANGED <<settings, held, allowance, pairAllowed, before>>
  BY <1>1, <1>2 DEF ReplyFetchReward, RepliedFor
<1>4. /\ Then \in Details /\ Then.deposit \in Deposit /\ Then.deposit["fury"] \in Nat
      /\ Then.user \in Callers
  BY <1>3, NotedTypes
<1>5. reward \in Nat
  BY <1>3, <1>4, PairRewardType, StoredTypes
<1> HIDE DEF reward
<1>6. /\ BeforeOK' /\ now' \in 1..MaxTime /\ configured' \in SUBSET Addresses /\ opening' \in Nat
      /\ held' \in Holdings /\ held'["fury"] = held["fury"]
      /\ allowance' \in [Parties -> Nat] /\ pairAllowed' \in Nat
      /\ requests \in Nat /\ DOMAIN Remaining = {}
      /\ AllBonded(bonds) \in Nat /\ held["fury"][ProxyContract] \in Nat
      /\ AllBonded(bonds) + Then.deposit["fury"] <= held["fury"][ProxyContract]
  BY <1>3, ReplyTypes
<1>7. bonds' \in [Parties -> Seq(Bond)] /\ AllBonded(bonds') = AllBonded(bonds) + reward
  BY <1>3, <1>4, <1>5, BondStep, InputTypes
<1>8. /\ then \in Details /\ then.user \in Callers /\ then.next = "IncreaseAllowance"
      /\ then.deposit = Then.deposit
  BY <1>1, <1>4 DEF Details, Actions
<1>9. /\ message.kind = "TransferFrom" /\ message.amount = reward /\ MessageOK(message)
  BY <1>2, <1>5, NamedParties DEF TransferFrom, MessageOK
<1>10. AllBonded(bonds') + then.deposit["fury"]
         <= held'["fury"][ProxyContract]
              + IF message.kind = "TransferFrom" THEN message.amount ELSE 0
  <2>1. (AllBonded(bonds) + reward) + Then.deposit["fury"] <= held["fury"][ProxyContract] + reward
    BY <1>4, <1>5, <1>6
  <2> QED BY <1>6, <1>7, <1>8, <1>9, <2>1
<1>11. then.next # "TransferToNativeInvestmentReceiveWallet"
  BY <1>8
<1> QED BY <1>3, <1>6, <1>7, <1>8, <1>9, <1>10, <1>11, SubMessageStep

LEMMA AllowanceReward ==
  ASSUME ChainInv, RewardInv, ReplyIncreaseAllowance
  PROVE  RewardInv'
<1>1. PICK then : then = [Then EXCEPT !.next = "ProvideLiquidity"]
  OBVIOUS
<1>2. PICK message : message = IncreaseAllowance(Then.deposit["fury"])
  OBVIOUS
<1>3. /\ Replied /\ Noted /\ SendSub(message, then, Remaining)
      /\ UNCHANGED <<settings, held, allowance, pairAllowed, before>> /\ bonds' = bonds
  BY <1>1, <1>2 DEF ReplyIncreaseAllowance, RepliedFor
<1>4. /\ Then \in Details /\ Then.deposit["fury"] \in Nat /\ Then.user \in Callers
  BY <1>3, NotedTypes
<1>5. /\ BeforeOK' /\ now' \in 1..MaxTime /\ configured' \in SUBSET Addresses /\ opening' \in Nat
      /\ held' \in Holdings /\ held'["fury"] = held["fury"]
      /\ allowance' \in [Parties -> Nat] /\ pairAllowed' \in Nat
      /\ requests \in Nat /\ DOMAIN Remaining = {}
      /\ AllBonded(bonds) \in Nat /\ held["fury"][ProxyContract] \in Nat
      /\ AllBonded(bonds) + Then.deposit["fury"] <= held["fury"][ProxyContract]
  BY <1>3, ReplyTypes
<1>6. bonds' \in [Parties -> Seq(Bond)]
  BY <1>3, StoredTypes
<1>7. /\ then \in Details /\ then.user \in Callers /\ then.next = "ProvideLiquidity"
      /\ then.deposit = Then.deposit
  BY <1>1, <1>4 DEF Details, Actions
<1>8. message.kind = "IncreaseAllowance" /\ MessageOK(message)
  BY <1>2, <1>4 DEF IncreaseAllowance, MessageOK
<1>9. AllBonded(bonds') + then.deposit["fury"]
        <= held'["fury"][ProxyContract]
             + IF message.kind = "TransferFrom" THEN message.amount ELSE 0
  <2>1. AllBonded(bonds) + Then.deposit["fury"] <= held["fury"][ProxyContract] + 0
    BY <1>4, <1>5
  <2>2. AllBonded(bonds') = AllBonded(bonds)
    BY <1>3
  <2> QED BY <1>5, <1>7, <1>8, <2>1, <2>2
<1>10. then.next # "TransferToNativeInvestmentReceiveWallet"
  BY <1>7
<1> QED BY <1>3, <1>5, <1>6, <1>7, <1>8, <1>9, <1>10, SubMessageStep

LEMMA PairMessageReward ==
  ASSUME ChainInv, RewardInv, ReplyProvideLiquidity
  PROVE  RewardInv'
<1>1. PICK message : message = ToPair(Then)
  OBVIOUS
<1>2. /\ Replied /\ Noted /\ SendLast(message, Remaining)
      /\ UNCHANGED <<settings, held, allowance, pairAllowed, before>> /\ bonds' = bonds
  BY <1>1 DEF ReplyProvideLiquidity, RepliedFor
<1>3. /\ Then.deposit \in Deposit /\ Then.deposit["fury"] \in Nat /\ Then.receiver \in Parties
  BY <1>2, NotedTypes
<1>4. /\ BeforeOK' /\ now' \in 1..MaxTime /\ configured' \in SUBSET Addresses /\ opening' \in Nat
      /\ held' \in Holdings /\ held'["fury"] = held["fury"]
      /\ allowance' \in [Parties -> Nat] /\ pairAllowed' \in Nat
      /\ requests \in Nat /\ DOMAIN Remaining = {}
      /\ AllBonded(bonds) \in Nat /\ held["fury"][ProxyContract] \in Nat
      /\ AllBonded(bonds) + Then.deposit["fury"] <= held["fury"][ProxyContract]
  BY <1>2, ReplyTypes
<1>5. bonds' \in [Parties -> Seq(Bond)]
  BY <1>2, StoredTypes
<1>6. /\ message.kind = "ProvideLiquidity" /\ message.deposit = Then.deposit
      /\ MessageOK(message)
  BY <1>1, <1>3 DEF ToPair, MessageOK
<1>7. AllBonded(bonds') + (IF message.kind = "ProvideLiquidity" THEN message.deposit["fury"] ELSE 0)
        <= held'["fury"][ProxyContract]
  <2>1. AllBonded(bonds') = AllBonded(bonds)
    BY <1>2
  <2> QED BY <1>4, <1>6, <2>1
<1>8. held'["fury"][ProxyContract] \in Nat
  BY <1>4
<1> QED BY <1>2, <1>4, <1>5, <1>6, <1>7, <1>8, LastMessageStep

LEMMA ReceiverReward ==
  ASSUME ChainInv, RewardInv, ReplyTransferToReceiver
  PROVE  RewardInv'
<1>1. /\ Replied /\ Noted /\ Then.next = "TransferToNativeInvestmentReceiveWallet"
      /\ held' = Given(held, "native", ProxyContract, Then.receiver, Then.funds)
      /\ details' = Remaining /\ pending' = Outside
      /\ UNCHANGED <<now, configured, opening, allowance, pairAllowed, bonds, requests>>
  BY DEF ReplyTransferToReceiver, RepliedFor, End, settings
<1>2. Then.receiver \in Parties /\ Then.funds \in Nat /\ Then.deposit["fury"] \in Nat
  BY <1>1, NotedTypes
<1>3. Then.funds <= held["native"][ProxyContract]
  BY <1>1 DEF RewardInv, ReceiverIsFunded
<1>4. /\ held \in Holdings /\ allowance \in [Parties -> Nat] /\ pairAllowed \in Nat
      /\ bonds \in [Parties -> Seq(Bond)] /\ requests \in 0..MaxRequests
      /\ now \in 1..MaxTime /\ configured \in SUBSET Addresses /\ opening \in Nat
      /\ AllBonded(bonds) \in Nat /\ held["fury"][ProxyContract] \in Nat
      /\ ProxyContract \in Parties
  BY StoredTypes
<1>5. held' \in Holdings /\ held'["fury"] = held["fury"]
  <2>1. "native" \in Kinds /\ "fury" \in Kinds \ {"native"}
    BY KindsOfAssets
  <2>2. PICK n \in Nat, to \in Parties : n = Then.funds /\ to = Then.receiver
    BY <1>2
  <2>3. held' = Given(held, "native", ProxyContract, to, n) /\ n <= held["native"][ProxyContract]
    BY <1>1, <1>3, <2>2
  <2>4. Given(held, "native", ProxyContract, to, n) \in Holdings
    BY <1>4, <2>1, <2>3, GivenEffect
  <2>5. \A j \in Kinds \ {"native"} : Given(held, "native", ProxyContract, to, n)[j] = held[j]
    BY <1>4, <2>1, <2>3, GivenEffect
  <2> QED BY <2>1, <2>3, <2>4, <2>5
<1>6. DOMAIN details' = {}
  BY <1>1, AtReply
<1>7. AllBonded(bonds) + Then.deposit["fury"] <= held["fury"][ProxyContract] + 0
  <2>1. PassedOn = Then.deposit["fury"] /\ Fetched = 0
    BY <1>1 DEF PassedOn, Fetched, Replied, NoMessage
  <2> QED BY <2>1 DEF RewardInv, BondsAreFunded
<1>8. AllBonded(bonds) <= held["fury"][ProxyContract]
  BY <1>2, <1>4, <1>7
<1>9. AllBonded(bonds') = AllBonded(bonds)
  BY <1>1
<1>10. AllBonded(bonds') \in Nat /\ AllBonded(bonds') <= held'["fury"][ProxyContract]
  BY <1>4, <1>5, <1>8, <1>9
<1> QED BY <1>1, <1>4, <1>5, <1>6, <1>10, BetweenTransactions

LEMMA NothingLeftReward ==
  ASSUME ChainInv, RewardInv, ReplyNothingLeft
  PROVE  RewardInv'
<1>1. /\ Replied /\ ~ Noted /\ pending' = Outside
      /\ UNCHANGED <<now, configured, opening, held, allowance, pairAllowed, bonds, requests,
                     details>>
  BY DEF ReplyNothingLeft, End, settings, stored
<1>2. /\ held \in Holdings /\ allowance \in [Parties -> Nat] /\ pairAllowed \in Nat
      /\ bonds \in [Parties -> Seq(Bond)] /\ requests \in 0..MaxRequests
      /\ now \in 1..MaxTime /\ configured \in SUBSET Addresses /\ opening \in Nat
      /\ AllBonded(bonds) \in Nat /\ held["fury"][ProxyContract] \in Nat
  BY StoredTypes
<1>3. DOMAIN details' = {}
  BY <1>1, AtReply DEF Answered, Noted
<1>4. PassedOn = 0 /\ Fetched = 0
  BY <1>1 DEF PassedOn, Fetched, Replied, NoMessage
<1>5. AllBonded(bonds) + 0 <= held["fury"][ProxyContract] + 0
  BY <1>4 DEF RewardInv, BondsAreFunded
<1>6. AllBonded(bonds') = AllBonded(bonds)
  BY <1>1
<1>7. AllBonded(bonds') \in Nat /\ AllBonded(bonds') <= held'["fury"][ProxyContract]
  BY <1>1, <1>2, <1>5, <1>6
<1> QED BY <1>1, <1>2, <1>3, <1>7, BetweenTransactions

-----------------------------------------------------------------------------
(* The calls that are answered at once                                      *)

LEMMA WholeStep ==
  ASSUME ChainInv, RewardInv, Idle,
         UNCHANGED <<pairAllowed, requests, details, pending, before>>,
         held' \in Holdings, allowance' \in [Parties -> Nat],
         bonds' \in [Parties -> Seq(Bond)],
         now' \in 1..MaxTime, configured' \in SUBSET Addresses, opening' \in Nat,
         AllBonded(bonds') <= held'["fury"][ProxyContract]
  PROVE  RewardInv'
<1>1. pairAllowed \in Nat /\ requests \in 0..MaxRequests
  BY StoredTypes
<1>2. DOMAIN details = {} /\ pending = Outside
  BY AtStart
<1>3. AllBonded(bonds') \in Nat /\ held'["fury"][ProxyContract] \in Nat
  BY AllBondedType, HeldTypes, KindsOfAssets, NamedParties
<1> QED BY <1>1, <1>2, <1>3, BetweenTransactions

(* One that leaves the bonds alone and takes no fury from the proxy.        *)
LEMMA BondsUntouched ==
  ASSUME ChainInv, RewardInv, Whole, held' \in Holdings, allowance' \in [Parties -> Nat],
         bonds' = bonds, held'["fury"][ProxyContract] >= held["fury"][ProxyContract]
  PROVE  RewardInv'
<1>1. /\ Idle /\ UNCHANGED <<now, configured, opening>>
      /\ UNCHANGED <<pairAllowed, requests, details, pending, before>>
  BY DEF Whole, settings
<1>2. /\ bonds \in [Parties -> Seq(Bond)] /\ AllBonded(bonds) \in Nat
      /\ held["fury"][ProxyContract] \in Nat
      /\ now \in 1..MaxTime /\ configured \in SUBSET Addresses /\ opening \in Nat
  BY StoredTypes
<1>3. AllBonded(bonds) <= held["fury"][ProxyContract]
  BY <1>1, AtStart
<1>4. held'["fury"][ProxyContract] \in Nat
  BY HeldTypes, KindsOfAssets, NamedParties
<1>5. AllBonded(bonds) <= held'["fury"][ProxyContract]
  BY <1>2, <1>3, <1>4
<1>6. AllBonded(bonds') = AllBonded(bonds)
  OBVIOUS
<1> QED BY <1>1, <1>2, <1>5, <1>6, WholeStep

(* Tokens on their way to the pair.                                         *)
LEMMA ToPairEffect ==
  ASSUME NEW h \in Holdings, NEW k \in Kinds, NEW sender \in Callers, NEW n \in Nat,
         n <= h[k][sender]
  PROVE  /\ Given(h, k, sender, PairContract, n) \in Holdings
         /\ Given(h, k, sender, PairContract, n)["fury"][ProxyContract]
              = h["fury"][ProxyContract]
         /\ n <= Given(h, k, sender, PairContract, n)[k][PairContract]
<1> DEFINE g == Given(h, k, sender, PairContract, n)
<1>1. /\ sender \in Parties /\ sender # ProxyContract /\ sender # PairContract
      /\ PairContract \in Parties /\ ProxyContract \in Parties /\ PairContract # ProxyContract
      /\ "fury" \in Kinds
  BY NamedParties, KindsOfAssets
<1>2. /\ g \in Holdings /\ \A j \in Kinds \ {k} : g[j] = h[j]
      /\ \A p \in Parties : g[k][p]
           = h[k][p] - (IF p = sender THEN n ELSE 0) + (IF p = PairContract THEN n ELSE 0)
  BY <1>1, GivenEffect
<1> HIDE DEF g
<1>3. /\ h[k][PairContract] \in Nat /\ h[k][ProxyContract] \in Nat
  BY <1>1, HeldTypes
<1>4. g["fury"][ProxyContract] = h["fury"][ProxyContract]
  <2>1. CASE k = "fury"
    BY <1>1, <1>2, <1>3, <2>1
  <2>2. CASE k # "fury"
    BY <1>1, <1>2, <2>2
  <2> QED BY <2>1, <2>2
<1>5. n <= g[k][PairContract]
  BY <1>1, <1>2, <1>3
<1> QED BY <1>2, <1>4, <1>5 DEF g

LEMMA SwapFuryReward ==
  ASSUME ChainInv, RewardInv, NEW sender \in Callers, NEW n \in Nat, NEW sent \in Nat,
         NEW belief, NEW spread, SwapFuryForNative(sender, n, belief, spread, sent)
  PROVE  RewardInv'
<1> DEFINE funded == WithFunds(sender, sent)
           offered == Given(funded, "fury", sender, PairContract, n)
<1>1. /\ Whole /\ sent <= held["native"][sender] /\ n <= allowance[sender]
      /\ n <= held["fury"][sender]
      /\ allowance' = [allowance EXCEPT ![sender] = @ - n]
      /\ CanSwap(offered, "fury", n, belief, spread)
      /\ held' = Swapped(offered, "fury", n, sender) /\ bonds' = bonds
  BY DEF SwapFuryForNative
<1>2. funded \in Holdings /\ funded["fury"] = held["fury"]
  BY <1>1, FundsEffect
<1>3. /\ sender \in Parties /\ ProxyContract \in Parties \ {PairContract}
      /\ "fury" \in Kinds /\ "fury" \in Assets
  BY NamedParties, KindsOfAssets
<1>4. n <= funded["fury"][sender]
  BY <1>1, <1>2
<1> HIDE DEF funded
<1>5. offered \in Holdings /\ offered["fury"][ProxyContract] = funded["fury"][ProxyContract]
  BY <1>2, <1>3, <1>4, ToPairEffect
<1> HIDE DEF offered
<1>6. /\ Swapped(offered, "fury", n, sender) \in Holdings
      /\ \A k \in Kinds, p \in Parties \ {PairContract} :
           Swapped(offered, "fury", n, sender)[k][p] >= offered[k][p]
  BY <1>1, <1>3, <1>5, SwappedEffect
<1>7. held' \in Holdings /\ held'["fury"][ProxyContract] >= held["fury"][ProxyContract]
  BY <1>1, <1>2, <1>3, <1>5, <1>6
<1>8. allowance' \in [Parties -> Nat]
  <2>1. allowance \in [Parties -> Nat]
    BY StoredTypes
  <2>2. allowance[sender] - n \in Nat
    BY <1>1, <1>3, <2>1
  <2> QED BY <1>1, <1>3, <2>1, <2>2
<1> QED BY <1>1, <1>7, <1>8, BondsUntouched

LEMMA SendFuryReward ==
  ASSUME ChainInv, RewardInv, NEW sender \in Callers, NEW n \in Nat,
         NEW belief, NEW spread, SendFuryToPair(sender, n, belief, spread)
  PROVE  RewardInv'
<1> DEFINE offered == Given(held, "fury", sender, PairContract, n)
<1>1. /\ Whole /\ n <= held["fury"][sender]
      /\ CanSwap(offered, "fury", n, belief, spread)
      /\ held' = Swapped(offered, "fury", n, sender)
      /\ UNCHANGED <<allowance, bonds>>
  BY DEF SendFuryToPair
<1>2. held \in Holdings /\ allowance \in [Parties -> Nat]
  BY StoredTypes
<1>3. /\ sender \in Parties /\ ProxyContract \in Parties \ {PairContract}
      /\ "fury" \in Kinds /\ "fury" \in Assets
  BY NamedParties, KindsOfAssets
<1>4. offered \in Holdings /\ offered["fury"][ProxyContract] = held["fury"][ProxyContract]
  BY <1>1, <1>2, <1>3, ToPairEffect
<1> HIDE DEF offered
<1>5. /\ Swapped(offered, "fury", n, sender) \in Holdings
      /\ \A k \in Kinds, p \in Parties \ {PairContract} :
           Swapped(offered, "fury", n, sender)[k][p] >= offered[k][p]
  BY <1>1, <1>3, <1>4, SwappedEffect
<1>6. held' \in Holdings /\ held'["fury"][ProxyContract] >= held["fury"][ProxyContract]
  BY <1>1, <1>3, <1>4, <1>5
<1> QED BY <1>1, <1>2, <1>6, BondsUntouched

LEMMA WithdrawReward ==
  ASSUME ChainInv, RewardInv, NEW sender \in Callers, NEW n \in Nat,
         WithdrawThroughProxy(sender, n) \/ SendSharesToPair(sender, n)
  PROVE  RewardInv'
<1> DEFINE shares == Given(held, "lp", sender, PairContract, n)
<1>1. PICK to \in {ProxyContract, sender} :
        /\ Whole /\ n <= held["lp"][sender] /\ CanWithdraw(shares, n)
        /\ held' = Withdrawn(shares, to, n)
        /\ UNCHANGED <<allowance, bonds>>
  BY DEF WithdrawThroughProxy, SendSharesToPair
<1>2. held \in Holdings /\ allowance \in [Parties -> Nat]
  BY StoredTypes
<1>3. /\ to \in Parties /\ ProxyContract \in Parties \ {PairContract} /\ "lp" \in Kinds
  BY NamedParties, KindsOfAssets
<1>4. /\ shares \in Holdings /\ shares["fury"][ProxyContract] = held["fury"][ProxyContract]
      /\ n <= shares["lp"][PairContract]
  BY <1>1, <1>2, <1>3, ToPairEffect
<1> HIDE DEF shares
<1>5. /\ Withdrawn(shares, to, n) \in Holdings
      /\ \A p \in Parties \ {PairContract} :
           Withdrawn(shares, to, n)["fury"][p] >= shares["fury"][p]
  BY <1>1, <1>3, <1>4, WithdrawnEffect
<1>6. held' \in Holdings /\ held'["fury"][ProxyContract] >= held["fury"][ProxyContract]
  BY <1>1, <1>3, <1>4, <1>5
<1> QED BY <1>1, <1>2, <1>6, BondsUntouched

LEMMA GiveReward ==
  ASSUME ChainInv, RewardInv, NEW sender \in Callers, NEW n \in Nat, NEW asset \in Assets,
         GiveToPair(sender, asset, n)
  PROVE  RewardInv'
<1>1. /\ Whole /\ n <= held[asset][sender]
      /\ held' = Given(held, asset, sender, PairContract, n)
      /\ UNCHANGED <<allowance, bonds>>
  BY DEF GiveToPair
<1>2. /\ held \in Holdings /\ allowance \in [Parties -> Nat]
      /\ held["fury"][ProxyContract] \in Nat /\ asset \in Kinds
  BY StoredTypes, KindsOfAssets
<1>3. held' \in Holdings /\ held'["fury"][ProxyContract] = held["fury"][ProxyContract]
  BY <1>1, <1>2, ToPairEffect
<1> QED BY <1>1, <1>2, <1>3, BondsUntouched

(* A claim: the bonds of the claimant lose what it is paid.                 *)
LEMMA ClaimStep ==
  ASSUME RewardInv, NEW sender \in Callers, NEW n \in Nat, NEW sent \in Nat,
         RewardClaim(sender, n, sent)
  PROVE  /\ held' \in Holdings
         /\ held'["fury"][ProxyContract] = held["fury"][ProxyContract] - n
         /\ held'["fury"][sender] = held["fury"][sender] + n
         /\ n <= held["fury"][ProxyContract]
         /\ bonds' \in [Parties -> Seq(Bond)]
         /\ bonds' = [bonds EXCEPT ![sender] = Claimed(bonds[sender], n).kept]
         /\ AmountOf(bonds'[sender]) + n = AmountOf(bonds[sender])
         /\ WaitingOf(Claimed(bonds[sender], n).kept) = WaitingOf(bonds[sender])
         /\ AllBonded(bonds') + n = AllBonded(bonds)
<1> DEFINE claim == Claimed(bonds[sender], n)
           funded == WithFunds(sender, sent)
<1>1. /\ sent <= held["native"][sender] /\ n > 0 /\ claim.left = 0
      /\ n <= held["fury"][ProxyContract]
      /\ bonds' = [bonds EXCEPT ![sender] = claim.kept]
      /\ held' = Given(funded, "fury", ProxyContract, sender, n)
  BY DEF RewardClaim
<1>2. /\ held \in Holdings /\ held["fury"] \in [Parties -> Nat]
      /\ bonds \in [Parties -> Seq(Bond)]
      /\ AllBonded(bonds) \in Nat
  BY StoredTypes
<1>3. /\ sender \in Parties /\ sender # ProxyContract /\ ProxyContract \in Parties
      /\ "fury" \in Kinds
  BY NamedParties, KindsOfAssets
<1>4. bonds[sender] \in Seq(Bond)
  BY <1>2, <1>3
<1>5. /\ claim \in ClaimState
      /\ AmountOf(claim.kept) + n = AmountOf(bonds[sender]) + claim.left
      /\ WaitingOf(claim.kept) = WaitingOf(bonds[sender])
  BY <1>4, ClaimedEffect
<1>6. funded \in Holdings /\ funded["fury"] = held["fury"]
  BY <1>1, FundsEffect
<1> HIDE DEF claim, funded
<1>7. /\ held' \in Holdings
      /\ \A p \in Parties : held'["fury"][p]
           = held["fury"][p] - (IF p = ProxyContract THEN n ELSE 0)
               + (IF p = sender THEN n ELSE 0)
  BY <1>1, <1>3, <1>6, GivenEffect
<1>8. /\ held'["fury"][ProxyContract] = held["fury"][ProxyContract] - n
      /\ held'["fury"][sender] = held["fury"][sender] + n
  BY <1>2, <1>3, <1>7
<1>9. claim.kept \in Seq(Bond)
  BY <1>5 DEF ClaimState
<1>10. AmountOf(claim.kept) \in Nat /\ AmountOf(bonds[sender]) \in Nat
  BY <1>4, <1>9, AmountTypes
<1>11. AmountOf(claim.kept) + n = AmountOf(bonds[sender])
  <2>1. AmountOf(bonds[sender]) + 0 = AmountOf(bonds[sender])
    BY <1>10
  <2> QED BY <1>1, <1>5, <2>1
<1>12. /\ bonds' \in [Parties -> Seq(Bond)]
       /\ AllBonded(bonds') = AllBonded(bonds) + (AmountOf(claim.kept) - AmountOf(bonds[sender]))
  BY <1>1, <1>2, <1>9, BondsReplaced
<1>13. AllBonded(bonds') + n = AllBonded(bonds)
  <2> DEFINE x == AmountOf(claim.kept)
             y == AmountOf(bonds[sender])
             t == AllBonded(bonds)
             r == AllBonded(bonds')
  <2>1. x \in Nat /\ y \in Nat /\ t \in Nat /\ x + n = y /\ r = t + (x - y)
    BY <1>2, <1>10, <1>11, <1>12
  <2> HIDE DEF x, y, t, r
  <2>2. r + n = t
    BY <2>1
  <2> QED BY <2>2 DEF r, t
<1>14. bonds'[sender] = claim.kept
  BY <1>1, <1>2, <1>3
<1>15. AmountOf(bonds'[sender]) + n = AmountOf(bonds[sender])
  BY <1>11, <1>14
<1> QED BY <1>1, <1>5, <1>7, <1>8, <1>12, <1>13, <1>15 DEF claim

LEMMA ClaimReward ==
  ASSUME ChainInv, RewardInv, NEW sender \in Callers, NEW n \in Nat, NEW sent \in Nat,
         RewardClaim(sender, n, sent)
  PROVE  RewardInv'
<1>1. Whole /\ UNCHANGED allowance
  BY DEF RewardClaim
<1>2. /\ Idle /\ UNCHANGED <<now, configured, opening>>
      /\ UNCHANGED <<pairAllowed, requests, details, pending, before>>
  BY <1>1 DEF Whole, settings
<1>3. /\ held' \in Holdings
      /\ held'["fury"][ProxyContract] = held["fury"][ProxyContract] - n
      /\ bonds' \in [Parties -> Seq(Bond)]
      /\ AllBonded(bonds') + n = AllBonded(bonds)
  BY ClaimStep
<1>4. /\ allowance \in [Parties -> Nat] /\ AllBonded(bonds) \in Nat
      /\ held["fury"][ProxyContract] \in Nat
      /\ now \in 1..MaxTime /\ configured \in SUBSET Addresses /\ opening \in Nat
  BY StoredTypes
<1>5. AllBonded(bonds) <= held["fury"][ProxyContract]
  BY <1>2, AtStart
<1>6. AllBonded(bonds') \in Nat
  BY <1>3, AllBondedType
<1>7. AllBonded(bonds') <= held'["fury"][ProxyContract]
  BY <1>3, <1>4, <1>5, <1>6
<1> QED BY <1>1, <1>2, <1>3, <1>4, <1>7, WholeStep

-----------------------------------------------------------------------------
LEMMA RewardInit ==
  ASSUME ProxyInit
  PROVE  RewardInv
<1>1. /\ now = 1 /\ configured \in SUBSET Addresses /\ opening \in OpeningDates
      /\ held \in InitialHoldings /\ allowance \in InitialAllowances /\ pairAllowed = 0
      /\ bonds = [p \in Parties |-> <<>>] /\ requests = 0
      /\ DOMAIN details = {} /\ pending = Outside
  <2>1. configured \in SUBSET Addresses
    BY DEF ProxyInit, Addresses
  <2>2. DOMAIN details = {}
    BY DEF ProxyInit
  <2> QED BY <2>1, <2>2 DEF ProxyInit
<1>2. /\ OpeningDates \subseteq Nat /\ InitialHoldings \subseteq Holdings
      /\ InitialAllowances \subseteq [Parties -> Nat]
      /\ MaxTime \in Nat \ {0} /\ MaxRequests \in Nat
  BY ProxyAssumption DEF ProxyAssumption
<1>3. /\ pending = [id |-> pending.id, message |-> pending.message]
      /\ pending.id = 0 /\ pending.message = NoMessage
  BY <1>1 DEF Outside
<1>4. Idle /\ Message = NoMessage /\ ~ Noted
  BY <1>1, <1>3 DEF Idle, Message, Noted
<1>5. bonds \in [Parties -> Seq(Bond)]
  BY <1>1
<1>6. ProxyTypeOK
  <2>1. now \in 1..MaxTime /\ requests \in 0..MaxRequests /\ pending.id \in 0..MaxRequests
    BY <1>1, <1>2, <1>3
  <2>2. held \in Holdings /\ allowance \in [Parties -> Nat] /\ opening \in Nat
    BY <1>1, <1>2
  <2>3. \A id \in DOMAIN details : details[id] \in Details
    BY <1>1
  <2> QED BY <1>1, <1>5, <2>1, <2>2, <2>3 DEF ProxyTypeOK
<1>7. AllBonded(bonds) = 0
  <2>1. IsFiniteSet(Callers) /\ Callers \subseteq Parties
    BY CallersAreFinite
  <2>2. \A u \in Callers : BondedTo(bonds)[u] = 0
    <3> TAKE u \in Callers
    <3>1. bonds[u] = <<>> /\ DOMAIN <<>> = {}
      BY <1>1, <2>1
    <3>2. AmountOf(<<>>) = 0
      BY <3>1, SumEmpty DEF AmountOf
    <3> QED BY <3>1, <3>2 DEF BondedTo
  <2> QED BY <2>1, <2>2, SumZero DEF AllBonded
<1>8. held["fury"][ProxyContract] \in Nat
  BY <1>1, <1>2, HeldTypes, KindsOfAssets, NamedParties
<1>9. PassedOn = 0 /\ Fetched = 0
  BY <1>4 DEF PassedOn, Fetched, NoMessage
<1>10. BondsAreFunded
  BY <1>7, <1>8, <1>9 DEF BondsAreFunded
<1> QED BY <1>3, <1>4, <1>6, <1>10
        DEF RewardInv, MessageOK, NoMessage, ReceiverIsFunded, UserCalled

LEMMA SettingsReward ==
  ASSUME ChainInv, RewardInv, SomeConfiguration \/ Tick
  PROVE  RewardInv'
<1>1. /\ Idle /\ UNCHANGED <<held, allowance, bonds>>
      /\ UNCHANGED <<pairAllowed, requests, details, pending, before>>
  BY DEF SomeConfiguration, Configure, Tick, stored
<1>2. /\ held \in Holdings /\ allowance \in [Parties -> Nat]
      /\ bonds \in [Parties -> Seq(Bond)]
      /\ now \in 1..MaxTime /\ configured \in SUBSET Addresses /\ opening \in Nat
  BY StoredTypes
<1>3. now' \in 1..MaxTime /\ configured' \in SUBSET Addresses /\ opening' \in Nat
  <2>1. OpeningDates \subseteq Nat /\ MaxTime \in Nat
    BY ProxyAssumption DEF ProxyAssumption
  <2>2. CASE Tick
    <3>1. now < MaxTime /\ now' = now + 1 /\ UNCHANGED <<configured, opening>>
      BY <2>2 DEF Tick
    <3> QED BY <1>2, <2>1, <3>1
  <2>3. CASE SomeConfiguration
    BY <1>2, <2>1, <2>3 DEF SomeConfiguration, Configure
  <2> QED BY <2>2, <2>3
<1>4. AllBonded(bonds) <= held["fury"][ProxyContract]
  BY <1>1, AtStart
<1>5. AllBonded(bonds') = AllBonded(bonds) /\ held' = held
  BY <1>1
<1> QED BY <1>1, <1>2, <1>3, <1>4, <1>5, WholeStep

LEMMA CallReward ==
  ASSUME ChainInv, RewardInv, NEW sender \in Callers, Call(sender)
  PROVE  RewardInv'
<1>1. Amounts \subseteq Nat /\ Sent \subseteq Nat
  BY InputTypes
<1>2. CASE \E deposit \in Deposits, tolerance \in Tolerances, sent \in Sent :
             \/ ProvideLiquidity(sender, deposit, tolerance, sent)
             \/ ProvidePairForReward(sender, deposit, tolerance, sent)
  BY <1>2, ProvideLiquidityReward
<1>3. CASE \E n \in Amounts, sent \in Sent : ProvideNativeForReward(sender, n, None, sent)
  BY <1>1, <1>3, ProvideNativeReward
<1>4. CASE \E n \in Amounts, sent \in Sent : RewardClaim(sender, n, sent)
  BY <1>1, <1>4, ClaimReward
<1>5. CASE \E n \in Amounts, sent \in Sent, belief \in Beliefs, spread \in Spreads :
             SwapNativeForFury(sender, n, belief, spread, sent)
  BY <1>1, <1>5, SwapNativeReward
<1>6. CASE \E n \in Amounts, sent \in Sent, belief \in Beliefs, spread \in Spreads :
             SwapFuryForNative(sender, n, belief, spread, sent)
  BY <1>1, <1>6, SwapFuryReward
<1>7. CASE \E n \in Amounts : WithdrawThroughProxy(sender, n)
  BY <1>1, <1>7, WithdrawReward
<1> QED BY <1>2, <1>3, <1>4, <1>5, <1>6, <1>7 DEF Call

LEMMA PairCallReward ==
  ASSUME ChainInv, RewardInv, NEW sender \in Callers, PairCall(sender)
  PROVE  RewardInv'
<1>1. Amounts \subseteq Nat
  BY InputTypes
<1> QED BY <1>1, SendFuryReward, WithdrawReward, GiveReward DEF PairCall

LEMMA StutterReward ==
  ASSUME RewardInv, UNCHANGED proxyVars
  PROVE  RewardInv'
<1>1. UNCHANGED <<now, configured, opening, held, allowance, pairAllowed, bonds, requests,
                  details, pending, before>>
  BY DEF proxyVars, settings, stored
<1>2. ProxyTypeOK'
  BY <1>1 DEF RewardInv, ProxyTypeOK
<1>3. Message' = Message /\ Noted' = Noted /\ Then' = Then /\ Idle' = Idle
  BY <1>1 DEF Message, Noted, Then, Idle
<1>4. MessageOK(Message)' /\ BeforeOK' = BeforeOK
  BY <1>1, <1>3 DEF RewardInv, MessageOK, BeforeOK, AllBonded, BondedTo, AmountOf
<1>5. PassedOn' = PassedOn /\ Fetched' = Fetched
  BY <1>3 DEF PassedOn, Fetched
<1>6. ReceiverIsFunded' /\ UserCalled'
  BY <1>1, <1>3 DEF RewardInv, ReceiverIsFunded, UserCalled
<1>7. BondsAreFunded'
  BY <1>1, <1>5 DEF RewardInv, BondsAreFunded, AllBonded, BondedTo, AmountOf
<1> QED BY <1>1, <1>2, <1>3, <1>4, <1>6, <1>7 DEF RewardInv

LEMMA NextReward ==
  ASSUME ChainInv, RewardInv, [ProxyNext]_proxyVars
  PROVE  RewardInv'
<1>1. CASE \E sender \in Callers : Call(sender) \/ PairCall(sender)
  BY <1>1, CallReward, PairCallReward
<1>2. CASE SomeConfiguration \/ Tick
  BY <1>2, SettingsReward
<1>3. CASE ExecuteMessage
  <2>1. CASE MessageRefused
    <3>1. ~ Idle /\ Rollback
      BY <2>1 DEF MessageRefused, MessageSent
    <3> QED BY <3>1, RollbackReward
  <2> QED BY <1>3, <2>1, TransferReward, AllowReward, DepositReward, SwapReward
          DEF ExecuteMessage
<1>4. CASE Reply
  <2>1. CASE ReplyTooManyBonds
    <3>1. ~ Idle /\ Rollback
      BY <2>1 DEF ReplyTooManyBonds, RepliedFor, Replied
    <3> QED BY <3>1, RollbackReward
  <2> QED BY <1>4, <2>1, FetchReward, AllowanceReward, PairMessageReward, ReceiverReward,
             NothingLeftReward
          DEF Reply
<1>5. CASE UNCHANGED proxyVars
  BY <1>5, StutterReward
<1> QED BY <1>1, <1>2, <1>3, <1>4, <1>5 DEF ProxyNext, SomeConfiguration

LEMMA RewardInvariance == ProxySpec => [](ChainInv /\ RewardInv)
<1>1. ProxyInit => ChainInv /\ RewardInv
  <2>1. ProxyInit => ChainInv
    BY DEF ProxyInit, ChainInv, Idle, Outside
  <2> QED BY <2>1, RewardInit
<1>2. ChainInv /\ RewardInv /\ [ProxyNext]_proxyVars => (ChainInv /\ RewardInv)'
  BY NextInv, NextReward
<1> QED BY <1>1, <1>2, PTL DEF ProxySpec

(* No balance, allowance or bond is ever taken below zero, whatever the     *)
(* calls, the rates and the order of the messages.                          *)
THEOREM TypeCorrect == ProxySpec => []ProxyTypeOK
<1>1. RewardInv => ProxyTypeOK
  BY DEF RewardInv
<1> QED BY <1>1, RewardInvariance, PTL

LEMMA BondSums ==
  /\ \A u : Bonded(u) = AmountOf(bonds[u])
  /\ SumFunction([u \in Callers |-> Bonded(u)]) = AllBonded(bonds)
<1>1. \A u : Bonded(u) = AmountOf(bonds[u])
  BY DEF Bonded, AmountOf, SumFunction
<1>2. [u \in Callers |-> Bonded(u)] = BondedTo(bonds)
  BY <1>1 DEF BondedTo
<1>3. DOMAIN BondedTo(bonds) = Callers
  BY DEF BondedTo
<1> QED BY <1>1, <1>2, <1>3 DEF SumFunction, AllBonded

(* Between transactions the proxy holds the tokens of every bond: a bond is *)
(* only made together with the message that fetches its tokens, and what a  *)
(* deposit passes on to the pair is what came with the deposit.             *)
THEOREM RewardsStayFunded == ProxySpec => []RewardsAreFunded
<1>1. ChainInv /\ RewardInv => RewardsAreFunded
  <2> SUFFICES ASSUME ChainInv, RewardInv, Idle
               PROVE  SumFunction([u \in Callers |-> Bonded(u)]) <= held["fury"][ProxyContract]
    BY DEF RewardsAreFunded
  <2>1. AllBonded(bonds) <= held["fury"][ProxyContract]
    BY AtStart
  <2> QED BY <2>1, BondSums
<1> QED BY <1>1, RewardInvariance, PTL

-----------------------------------------------------------------------------
(* What a step between two transactions may do to the bonds                 *)

(* A call that begins a transaction does not end it.                        *)
LEMMA StillUnderway ==
  ASSUME RewardInv, NEW message, NEW kept, SendLast(message, kept)
  PROVE  ~ Idle'
<1>1. requests \in Nat
  BY StoredTypes
<1>2. pending'.id = requests + 1
  BY DEF SendLast
<1> QED BY <1>1, <1>2 DEF Idle

(* Between transactions only a claim changes the bonds.                     *)
LEMMA OnlyClaimsChangeBonds ==
  ASSUME RewardInv, [ProxyNext]_proxyVars, Idle, Idle'
  PROVE  \/ bonds' = bonds
         \/ \E sender \in Callers, n \in Amounts, sent \in Sent : RewardClaim(sender, n, sent)
<1>1. ASSUME NEW sender \in Callers, Call(sender)
      PROVE  \/ bonds' = bonds
             \/ \E n \in Amounts, sent \in Sent : RewardClaim(sender, n, sent)
  <2>1. CASE \E deposit \in Deposits, tolerance \in Tolerances, sent \in Sent :
               \/ ProvideLiquidity(sender, deposit, tolerance, sent)
               \/ ProvidePairForReward(sender, deposit, tolerance, sent)
    BY <2>1 DEF ProvideLiquidity, ProvidePairForReward, ProvideLiquidityThrough
  <2>2. CASE \E n \in Amounts, sent \in Sent : ProvideNativeForReward(sender, n, None, sent)
    <3>1. PICK n \in Amounts, sent \in Sent : ProvideNativeForReward(sender, n, None, sent)
      BY <2>2
    <3>2. PICK message, kept : SendLast(message, kept)
      BY <3>1 DEF ProvideNativeForReward, SendSub
    <3> QED BY <3>2, StillUnderway
  <2>3. CASE \E n \in Amounts, sent \in Sent, belief \in Beliefs, spread \in Spreads :
               \/ SwapNativeForFury(sender, n, belief, spread, sent)
               \/ SwapFuryForNative(sender, n, belief, spread, sent)
    BY <2>3 DEF SwapNativeForFury, SwapFuryForNative
  <2>4. CASE \E n \in Amounts : WithdrawThroughProxy(sender, n)
    BY <2>4 DEF WithdrawThroughProxy
  <2> QED BY <1>1, <2>1, <2>2, <2>3, <2>4 DEF Call
<1>2. ASSUME NEW sender \in Callers, PairCall(sender)
      PROVE  bonds' = bonds
  BY <1>2 DEF PairCall, SendFuryToPair, SendSharesToPair, GiveToPair
<1>3. CASE SomeConfiguration \/ Tick \/ UNCHANGED proxyVars
  BY <1>3 DEF SomeConfiguration, Configure, Tick, proxyVars, stored
<1>4. ~ ExecuteMessage
  BY DEF ExecuteMessage, ExecuteTransferFrom, ExecuteIncreaseAllowance, ExecuteProvideLiquidity,
         ExecuteSwap, MessageRefused, MessageSent
<1>5. ~ Reply
  BY DEF Reply, ReplyFetchReward, ReplyTooManyBonds, ReplyIncreaseAllowance,
         ReplyProvideLiquidity, ReplyTransferToReceiver, ReplyNothingLeft, RepliedFor, Replied
<1> QED BY <1>1, <1>2, <1>3, <1>4, <1>5 DEF ProxyNext, SomeConfiguration

LEMMA WaitingAfter ==
  ASSUME now' = now, opening' = opening, NEW u
  PROVE  /\ Immature(u) = WaitingOf(bonds[u])
         /\ Immature(u)' = WaitingOf(bonds'[u])
         /\ Bonded(u)' = AmountOf(bonds'[u])
<1>1. Immature(u) = WaitingOf(bonds[u])
  BY DEF Immature, WaitingOf, SumFunction
<1>2. \A b : Mature(b)' = Mature(b)
  BY DEF Mature, BondStart
<1>3. Immature(u)' = WaitingOf(bonds'[u])
  BY <1>2 DEF Immature, WaitingOf, SumFunction
<1>4. Bonded(u)' = AmountOf(bonds'[u])
  BY DEF Bonded, AmountOf, SumFunction
<1> QED BY <1>1, <1>3, <1>4

LEMMA MatureStep ==
  ASSUME RewardInv, [ProxyNext]_proxyVars, Idle, Idle', now' = now, opening' = opening,
         NEW u \in Callers
  PROVE  /\ Immature(u)' = Immature(u)
         /\ Bonded(u) - Bonded(u)' =
              IF bonds'[u] # bonds[u] THEN held'["fury"][u] - held["fury"][u] ELSE 0
<1>1. /\ Immature(u) = WaitingOf(bonds[u]) /\ Immature(u)' = WaitingOf(bonds'[u])
      /\ Bonded(u) = AmountOf(bonds[u]) /\ Bonded(u)' = AmountOf(bonds'[u])
  BY WaitingAfter, BondSums
<1>2. /\ bonds \in [Parties -> Seq(Bond)] /\ held["fury"] \in [Parties -> Nat]
      /\ u \in Parties
  BY StoredTypes, NamedParties
<1>3. AmountOf(bonds[u]) \in Nat
  BY <1>2, AmountTypes
<1>4. CASE bonds' = bonds
  <2>1. Bonded(u)' = Bonded(u) /\ Bonded(u) \in Nat
    BY <1>1, <1>3, <1>4
  <2> QED BY <1>1, <1>4, <2>1
<1>5. CASE \E sender \in Callers, n \in Amounts, sent \in Sent : RewardClaim(sender, n, sent)
  <2>1. PICK sender \in Callers, n \in Nat, sent \in Nat : RewardClaim(sender, n, sent)
    BY <1>5, InputTypes
  <2>2. n > 0
    BY <2>1 DEF RewardClaim
  <2>3. /\ held'["fury"][sender] = held["fury"][sender] + n
        /\ bonds' \in [Parties -> Seq(Bond)]
        /\ bonds' = [bonds EXCEPT ![sender] = Claimed(bonds[sender], n).kept]
        /\ AmountOf(bonds'[sender]) + n = AmountOf(bonds[sender])
        /\ WaitingOf(Claimed(bonds[sender], n).kept) = WaitingOf(bonds[sender])
    BY <2>1, ClaimStep
  <2>4. CASE u = sender
    <3>1. bonds'[u] = Claimed(bonds[sender], n).kept
      BY <1>2, <2>3, <2>4
    <3>2. WaitingOf(bonds'[u]) = WaitingOf(bonds[u])
      BY <2>3, <2>4, <3>1
    <3>3. AmountOf(bonds'[u]) + n = AmountOf(bonds[u]) /\ AmountOf(bonds'[u]) \in Nat
      <4>1. bonds'[u] \in Seq(Bond)
        BY <1>2, <2>3
      <4> QED BY <2>3, <2>4, <4>1, AmountTypes
    <3>4. bonds'[u] # bonds[u]
      BY <1>3, <2>2, <3>3
    <3>5. held'["fury"][u] - held["fury"][u] = n
      BY <1>2, <2>3, <2>4
    <3>6. AmountOf(bonds[u]) - AmountOf(bonds'[u]) = n
      BY <1>3, <3>3
    <3> QED BY <1>1, <3>2, <3>4, <3>5, <3>6
  <2>5. CASE u # sender
    <3>1. bonds'[u] = bonds[u]
      BY <1>2, <2>3, <2>5
    <3>2. Bonded(u)' = Bonded(u) /\ Bonded(u) \in Nat
      BY <1>1, <1>3, <3>1
    <3> QED BY <1>1, <3>1, <3>2
  <2> QED BY <2>4, <2>5
<1> QED BY <1>4, <1>5, OnlyClaimsChangeBonds

(* A bond that is not mature is never claimed, and a claim takes from the   *)
(* bonds of the claimant exactly what it is paid, however it is spread over *)
(* them: the sums follow the loop of the claim bond by bond.                *)
THEOREM ClaimsAreMature == ProxySpec => ClaimsTakeMatureBonds
<1>1. ASSUME RewardInv, [ProxyNext]_proxyVars
      PROVE  Idle /\ Idle' /\ now' = now /\ opening' = opening =>
               \A u \in Callers :
                 /\ Immature(u)' = Immature(u)
                 /\ Bonded(u) - Bonded(u)' =
                      IF bonds'[u] # bonds[u] THEN held'["fury"][u] - held["fury"][u] ELSE 0
  BY <1>1, MatureStep
<1> QED BY <1>1, RewardInvariance, PTL DEF ProxySpec, ClaimsTakeMatureBonds

-----------------------------------------------------------------------------
(* What the pair quotes                                                     *)

LEMMA DivAtLeast ==
  ASSUME NEW a \in Int, NEW b \in Nat \ {0}, NEW c \in Int, c * b <= a
  PROVE  c <= a \div b
<1> DEFINE q == a \div b
<1>1. q \in Int /\ a < q * b + b
  BY DivBounds
<1> HIDE DEF q
<1>2. SUFFICES ASSUME q + 1 <= c PROVE FALSE
  BY <1>1 DEF q
<1>3. (q + 1) * b <= c * b
  BY <1>1, <1>2, TimesMore
<1>4. (q + 1) * b = q * b + b /\ c * b \in Int /\ q * b \in Int
  BY <1>1
<1> QED BY <1>1, <1>3, <1>4

LEMMA Cancelled ==
  ASSUME NEW a \in Int, NEW c \in Int, NEW b \in Nat \ {0}, a * b <= c * b
  PROVE  a <= c
<1> SUFFICES ASSUME c + 1 <= a PROVE FALSE
  OBVIOUS
<1>1. (c + 1) * b <= a * b
  BY TimesMore
<1>2. (c + 1) * b = c * b + b /\ c * b \in Int /\ a * b \in Int
  OBVIOUS
<1> QED BY <1>1, <1>2

(* What is raised by the commission is n again after it.                    *)
LEMMA BeforeCommissionBound ==
  ASSUME NEW n \in Nat
  PROVE  /\ BeforeCommission(n) \in Nat
         /\ BeforeCommission(n) * (Fraction - CommissionRate) <= n * Fraction
<1> DEFINE rest == Fraction - CommissionRate
           r == Ratio(Fraction, rest)
           b == BeforeCommission(n)
<1>1. Fraction \in Nat \ {0} /\ CommissionRate \in Nat /\ rest \in Nat \ {0}
  BY PairAssumption DEF PairAssumption
<1> HIDE DEF rest
<1>2. r \in Nat /\ r * rest <= Fraction * Fraction
  <2>1. Fraction * Fraction \in Nat
    BY <1>1, TimesNat
  <2>2. (Fraction * Fraction) \div rest \in Nat
    BY <1>1, <2>1, DivNat
  <2> QED BY <1>1, <2>1, <2>2, DivBounds DEF Ratio
<1> HIDE DEF r
<1>3. b \in Nat /\ b * Fraction <= n * r
  <2>1. b = (n * r) \div Fraction
    BY DEF BeforeCommission, Times, r, rest
  <2> DEFINE x == n * r
  <2>2. x \in Nat /\ b = x \div Fraction
    BY <1>2, <2>1, TimesNat
  <2> HIDE DEF b, x
  <2>3. b \in Nat /\ b * Fraction <= x
    BY <1>1, <2>2, DivNat, DivBounds
  <2> QED BY <2>3 DEF x
<1> HIDE DEF b
<1>4. (b * Fraction) * rest <= (n * r) * rest
  BY <1>1, <1>2, <1>3, TimesMore
<1>5. (r * rest) * n <= (Fraction * Fraction) * n
  BY <1>1, <1>2, TimesMore
<1>6. (b * rest) * Fraction <= (n * Fraction) * Fraction
  <2>1. /\ (b * Fraction) * rest = (b * rest) * Fraction
        /\ (n * r) * rest = (r * rest) * n
        /\ (Fraction * Fraction) * n = (n * Fraction) * Fraction
    BY <1>1, <1>2, <1>3
  <2>2. /\ (b * rest) * Fraction \in Int /\ (r * rest) * n \in Int
        /\ (n * Fraction) * Fraction \in Int
    BY <1>1, <1>2, <1>3
  <2> QED BY <1>4, <1>5, <2>1, <2>2
<1>7. b * rest \in Int /\ n * Fraction \in Int
  BY <1>1, <1>3
<1>8. b * rest <= n * Fraction
  BY <1>1, <1>6, <1>7, Cancelled
<1> QED BY <1>3, <1>8 DEF b, rest

(* At most b is asked of the other pool, so at most n comes out of it.      *)
LEMMA AfterCommission ==
  ASSUME NEW n \in Nat, NEW b \in Nat, NEW asked \in Int, asked <= b,
         b * (Fraction - CommissionRate) <= n * Fraction
  PROVE  asked - Times(asked, CommissionRate) <= n
<1> DEFINE rest == Fraction - CommissionRate
           fee == Times(asked, CommissionRate)
           left == asked - fee
<1>1. Fraction \in Nat \ {0} /\ CommissionRate \in Nat /\ rest \in Nat
  BY PairAssumption DEF PairAssumption
<1>2. fee \in Int /\ asked * CommissionRate < fee * Fraction + Fraction
  <2>1. asked * CommissionRate \in Int
    BY <1>1
  <2> QED BY <1>1, <2>1, DivBounds DEF Times
<1>3. asked * rest <= b * rest
  BY <1>1, TimesMore
<1>4. asked * rest = asked * Fraction - asked * CommissionRate
  BY <1>1
<1> HIDE DEF fee, rest
<1>5. (left - n) * Fraction < Fraction
  <2>1. (left - n) * Fraction = asked * Fraction - fee * Fraction - n * Fraction
    BY <1>1, <1>2
  <2>2. /\ asked * Fraction \in Int /\ fee * Fraction \in Int /\ n * Fraction \in Int
        /\ asked * CommissionRate \in Int /\ b * rest \in Int
    BY <1>1, <1>2
  <2>3. b * rest <= n * Fraction
    BY DEF rest
  <2> DEFINE x == asked * Fraction
             y == fee * Fraction
             z == n * Fraction
             w == asked * CommissionRate
             v == b * rest
  <2>4. /\ x \in Int /\ y \in Int /\ z \in Int /\ w \in Int /\ v \in Int
        /\ w < y + Fraction /\ x - w <= v /\ v <= z
    BY <1>2, <1>3, <1>4, <2>2, <2>3
  <2> HIDE DEF x, y, z, w, v
  <2>5. x - y - z < Fraction
    BY <1>1, <2>4
  <2> QED BY <2>1, <2>5 DEF x, y, z
<1>6. left \in Int
  BY <1>2
<1> HIDE DEF left
<1>7. SUFFICES ASSUME left - n >= 1 PROVE FALSE
  BY <1>6 DEF left, fee
<1>8. 1 * Fraction <= (left - n) * Fraction
  BY <1>1, <1>6, <1>7, TimesMore
<1>9. (left - n) * Fraction \in Int /\ 1 * Fraction = Fraction
  BY <1>1, <1>6
<1> QED BY <1>1, <1>5, <1>8, <1>9

LEMMA ReverseBound ==
  ASSUME NEW o \in Nat \ {0}, NEW ask \in Nat, NEW n \in Nat, BeforeCommission(n) < ask
  PROVE  ReturnAmount(o, ask, OfferAmount(o, ask, n)) <= n
<1> DEFINE b == BeforeCommission(n)
           d == ask - b
           p == (o * ask) \div d
           offer == OfferAmount(o, ask, n)
           q == Ratio(o * ask, p)
           asked == Asked(o, ask, offer)
<1>1. Fraction \in Nat \ {0}
  BY PairAssumption DEF PairAssumption
<1>2. b \in Nat /\ b * (Fraction - CommissionRate) <= n * Fraction /\ b < ask
  BY BeforeCommissionBound
<1>3. d \in Nat \ {0} /\ d <= ask /\ o * ask \in Nat
  BY <1>2, TimesNat
<1>4. offer = p - o
  BY DEF OfferAmount
<1> HIDE DEF offer, b
<1>5. p \in Int /\ p * d <= o * ask /\ o <= p
  <2>1. d * o <= ask * o /\ d * o = o * d /\ ask * o = o * ask
    BY <1>3, TimesMore
  <2>2. o * d <= o * ask
    BY <2>1
  <2> HIDE DEF d
  <2> QED BY <1>3, <2>2, DivBounds, DivAtLeast
<1>6. p \in Nat \ {0}
  BY <1>5
<1>7. o + offer = p
  BY <1>4, <1>5
<1> HIDE DEF p, d
<1>8. asked = (ask * Fraction - q) \div Fraction
  BY <1>7 DEF Asked
<1>9. q \in Int /\ d * Fraction <= q
  <2>1. (p * d) * Fraction <= (o * ask) * Fraction
    BY <1>1, <1>3, <1>5, <1>6, TimesMore
  <2>2. (p * d) * Fraction = (d * Fraction) * p
    BY <1>1, <1>3, <1>6
  <2>3. (d * Fraction) * p <= (o * ask) * Fraction
    BY <2>1, <2>2
  <2>4. d * Fraction \in Int /\ (o * ask) * Fraction \in Int
    BY <1>1, <1>3
  <2>5. q = ((o * ask) * Fraction) \div p
    BY DEF Ratio
  <2> HIDE DEF q
  <2> QED BY <1>6, <2>3, <2>4, <2>5, DivAtLeast, DivBounds
<1> HIDE DEF q, asked
<1>10. asked \in Int /\ asked <= b
  <2>1. d * Fraction = ask * Fraction - b * Fraction
    BY <1>1, <1>2 DEF d
  <2>2. ask * Fraction \in Int /\ b * Fraction \in Int
    BY <1>1, <1>2
  <2>3. ask * Fraction - q <= b * Fraction
    BY <1>9, <2>1, <2>2
  <2> DEFINE x == ask * Fraction - q
  <2>4. x \in Int /\ asked = x \div Fraction /\ x <= b * Fraction
    BY <1>8, <1>9, <2>2, <2>3
  <2> HIDE DEF x
  <2> QED BY <1>1, <1>2, <2>4, DivAtMost, DivBounds
<1>11. asked - Times(asked, CommissionRate) <= n
  BY <1>2, <1>10, AfterCommission
<1>12. ReturnAmount(o, ask, offer) = asked - Times(asked, CommissionRate)
  BY DEF ReturnAmount, Commission, asked
<1> QED BY <1>11, <1>12 DEF offer

(* A simulation is right, and a reverse simulation is not short of what it  *)
(* promises its caller to have to offer, whatever the pools hold and however *)
(* the decimals are rounded.                                                *)
THEOREM QuotesAreKept == ProxySpec => []QuotesHold
<1>1. RewardInv => QuotesHold
  <2> SUFFICES ASSUME RewardInv, NEW offer \in Assets, NEW n \in Amounts,
                      Pool(held, offer) > 0, Pool(held, Other(offer)) > 0
               PROVE  LET ask == Other(offer) IN
                      /\ Returned([held EXCEPT ![offer][PairContract] = @ + n], offer, n)
                           = Simulation(held, offer, n)
                      /\ BeforeCommission(n) < Pool(held, ask) =>
                           Simulation(held, offer, ReverseSimulation(held, ask, n)) <= n
    BY DEF QuotesHold
  <2> DEFINE ask == Other(offer)
             after == [held EXCEPT ![offer][PairContract] = @ + n]
  <2>1. /\ held \in Holdings /\ n \in Nat /\ PairContract \in Parties
        /\ ask \in Assets /\ ask # offer /\ Other(ask) = offer
    BY StoredTypes, InputTypes, KindsOfAssets DEF Assets
  <2>2. /\ \A k \in Kinds : held[k] \in [Parties -> Nat]
        /\ Pool(held, offer) \in Nat \ {0} /\ Pool(held, ask) \in Nat
    BY <2>1, HeldTypes, PoolTypes
  <2>3. Pool(after, offer) = Pool(held, offer) + n /\ Pool(after, ask) = Pool(held, ask)
    <3>1. offer \in Kinds /\ ask \in Kinds /\ held \in [Kinds -> [Parties -> Nat]]
      BY <2>1, KindsOfAssets DEF Holdings, Kinds
    <3>2. after = [held EXCEPT ![offer] = [held[offer] EXCEPT ![PairContract] = @ + n]]
      BY <3>1
    <3> HIDE DEF after, ask
    <3> QED BY <2>1, <2>2, <3>1, <3>2 DEF Pool
  <2> HIDE DEF after
  <2>4. OfferPool(after, offer, n) = Pool(held, offer)
    BY <2>1, <2>2, <2>3 DEF OfferPool
  <2>5. Returned(after, offer, n) = Simulation(held, offer, n)
    BY <2>3, <2>4 DEF Returned, Simulation
  <2>6. ASSUME BeforeCommission(n) < Pool(held, ask)
        PROVE  Simulation(held, offer, ReverseSimulation(held, ask, n)) <= n
    BY <2>1, <2>2, <2>6, ReverseBound DEF Simulation, ReverseSimulation
  <2> QED BY <2>5, <2>6 DEF after
<1> QED BY <1>1, RewardInvariance, PTL

-----------------------------------------------------------------------------
(* What a share is worth                                                    *)

ShareValueKept(h, g) ==
  TotalShare(h) > 0 /\ TotalShare(g) > 0 =>
    Pool(g, "native") * Pool(g, "fury") * TotalShare(h) * TotalShare(h)
      >= Pool(h, "native") * Pool(h, "fury") * TotalShare(g) * TotalShare(g)

SamePools(h, g) == g["lp"] = h["lp"] /\ \A a \in Assets : Pool(g, a) = Pool(h, a)

LEMMA ProductsGrow ==
  ASSUME NEW a \in Nat, NEW b \in Nat, NEW c \in Nat, NEW d \in Nat, a <= c, b <= d
  PROVE  a * b <= c * d
<1>1. a * b <= c * b
  BY TimesMore
<1>2. b * c <= d * c
  BY TimesMore
<1>3. b * c = c * b /\ d * c = c * d /\ a * b \in Int /\ c * b \in Int /\ c * d \in Int
  OBVIOUS
<1> QED BY <1>1, <1>2, <1>3

(* Both pools fall by no more than the shares do.                           *)
LEMMA ValueInProportion ==
  ASSUME NEW p \in Nat, NEW q \in Nat, NEW t \in Nat,
         NEW r \in Nat, NEW s \in Nat, NEW u \in Nat, p * u <= r * t, q * u <= s * t
  PROVE  p * q * u * u <= r * s * t * t
<1> DEFINE a == p * u
           b == q * u
           c == r * t
           d == s * t
<1>1. a \in Nat /\ b \in Nat /\ c \in Nat /\ d \in Nat /\ a <= c /\ b <= d
  BY TimesNat
<1>2. p * q * u * u = a * b
  OBVIOUS
<1>3. r * s * t * t = c * d
  OBVIOUS
<1> HIDE DEF a, b, c, d
<1>4. a * b <= c * d
  BY <1>1, ProductsGrow
<1> QED BY <1>2, <1>3, <1>4

LEMMA ValueOfPools ==
  ASSUME NEW x \in Nat, NEW y \in Nat, NEW t \in Nat, x <= y
  PROVE  x * t * t <= y * t * t
<1>1. t * t \in Nat
  BY TimesNat
<1>2. x * (t * t) <= y * (t * t)
  BY <1>1, TimesMore
<1> QED BY <1>2

LEMMA SamePoolsKeepValue ==
  ASSUME NEW h \in Holdings, NEW g \in Holdings, SamePools(h, g)
  PROVE  TotalShare(g) = TotalShare(h) /\ ShareValueKept(h, g)
<1>1. TotalShare(g) = TotalShare(h)
  BY DEF SamePools, TotalShare
<1> DEFINE x == Pool(h, "native") * Pool(h, "fury") * TotalShare(h) * TotalShare(h)
<1>2. x \in Int
  BY PoolTypes, KindsOfAssets
<1>3. Pool(g, "native") = Pool(h, "native") /\ Pool(g, "fury") = Pool(h, "fury")
  BY KindsOfAssets DEF SamePools
<1> QED BY <1>1, <1>2, <1>3 DEF ShareValueKept

(* Tokens that pass between others than the pair.                           *)
LEMMA GivenPools ==
  ASSUME NEW h \in Holdings, NEW a \in Assets, NEW from \in Parties \ {PairContract},
         NEW to \in Parties \ {PairContract}, NEW n \in Nat, n <= h[a][from]
  PROVE  Given(h, a, from, to, n) \in Holdings /\ SamePools(h, Given(h, a, from, to, n))
<1> DEFINE g == Given(h, a, from, to, n)
<1>1. /\ a \in Kinds /\ "lp" \in Kinds \ {a} /\ Assets \subseteq Kinds
      /\ PairContract \in Parties
  BY KindsOfAssets, NamedParties
<1>2. h[a][PairContract] \in Nat
  BY <1>1, HeldTypes
<1>3. /\ g \in Holdings /\ \A j \in Kinds \ {a} : g[j] = h[j]
      /\ \A p \in Parties : g[a][p]
           = h[a][p] - (IF p = from THEN n ELSE 0) + (IF p = to THEN n ELSE 0)
  BY <1>1, GivenEffect
<1> HIDE DEF g
<1>4. g[a][PairContract] = h[a][PairContract]
  BY <1>1, <1>2, <1>3
<1>5. \A b \in Assets : Pool(g, b) = Pool(h, b)
  BY <1>1, <1>3, <1>4 DEF Pool
<1> QED BY <1>1, <1>3, <1>5 DEF SamePools, g

(* An asset that is paid into the pool.                                     *)
LEMMA PaidIn ==
  ASSUME NEW h \in Holdings, NEW a \in Assets, NEW from \in Parties \ {PairContract},
         NEW n \in Nat, n <= h[a][from]
  PROVE  LET g == Given(h, a, from, PairContract, n) IN
         /\ g \in Holdings /\ TotalShare(g) = TotalShare(h) /\ g["lp"] = h["lp"]
         /\ Pool(g, a) = Pool(h, a) + n
         /\ \A b \in Assets \ {a} : Pool(g, b) = Pool(h, b) /\ g[b] = h[b]
<1> DEFINE g == Given(h, a, from, PairContract, n)
<1>1. /\ a \in Kinds /\ "lp" \in Kinds \ {a} /\ Assets \subseteq Kinds
      /\ PairContract \in Parties
  BY KindsOfAssets, NamedParties
<1>2. h[a][PairContract] \in Nat
  BY <1>1, HeldTypes
<1>3. /\ g \in Holdings /\ \A j \in Kinds \ {a} : g[j] = h[j]
      /\ \A p \in Parties : g[a][p]
           = h[a][p] - (IF p = from THEN n ELSE 0) + (IF p = PairContract THEN n ELSE 0)
  BY <1>1, GivenEffect
<1> HIDE DEF g
<1>4. g[a][PairContract] = h[a][PairContract] + n
  BY <1>1, <1>2, <1>3
<1>5. g["lp"] = h["lp"] /\ \A b \in Assets \ {a} : g[b] = h[b]
  BY <1>1, <1>3
<1> QED BY <1>3, <1>4, <1>5 DEF g, Pool, TotalShare

(* While a pool is not larger than the unit of the decimals, what is left   *)
(* of the rounding is less than a token, so the product does not fall.      *)
LEMMA ProductKept ==
  ASSUME NEW o \in Nat \ {0}, NEW ask \in Nat, NEW n \in Nat, o + n <= Fraction
  PROVE  /\ ReturnAmount(o, ask, n) \in 0..ask
         /\ o * ask <= (o + n) * (ask - ReturnAmount(o, ask, n))
<1> DEFINE p == o + n
           q == Ratio(o * ask, p)
           asked == Asked(o, ask, n)
           keep == ask - asked
           r == ReturnAmount(o, ask, n)
<1>1. Fraction \in Nat \ {0}
  BY PairAssumption DEF PairAssumption
<1>2. r \in 0..ask
  BY AskedBound
<1>3. asked \in 0..ask
  BY AskedRange
<1>4. r <= asked
  BY AskedBound
<1>5. p \in Nat \ {0} /\ p <= Fraction /\ o * ask \in Nat /\ keep \in Nat
  BY <1>3, TimesNat
<1>6. q \in Int /\ (o * ask) * Fraction < q * p + p
  <2> DEFINE x == (o * ask) * Fraction
  <2>1. x \in Int /\ q = x \div p
    BY <1>1 DEF Ratio
  <2> HIDE DEF x, p, q
  <2>2. q \in Int /\ x < q * p + p
    BY <1>5, <2>1, DivBounds
  <2> QED BY <2>2 DEF x
<1>7. q <= keep * Fraction
  <2> DEFINE x == ask * Fraction - q
  <2>1. ask * Fraction \in Int /\ asked * Fraction \in Int
        /\ keep * Fraction = ask * Fraction - asked * Fraction
    BY <1>1, <1>3
  <2>2. x \in Int /\ asked = x \div Fraction
    BY <1>6, <2>1 DEF Asked
  <2> HIDE DEF asked, q
  <2>3. asked * Fraction <= x
    <3> HIDE DEF x
    <3> QED BY <1>1, <2>2, DivBounds
  <2> QED BY <1>6, <2>1, <2>3
<1> HIDE DEF p, q, asked
<1>8. q * p <= (keep * Fraction) * p
  <2>1. keep * Fraction \in Int
    BY <1>1, <1>5
  <2> QED BY <1>5, <1>6, <1>7, <2>1, TimesMore
<1> DEFINE whole == o * ask
           kept == keep * p
<1>9. (keep * Fraction) * p = kept * Fraction /\ kept \in Nat
  BY <1>1, <1>5, TimesNat
<1>10. whole * Fraction < kept * Fraction + Fraction
  <2>1. q * p \in Int /\ whole * Fraction \in Int /\ kept * Fraction \in Int
    BY <1>1, <1>5, <1>6, <1>9
  <2>2. whole * Fraction < q * p + p /\ q * p <= kept * Fraction
    BY <1>6, <1>8, <1>9
  <2> HIDE DEF whole, kept, keep
  <2> QED BY <1>1, <1>5, <2>1, <2>2
<1>11. whole \in Nat
  BY <1>5
<1> HIDE DEF whole, kept
<1>12. whole <= kept
  <2> SUFFICES ASSUME kept + 1 <= whole PROVE FALSE
    BY <1>9, <1>11
  <2>1. (kept + 1) * Fraction <= whole * Fraction
    BY <1>1, <1>9, <1>11, TimesMore
  <2>2. (kept + 1) * Fraction = kept * Fraction + Fraction
    BY <1>1, <1>9
  <2>3. whole * Fraction \in Int /\ kept * Fraction \in Int
    BY <1>1, <1>9, <1>11
  <2> QED BY <1>1, <1>10, <2>1, <2>2, <2>3
<1>13. keep * p <= (ask - r) * p
  BY <1>2, <1>3, <1>4, <1>5, TimesMore DEF asked
<1>14. (ask - r) * p = p * (ask - r) /\ (ask - r) * p \in Int /\ keep * p \in Int
  BY <1>2, <1>5
<1>15. whole <= p * (ask - r)
  BY <1>11, <1>12, <1>13, <1>14 DEF kept
<1> QED BY <1>2, <1>15 DEF whole, p

LEMMA SwapKeepsValue ==
  ASSUME NEW h \in Holdings, NEW g \in Holdings, NEW offer \in Assets, NEW n \in Nat,
         NEW belief, NEW spread, NEW to \in Parties \ {PairContract},
         TotalShare(g) = TotalShare(h), Pool(g, offer) = Pool(h, offer) + n,
         Pool(g, Other(offer)) = Pool(h, Other(offer)),
         CanSwap(g, offer, n, belief, spread),
         Pool(Swapped(g, offer, n, to), offer) <= Fraction
  PROVE  Swapped(g, offer, n, to) \in Holdings /\ ShareValueKept(h, Swapped(g, offer, n, to))
<1> DEFINE ask == Other(offer)
           r == Returned(g, offer, n)
           w == Swapped(g, offer, n, to)
           o == Pool(h, offer)
           a == Pool(h, ask)
           t == TotalShare(h)
<1>1. /\ ask \in Assets /\ ask # offer /\ PairContract \in Parties /\ to \in Parties
      /\ ask \in Kinds /\ offer \in Kinds \ {ask} /\ "lp" \in Kinds \ {ask}
      /\ Assets = {"native", "fury"} /\ "native" # "fury"
  BY KindsOfAssets, NamedParties DEF Assets
<1>2. o \in Nat /\ a \in Nat /\ t \in Nat
  BY <1>1, PoolTypes
<1>3. OfferPool(g, offer, n) = o /\ o > 0
  BY <1>2 DEF OfferPool, CanSwap
<1>4. r = ReturnAmount(o, a, n)
  BY <1>3 DEF Returned
<1> HIDE DEF r, w
<1>5. r \in 0..a
  BY <1>2, <1>3, <1>4, AskedBound
<1>6. /\ w \in Holdings /\ \A j \in Kinds \ {ask} : w[j] = g[j]
      /\ w[ask][PairContract] = g[ask][PairContract] - r
  <2>1. w = Given(g, ask, PairContract, to, r)
    BY DEF w, Swapped, r
  <2>2. r \in Nat /\ r <= g[ask][PairContract] /\ g[ask][PairContract] \in Nat
    BY <1>1, <1>2, <1>5 DEF Pool
  <2>3. /\ w \in Holdings /\ \A j \in Kinds \ {ask} : w[j] = g[j]
        /\ \A p \in Parties : w[ask][p]
             = g[ask][p] - (IF p = PairContract THEN r ELSE 0) + (IF p = to THEN r ELSE 0)
    BY <1>1, <2>1, <2>2, GivenEffect
  <2> HIDE DEF ask
  <2>4. to # PairContract
    OBVIOUS
  <2> QED BY <1>1, <2>2, <2>3, <2>4
<1> HIDE DEF ask
<1>7. Pool(w, offer) = o + n /\ Pool(w, ask) = a - r /\ TotalShare(w) = t
  BY <1>1, <1>6 DEF Pool, TotalShare, ask
<1> HIDE DEF o, a, t
<1>8. o * a <= (o + n) * (a - r)
  BY <1>2, <1>3, <1>4, <1>7, ProductKept DEF w
<1>9. /\ Pool(h, "native") * Pool(h, "fury") = o * a
      /\ Pool(w, "native") * Pool(w, "fury") = (o + n) * (a - r)
  <2>1. CASE offer = "native"
    <3>1. ask = "fury"
      BY <1>1, <2>1
    <3> QED BY <1>7, <2>1, <3>1 DEF o, a
  <2>2. CASE offer = "fury"
    <3>1. ask = "native"
      BY <1>1, <2>2
    <3>2. /\ Pool(h, "native") = a /\ Pool(h, "fury") = o
          /\ Pool(w, "native") = a - r /\ Pool(w, "fury") = o + n
      BY <1>7, <2>2, <3>1 DEF o, a
    <3>3. a * o = o * a /\ (a - r) * (o + n) = (o + n) * (a - r)
      BY <1>2, <1>5
    <3> QED BY <3>2, <3>3
  <2> QED BY <1>1, <2>1, <2>2
<1>10. (o * a) * t * t <= ((o + n) * (a - r)) * t * t
  <2>1. o * a \in Nat /\ (o + n) * (a - r) \in Nat
    BY <1>2, <1>5, TimesNat
  <2> QED BY <1>2, <1>8, <2>1, ValueOfPools
<1>11. (o * a) * t * t \in Int /\ ((o + n) * (a - r)) * t * t \in Int
  BY <1>2, <1>5
<1>12. ShareValueKept(h, w)
  <2>1. TotalShare(h) = t
    BY DEF t
  <2> QED BY <1>7, <1>9, <1>10, <1>11, <2>1 DEF ShareValueKept
<1> QED BY <1>6, <1>12 DEF w

(* A gift adds to one pool.                                                 *)
LEMMA GiftKeepsValue ==
  ASSUME NEW h \in Holdings, NEW a \in Assets, NEW from \in Parties \ {PairContract},
         NEW n \in Nat, n <= h[a][from]
  PROVE  ShareValueKept(h, Given(h, a, from, PairContract, n))
<1> DEFINE g == Given(h, a, from, PairContract, n)
<1>1. /\ g \in Holdings /\ TotalShare(g) = TotalShare(h)
      /\ Pool(g, a) = Pool(h, a) + n
      /\ \A b \in Assets \ {a} : Pool(g, b) = Pool(h, b)
  BY PaidIn
<1> HIDE DEF g
<1> DEFINE t == TotalShare(h)
           p == Pool(h, "native")
           q == Pool(h, "fury")
           r == Pool(g, "native")
           s == Pool(g, "fury")
<1>2. p \in Nat /\ q \in Nat /\ r \in Nat /\ s \in Nat /\ t \in Nat
  BY <1>1, PoolTypes, KindsOfAssets
<1>3. \A b \in Assets : Pool(h, b) <= Pool(g, b)
  <2>1. \A b \in Assets : Pool(h, b) \in Nat
    BY PoolTypes
  <2> QED BY <1>1, <2>1
<1>4. p <= r /\ q <= s
  BY <1>3, KindsOfAssets
<1>5. TotalShare(g) = t /\ TotalShare(h) = t
  BY <1>1
<1> HIDE DEF p, q, r, s, t
<1>6. p * q <= r * s /\ p * q \in Nat /\ r * s \in Nat
  BY <1>2, <1>4, ProductsGrow, TimesNat
<1>7. (p * q) * t * t <= (r * s) * t * t
  BY <1>2, <1>6, ValueOfPools
<1>8. (p * q) * t * t \in Int /\ (r * s) * t * t \in Int
  BY <1>2
<1>9. ShareValueKept(h, g)
  BY <1>5, <1>7, <1>8 DEF ShareValueKept, p, q, r, s
<1> QED BY <1>9 DEF g

LEMMA ProportionKept ==
  ASSUME NEW h \in Holdings, NEW g \in Holdings,
         \A a \in Assets : Pool(h, a) * TotalShare(g) <= Pool(g, a) * TotalShare(h)
  PROVE  ShareValueKept(h, g)
<1> DEFINE t == TotalShare(h)
           u == TotalShare(g)
           p == Pool(h, "native")
           q == Pool(h, "fury")
           r == Pool(g, "native")
           s == Pool(g, "fury")
<1>1. /\ p \in Nat /\ q \in Nat /\ r \in Nat /\ s \in Nat /\ t \in Nat /\ u \in Nat
      /\ p * u <= r * t /\ q * u <= s * t
  BY PoolTypes, KindsOfAssets
<1> HIDE DEF p, q, r, s, t, u
<1>2. p * q * u * u <= r * s * t * t
  BY <1>1, ValueInProportion
<1>3. p * q * u * u \in Int /\ r * s * t * t \in Int
  BY <1>1
<1> QED BY <1>2, <1>3 DEF ShareValueKept, p, q, r, s, t, u

(* Shares go at most in proportion to what is deposited.                    *)
LEMMA ShareFits ==
  ASSUME NEW h \in Holdings, NEW deposit \in Deposit, NEW allowed, NEW funds, NEW tolerance,
         CanProvide(h, allowed, deposit, funds, tolerance), TotalShare(h) > 0,
         NEW a \in Assets
  PROVE  Share(h, deposit) * Pool(h, a) <= deposit[a] * TotalShare(h)
<1> DEFINE part(b) == (deposit[b] * TotalShare(h)) \div Pool(h, b)
           s == Share(h, deposit)
           x == deposit[a] * TotalShare(h)
           p == Pool(h, a)
<1>1. /\ TotalShare(h) \in Nat \ {0} /\ \A b \in Assets : Pool(h, b) \in Nat \ {0}
      /\ \A b \in Assets : deposit[b] \in Nat
      /\ "native" \in Assets /\ "fury" \in Assets
  <2>1. TotalShare(h) \in Nat /\ \A b \in Assets : Pool(h, b) \in Nat
    BY PoolTypes
  <2>2. \A b \in Assets : Pool(h, b) > 0
    BY DEF CanProvide
  <2> QED BY <2>1, <2>2, KindsOfAssets DEF Deposit
<1>2. \A b \in Assets : part(b) \in Nat
  BY <1>1, TimesNat, DivNat
<1>3. s = Lesser(part("native"), part("fury"))
  BY <1>1 DEF Share
<1>4. s \in Nat /\ s <= part(a)
  <2>1. a = "native" \/ a = "fury"
    BY DEF Assets
  <2> HIDE DEF s, part
  <2> QED BY <1>1, <1>2, <1>3, <2>1 DEF Lesser
<1>5. x \in Nat /\ p \in Nat \ {0} /\ part(a) = x \div p
  BY <1>1, TimesNat
<1> HIDE DEF x, s, part, p
<1>6. part(a) * p <= x
  BY <1>5, DivBounds
<1>7. s * p <= part(a) * p
  BY <1>2, <1>4, <1>5, TimesMore
<1>8. s * p \in Int /\ part(a) * p \in Int
  BY <1>2, <1>4, <1>5
<1> QED BY <1>5, <1>6, <1>7, <1>8 DEF s, x, p

LEMMA MintedShares ==
  ASSUME NEW h \in Holdings, NEW to \in Parties, NEW n \in Nat
  PROVE  TotalShare(Minted(h, to, n)) = TotalShare(h) + n
<1> DEFINE f == h["lp"]
           g == Minted(h, to, n)["lp"]
<1>1. f \in [Parties -> Nat] /\ h \in [Kinds -> [Parties -> Nat]] /\ "lp" \in Kinds
  BY HeldTypes, KindsOfAssets DEF Holdings, Kinds
<1>2. g = [f EXCEPT ![to] = @ + n]
  BY <1>1 DEF Minted
<1>3. IsFiniteSet(Parties)
  BY PairAssumption DEF PairAssumption
<1> HIDE DEF f, g
<1>4. /\ \A x \in Parties : f[x] \in Int /\ g[x] \in Int
      /\ \A x \in Parties \ {to} : f[x] = g[x]
      /\ g[to] = f[to] + n
  BY <1>1, <1>2
<1>5. SumFunctionOnSet(g, Parties) = SumFunctionOnSet(f, Parties) + (g[to] - f[to])
  <2>1. \A x \in Parties : f[x] \in Int /\ g[x] \in Int
    BY <1>4
  <2>2. \A x \in Parties \ {to} : f[x] = g[x]
    BY <1>4
  <2> QED BY <1>3, <2>1, <2>2, SumUpdate
<1>6. SumFunctionOnSet(f, Parties) \in Int
  BY <1>3, <1>4, SumInt
<1>7. SumFunctionOnSet(g, Parties) = SumFunctionOnSet(f, Parties) + n
  BY <1>4, <1>5, <1>6
<1> QED BY <1>7 DEF TotalShare, f, g

LEMMA BurnedShares ==
  ASSUME NEW h \in Holdings, NEW from \in Parties, NEW n \in Nat, n <= h["lp"][from]
  PROVE  /\ Burned(h, from, n) \in Holdings
         /\ \A a \in Assets : Burned(h, from, n)[a] = h[a]
         /\ TotalShare(Burned(h, from, n)) = TotalShare(h) - n
<1> DEFINE f == h["lp"]
           b == Burned(h, from, n)
           g == b["lp"]
           row == [f EXCEPT ![from] = @ - n]
<1>1. f \in [Parties -> Nat] /\ h \in [Kinds -> [Parties -> Nat]] /\ "lp" \in Kinds
  BY HeldTypes, KindsOfAssets DEF Holdings, Kinds
<1>2. b = [h EXCEPT !["lp"] = row]
  BY DEF Burned
<1>3. IsFiniteSet(Parties)
  BY PairAssumption DEF PairAssumption
<1>4. row \in [Parties -> Nat] /\ row[from] = f[from] - n
      /\ \A x \in Parties \ {from} : row[x] = f[x]
  BY <1>1
<1> HIDE DEF row, b
<1>5. b \in Holdings /\ g = row /\ \A a \in Assets : b[a] = h[a]
  BY <1>1, <1>2, <1>4, KindsOfAssets DEF Holdings, Kinds
<1> HIDE DEF f, g
<1>6. /\ \A x \in Parties : f[x] \in Int /\ g[x] \in Int
      /\ \A x \in Parties \ {from} : f[x] = g[x]
      /\ g[from] = f[from] - n
  BY <1>1, <1>4, <1>5
<1>7. SumFunctionOnSet(g, Parties) = SumFunctionOnSet(f, Parties) + (g[from] - f[from])
  <2>1. \A x \in Parties : f[x] \in Int /\ g[x] \in Int
    BY <1>6
  <2>2. \A x \in Parties \ {from} : f[x] = g[x]
    BY <1>6
  <2> QED BY <1>3, <2>1, <2>2, SumUpdate
<1>8. SumFunctionOnSet(f, Parties) \in Int
  BY <1>3, <1>6, SumInt
<1>9. SumFunctionOnSet(g, Parties) = SumFunctionOnSet(f, Parties) - n
  BY <1>6, <1>7, <1>8
<1> QED BY <1>5, <1>9 DEF TotalShare, f, g, b

LEMMA ProvideKeepsValue ==
  ASSUME NEW h \in Holdings, NEW deposit \in Deposit, NEW allowed, NEW funds, NEW tolerance,
         CanProvide(h, allowed, deposit, funds, tolerance), NEW receiver \in Parties
  PROVE  ShareValueKept(h, Provided(h, deposit, receiver))
<1> DEFINE one == Given(h, "native", ProxyContract, PairContract, deposit["native"])
           two == Given(one, "fury", ProxyContract, PairContract, deposit["fury"])
           g == Provided(h, deposit, receiver)
           s == Share(h, deposit)
           t == TotalShare(h)
<1>1. /\ ProxyContract \in Parties \ {PairContract} /\ PairContract \in Parties
      /\ "native" \in Assets /\ "fury" \in Assets /\ "native" # "fury"
  BY KindsOfAssets, NamedParties
<1>2. deposit["native"] \in Nat /\ deposit["fury"] \in Nat
  BY <1>1 DEF Deposit
<1>3. /\ deposit["native"] <= h["native"][ProxyContract]
      /\ deposit["fury"] <= h["fury"][ProxyContract]
  BY DEF CanProvide
<1>4. /\ one \in Holdings /\ TotalShare(one) = t /\ one["fury"] = h["fury"]
      /\ Pool(one, "native") = Pool(h, "native") + deposit["native"]
      /\ Pool(one, "fury") = Pool(h, "fury")
  BY <1>1, <1>2, <1>3, PaidIn
<1> HIDE DEF one
<1>5. deposit["fury"] <= one["fury"][ProxyContract]
  BY <1>3, <1>4
<1>6. /\ two \in Holdings /\ TotalShare(two) = t
      /\ Pool(two, "fury") = Pool(one, "fury") + deposit["fury"]
      /\ Pool(two, "native") = Pool(one, "native")
  BY <1>1, <1>2, <1>4, <1>5, PaidIn
<1> HIDE DEF two
<1>7. g = Minted(two, receiver, s)
  BY DEF Provided, two, one
<1>8. s \in Nat
  BY ShareType
<1> HIDE DEF g, s
<1>9. g \in Holdings /\ TotalShare(g) = t + s /\ \A a \in Assets : g[a] = two[a]
  BY <1>6, <1>7, <1>8, MintedType, MintedShares
<1>10. \A a \in Assets : Pool(g, a) = Pool(h, a) + deposit[a]
  <2>1. \A a \in Assets : a = "native" \/ a = "fury"
    BY DEF Assets
  <2>2. \A a \in Assets : Pool(g, a) = Pool(two, a)
    BY <1>9 DEF Pool
  <2> QED BY <1>1, <1>4, <1>6, <2>1, <2>2
<1>11. ASSUME t = 0 PROVE ShareValueKept(h, g)
  <2>1. ~ (TotalShare(h) > 0)
    BY <1>11
  <2> QED BY <2>1 DEF ShareValueKept
<1>12. ASSUME t # 0 PROVE ShareValueKept(h, g)
  <2>1. t \in Nat /\ t > 0
    BY <1>12, PoolTypes
  <2>2. ASSUME NEW a \in Assets PROVE Pool(h, a) * TotalShare(g) <= Pool(g, a) * t
    <3> DEFINE p == Pool(h, a)
               d == deposit[a]
    <3>1. p \in Nat /\ d \in Nat
      BY PoolTypes DEF Deposit
    <3>2. s * p <= d * t
      BY <2>1, ShareFits DEF s
    <3> HIDE DEF p, d, t
    <3>3. p * (t + s) = p * t + s * p /\ (p + d) * t = p * t + d * t
      BY <1>8, <2>1, <3>1
    <3>4. p * t \in Int /\ s * p \in Int /\ d * t \in Int
      BY <1>8, <2>1, <3>1
    <3>5. p * (t + s) <= (p + d) * t
      BY <3>2, <3>3, <3>4
    <3> QED BY <1>9, <1>10, <3>5 DEF p, d, t
  <2> QED BY <1>9, <2>2, ProportionKept
<1>13. ShareValueKept(h, g)
  BY <1>11, <1>12
<1> QED BY <1>13 DEF g

LEMMA RefundFits ==
  ASSUME NEW h \in Holdings, NEW a \in Assets, NEW n \in Nat \ {0}, n <= TotalShare(h)
  PROVE  Refund(h, a, n) * TotalShare(h) <= Pool(h, a) * n
<1> DEFINE t == TotalShare(h)
           p == Pool(h, a)
           ratio == ShareRatio(h, n)
           r == Refund(h, a, n)
<1>1. Fraction \in Nat \ {0} /\ p \in Nat /\ t \in Nat \ {0}
  BY PairAssumption, PoolTypes DEF PairAssumption
<1>2. ratio \in Nat /\ ratio * t <= n * Fraction
  <2> DEFINE x == n * Fraction
  <2>1. x \in Nat /\ ratio = x \div t
    BY <1>1, TimesNat DEF ShareRatio, Ratio
  <2> HIDE DEF x, ratio, t
  <2>2. ratio \in Nat /\ ratio * t <= x
    BY <1>1, <2>1, DivNat, DivBounds
  <2> QED BY <2>2 DEF x
<1>3. r \in Nat /\ r * Fraction <= p * ratio
  <2> DEFINE x == p * ratio
  <2>1. x \in Nat /\ r = x \div Fraction
    <3>1. r = x \div Fraction
      BY DEF Refund, Times
    <3> HIDE DEF p, ratio, r
    <3> QED BY <1>1, <1>2, <3>1, TimesNat
  <2> HIDE DEF x, r
  <2>2. r \in Nat /\ r * Fraction <= x
    BY <1>1, <2>1, DivNat, DivBounds
  <2> QED BY <2>2 DEF x
<1> HIDE DEF r, ratio, t, p
<1>4. (r * Fraction) * t <= (p * ratio) * t
  <2>1. r * Fraction \in Int /\ p * ratio \in Int
    BY <1>1, <1>2, <1>3
  <2> QED BY <1>1, <1>3, <2>1, TimesMore
<1>5. (ratio * t) * p <= (n * Fraction) * p
  <2>1. ratio * t \in Int /\ n * Fraction \in Int
    BY <1>1, <1>2
  <2> QED BY <1>1, <1>2, <2>1, TimesMore
<1>6. (r * t) * Fraction <= (p * n) * Fraction
  <2>1. /\ (r * Fraction) * t = (r * t) * Fraction
        /\ (p * ratio) * t = (ratio * t) * p
        /\ (n * Fraction) * p = (p * n) * Fraction
    BY <1>1, <1>2, <1>3
  <2>2. /\ (r * t) * Fraction \in Int /\ (ratio * t) * p \in Int /\ (p * n) * Fraction \in Int
    BY <1>1, <1>2, <1>3
  <2> QED BY <1>4, <1>5, <2>1, <2>2
<1>7. r * t \in Int /\ p * n \in Int
  BY <1>1, <1>3
<1>8. r * t <= p * n
  BY <1>1, <1>6, <1>7, Cancelled
<1> QED BY <1>8 DEF r, t, p

LEMMA PaidOut ==
  ASSUME NEW h \in Holdings, NEW a \in Assets, NEW to \in Parties \ {PairContract},
         NEW n \in Nat, n <= Pool(h, a)
  PROVE  LET g == Given(h, a, PairContract, to, n) IN
         /\ g \in Holdings /\ TotalShare(g) = TotalShare(h) /\ g["lp"] = h["lp"]
         /\ Pool(g, a) = Pool(h, a) - n
         /\ \A b \in Assets \ {a} : Pool(g, b) = Pool(h, b) /\ g[b] = h[b]
<1> DEFINE g == Given(h, a, PairContract, to, n)
<1>1. /\ a \in Kinds /\ "lp" \in Kinds \ {a} /\ Assets \subseteq Kinds
      /\ PairContract \in Parties
  BY KindsOfAssets, NamedParties
<1>2. h[a][PairContract] \in Nat
  BY <1>1, HeldTypes
<1>3. /\ g \in Holdings /\ \A j \in Kinds \ {a} : g[j] = h[j]
      /\ \A p \in Parties : g[a][p]
           = h[a][p] - (IF p = PairContract THEN n ELSE 0) + (IF p = to THEN n ELSE 0)
  BY <1>1, GivenEffect DEF Pool
<1> HIDE DEF g
<1>4. g[a][PairContract] = h[a][PairContract] - n
  BY <1>1, <1>2, <1>3
<1>5. g["lp"] = h["lp"] /\ \A b \in Assets \ {a} : g[b] = h[b]
  BY <1>1, <1>3
<1> QED BY <1>3, <1>4, <1>5 DEF g, Pool, TotalShare

LEMMA WithdrawKeepsValue ==
  ASSUME NEW h \in Holdings, NEW g \in Holdings, TotalShare(g) = TotalShare(h),
         \A a \in Assets : Pool(g, a) = Pool(h, a),
         NEW sender \in Parties \ {PairContract}, NEW n \in Nat,
         n <= g["lp"][PairContract], CanWithdraw(g, n)
  PROVE  ShareValueKept(h, Withdrawn(g, sender, n))
<1> DEFINE r == Refund(g, "native", n)
           s == Refund(g, "fury", n)
           one == Given(g, "native", PairContract, sender, r)
           two == Given(one, "fury", PairContract, sender, s)
           w == Withdrawn(g, sender, n)
           t == TotalShare(g)
<1>1. /\ PairContract \in Parties /\ "native" \in Assets /\ "fury" \in Assets
      /\ "native" # "fury"
  BY KindsOfAssets, NamedParties
<1>2. /\ t \in Nat /\ n \in Nat \ {0} /\ n <= t /\ t = TotalShare(h)
      /\ g["lp"][PairContract] \in Nat
  <2>1. TotalShare(g) = TotalShare(h)
    OBVIOUS
  <2>2. TotalShare(g) \in Nat /\ g["lp"][PairContract] <= TotalShare(g) /\ n > 0
    BY PoolTypes DEF CanWithdraw
  <2>3. g["lp"][PairContract] \in Nat
    BY <1>1, HeldTypes, KindsOfAssets
  <2> QED BY <2>1, <2>2, <2>3
<1>3. /\ r \in 0..Pool(g, "native") /\ s \in 0..Pool(g, "fury")
      /\ r * t <= Pool(g, "native") * n /\ s * t <= Pool(g, "fury") * n
  BY <1>1, <1>2, RefundBound, RefundFits
<1>4. Pool(g, "native") \in Nat /\ Pool(g, "fury") \in Nat
  BY <1>1, PoolTypes
<1> HIDE DEF r, s, t
<1>5. /\ one \in Holdings /\ TotalShare(one) = t /\ one["lp"] = g["lp"]
      /\ Pool(one, "native") = Pool(g, "native") - r /\ Pool(one, "fury") = Pool(g, "fury")
  BY <1>1, <1>3, <1>4, PaidOut DEF t
<1> HIDE DEF one
<1>6. /\ two \in Holdings /\ TotalShare(two) = t /\ two["lp"] = g["lp"]
      /\ Pool(two, "fury") = Pool(g, "fury") - s /\ Pool(two, "native") = Pool(g, "native") - r
  BY <1>1, <1>3, <1>4, <1>5, PaidOut
<1> HIDE DEF two
<1>7. w = Burned(two, PairContract, n)
  BY DEF Withdrawn, two, one, r, s
<1> HIDE DEF w
<1>8. w \in Holdings /\ TotalShare(w) = t - n /\ \A a \in Assets : w[a] = two[a]
  BY <1>1, <1>6, <1>7, BurnedShares
<1>9. Pool(w, "native") = Pool(g, "native") - r /\ Pool(w, "fury") = Pool(g, "fury") - s
  BY <1>1, <1>6, <1>8 DEF Pool
<1>10. ASSUME NEW p \in Nat, NEW x \in 0..p, x * t <= p * n
       PROVE  p * (t - n) <= (p - x) * t
  <2>1. p * (t - n) = p * t - p * n /\ (p - x) * t = p * t - x * t
    BY <1>2
  <2>2. p * t \in Int /\ p * n \in Int /\ x * t \in Int
    BY <1>2
  <2> QED BY <1>10, <2>1, <2>2
<1>11. \A a \in Assets : Pool(h, a) * TotalShare(w) <= Pool(w, a) * TotalShare(h)
  <2>1. \A a \in Assets : a = "native" \/ a = "fury"
    BY DEF Assets
  <2>2. /\ Pool(g, "native") * (t - n) <= (Pool(g, "native") - r) * t
        /\ Pool(g, "fury") * (t - n) <= (Pool(g, "fury") - s) * t
    BY <1>3, <1>4, <1>10
  <2> QED BY <1>1, <1>2, <1>8, <1>9, <2>1, <2>2
<1>12. ShareValueKept(h, w)
  BY <1>8, <1>11, ProportionKept
<1> QED BY <1>12 DEF w

-----------------------------------------------------------------------------
(* What a share is worth, step by step                                      *)

(* Until its last message a transaction leaves the pair alone, so that one   *)
(* that is undone takes nothing from the pools.                             *)
PairInv ==
  /\ Message.kind = "TransferFrom" => Message.owner # PairContract
  /\ ~ Idle /\ (Noted \/ Message # NoMessage) => SamePools(before.held, held)

(* No pool holds more than what a decimal counts as one.                    *)
PoolsWithin == \A a \in Assets : Pool(held, a) <= Fraction

LEMMA SamePoolsAgain ==
  ASSUME NEW f, NEW g, NEW h, SamePools(f, g), SamePools(g, h)
  PROVE  SamePools(f, h) /\ SamePools(g, f)
BY DEF SamePools

LEMMA SameHoldings ==
  ASSUME RewardInv, held' = held
  PROVE  SamePools(held, held') /\ ShareValueKept(held, held')
<1>1. held \in Holdings
  BY StoredTypes
<1>2. SamePools(held, held')
  BY DEF SamePools
<1> QED BY <1>1, <1>2, SamePoolsKeepValue

LEMMA BeginKeeps ==
  ASSUME RewardInv, Begin, NEW sender \in Callers, NEW sent \in Nat,
         sent <= held["native"][sender], held' = WithFunds(sender, sent),
         NEW message, NEW kept, SendLast(message, kept),
         message.kind = "TransferFrom" => message.owner # PairContract
  PROVE  PairInv' /\ ShareValueKept(held, held')
<1>1. held \in Holdings /\ sender \in Parties \ {PairContract}
      /\ ProxyContract \in Parties \ {PairContract} /\ "native" \in Assets
  BY StoredTypes, NamedParties, KindsOfAssets
<1>2. held' \in Holdings /\ SamePools(held, held')
  BY <1>1, GivenPools DEF WithFunds
<1>3. before'.held = held
  BY DEF Begin, Storage
<1>4. pending'.message = message
  BY DEF SendLast
<1>5. PairInv'
  BY <1>2, <1>3, <1>4 DEF PairInv, Message
<1> QED BY <1>1, <1>2, <1>5, SamePoolsKeepValue

LEMMA CallBegins ==
  ASSUME RewardInv, NEW sender \in Callers, NEW sent \in Nat,
         \/ \E deposit, tolerance, receiver, next, passed :
              ProvideLiquidityThrough(sender, deposit, tolerance, receiver, next, sent, passed)
         \/ \E n : ProvideNativeForReward(sender, n, None, sent)
         \/ \E n, belief, spread : SwapNativeForFury(sender, n, belief, spread, sent)
  PROVE  PairInv' /\ ShareValueKept(held, held')
<1>1. sender # PairContract /\ NativeRewardWallet # PairContract
  BY NamedParties
<1>2. CASE \E deposit, tolerance, receiver, next, passed :
             ProvideLiquidityThrough(sender, deposit, tolerance, receiver, next, sent, passed)
  <2>1. PICK deposit, kept : /\ Begin /\ sent <= held["native"][sender]
                             /\ held' = WithFunds(sender, sent)
                             /\ SendLast(TransferFrom(sender, deposit["fury"]), kept)
    BY <1>2 DEF ProvideLiquidityThrough, SendSub
  <2>2. TransferFrom(sender, deposit["fury"]).owner = sender
    BY DEF TransferFrom
  <2> QED BY <1>1, <2>1, <2>2, BeginKeeps
<1>3. CASE \E n : ProvideNativeForReward(sender, n, None, sent)
  <2>1. PICK n, kept : /\ Begin /\ sent <= held["native"][sender]
                       /\ held' = WithFunds(sender, sent)
                       /\ SendLast(TransferFrom(NativeRewardWallet, NativeReward(n)), kept)
    BY <1>3 DEF ProvideNativeForReward, SendSub
  <2>2. TransferFrom(NativeRewardWallet, NativeReward(n)).owner = NativeRewardWallet
    BY DEF TransferFrom
  <2> QED BY <1>1, <2>1, <2>2, BeginKeeps
<1>4. CASE \E n, belief, spread : SwapNativeForFury(sender, n, belief, spread, sent)
  <2>1. PICK n, belief, spread : /\ Begin /\ sent <= held["native"][sender]
                                 /\ held' = WithFunds(sender, sent)
                                 /\ SendLast(SwapNative(n, belief, spread, sender), details)
    BY <1>4 DEF SwapNativeForFury
  <2>2. SwapNative(n, belief, spread, sender).kind = "Swap"
    BY DEF SwapNative
  <2> QED BY <2>1, <2>2, BeginKeeps
<1> QED BY <1>2, <1>3, <1>4

(* Between transactions PairInv says nothing. *)
LEMMA OutsideKeeps ==
  ASSUME pending' = Outside
  PROVE  PairInv'
BY DEF PairInv, Outside, NoMessage, Message, Idle

(* A message has been executed. *)
LEMMA ExecutedKeeps ==
  ASSUME Executed, Noted => SamePools(before.held, held')
  PROVE  PairInv'
<1>1. /\ pending' = [pending EXCEPT !.message = NoMessage]
      /\ details' = details /\ before' = before
  BY DEF Executed
<1>2. Message' = NoMessage /\ Noted' = Noted
  BY <1>1 DEF Message, Noted
<1> QED BY <1>1, <1>2 DEF PairInv, NoMessage

LEMMA TransferKeeps ==
  ASSUME RewardInv, PairInv, ExecuteTransferFrom
  PROVE  PairInv' /\ ShareValueKept(held, held')
<1>1. PICK owner, n : /\ owner = Message.owner /\ n = Message.amount
  OBVIOUS
<1>2. /\ ~ Idle /\ Message.kind = "TransferFrom" /\ n <= held["fury"][owner]
      /\ held' = Given(held, "fury", owner, ProxyContract, n) /\ Executed
  BY <1>1 DEF ExecuteTransferFrom, MessageSent, CanTransferFrom
<1>3. owner \in Parties \ {PairContract} /\ n \in Nat
  BY <1>1, <1>2 DEF RewardInv, MessageOK, PairInv
<1>4. /\ held \in Holdings /\ "fury" \in Assets
      /\ ProxyContract \in Parties \ {PairContract}
  BY StoredTypes, NamedParties, KindsOfAssets
<1>5. held' \in Holdings /\ SamePools(held, held')
  BY <1>2, <1>3, <1>4, GivenPools
<1>6. SamePools(before.held, held)
  BY <1>2 DEF PairInv, NoMessage
<1>7. PairInv'
  BY <1>2, <1>5, <1>6, SamePoolsAgain, ExecutedKeeps
<1> QED BY <1>4, <1>5, <1>7, SamePoolsKeepValue

LEMMA AllowKeeps ==
  ASSUME RewardInv, PairInv, ExecuteIncreaseAllowance
  PROVE  PairInv' /\ ShareValueKept(held, held')
<1>1. ~ Idle /\ Executed /\ held' = held
  BY DEF ExecuteIncreaseAllowance, MessageSent
<1>2. PairInv'
  BY <1>1, ExecutedKeeps DEF PairInv
<1> QED BY <1>1, <1>2, SameHoldings

LEMMA DepositKeeps ==
  ASSUME ChainInv, RewardInv, ExecuteProvideLiquidity
  PROVE  PairInv' /\ ShareValueKept(held, held')
<1>1. PICK deposit, receiver : deposit = Message.deposit /\ receiver = Message.receiver
  OBVIOUS
<1>2. /\ ~ Idle /\ Message.kind = "ProvideLiquidity"
      /\ CanProvide(held, pairAllowed, deposit, Message.funds, Message.tolerance)
      /\ held' = Provided(held, deposit, receiver) /\ Executed
  BY <1>1 DEF ExecuteProvideLiquidity, MessageSent, CanProvideNow
<1>3. deposit \in Deposit /\ receiver \in Parties /\ held \in Holdings
  BY <1>1, <1>2, StoredTypes DEF RewardInv, MessageOK
<1>4. ~ Noted
  BY <1>2 DEF ChainInv, Underway, Providing, Noted, NoMessage
<1>5. PairInv'
  BY <1>2, <1>4, ExecutedKeeps
<1>6. ShareValueKept(held, Provided(held, deposit, receiver))
  BY <1>2, <1>3, ProvideKeepsValue
<1> QED BY <1>2, <1>5, <1>6

(* An offer that is on its way to the pool is swapped there.                *)
LEMMA OfferKeeps ==
  ASSUME NEW h \in Holdings, NEW f \in Holdings, SamePools(h, f), NEW offer \in Assets,
         NEW from \in Parties \ {PairContract}, NEW n \in Nat, n <= f[offer][from],
         NEW belief, NEW spread, NEW to \in Parties \ {PairContract},
         CanSwap(Given(f, offer, from, PairContract, n), offer, n, belief, spread),
         Pool(Swapped(Given(f, offer, from, PairContract, n), offer, n, to), offer) <= Fraction
  PROVE  ShareValueKept(h, Swapped(Given(f, offer, from, PairContract, n), offer, n, to))
<1>1. PICK g : g = Given(f, offer, from, PairContract, n)
  OBVIOUS
<1>2. /\ g \in Holdings /\ TotalShare(g) = TotalShare(f) /\ Pool(g, offer) = Pool(f, offer) + n
      /\ \A b \in Assets \ {offer} : Pool(g, b) = Pool(f, b)
  BY <1>1, PaidIn
<1>3. Other(offer) \in Assets \ {offer}
  BY KindsOfAssets
<1>4. /\ TotalShare(f) = TotalShare(h) /\ \A a \in Assets : Pool(f, a) = Pool(h, a)
  BY DEF SamePools, TotalShare
<1>5. /\ TotalShare(g) = TotalShare(h) /\ Pool(g, offer) = Pool(h, offer) + n
      /\ Pool(g, Other(offer)) = Pool(h, Other(offer))
  BY <1>2, <1>3, <1>4
<1> QED BY <1>1, <1>2, <1>5, SwapKeepsValue

LEMMA SwapKeeps ==
  ASSUME ChainInv, RewardInv, ExecuteSwap, PoolsWithin'
  PROVE  PairInv' /\ ShareValueKept(held, held')
<1>1. PICK n, to : n = Message.amount /\ to = Message.to
  OBVIOUS
<1>2. PICK belief, spread : belief = Message.belief /\ spread = Message.spread
  OBVIOUS
<1>3. PICK offered : offered = Given(held, "native", ProxyContract, PairContract, n)
  OBVIOUS
<1>4. /\ ~ Idle /\ Message.kind = "Swap" /\ n <= held["native"][ProxyContract]
      /\ CanSwap(offered, "native", n, belief, spread)
      /\ held' = Swapped(offered, "native", n, to) /\ Executed
  BY <1>1, <1>2, <1>3 DEF ExecuteSwap, MessageSent, CanSwapNow, Offered
<1>5. n \in Nat /\ to \in Parties \ {PairContract}
  BY <1>1, <1>4, NamedParties DEF RewardInv, MessageOK
<1>6. held \in Holdings /\ ProxyContract \in Parties \ {PairContract} /\ "native" \in Assets
  BY StoredTypes, NamedParties, KindsOfAssets
<1>7. ~ Noted
  BY <1>4 DEF ChainInv, Underway, Swapping, Noted, NoMessage
<1>8. PairInv'
  BY <1>4, <1>7, ExecutedKeeps
<1>9. Pool(held', "native") <= Fraction
  BY <1>6 DEF PoolsWithin
<1>10. SamePools(held, held)
  BY DEF SamePools
<1>11. ShareValueKept(held, Swapped(offered, "native", n, to))
  BY <1>3, <1>4, <1>5, <1>6, <1>9, <1>10, OfferKeeps
<1> QED BY <1>4, <1>8, <1>11

LEMMA UndoneKeeps ==
  ASSUME RewardInv, PairInv, ~ Idle, Rollback, Noted \/ Message # NoMessage
  PROVE  PairInv' /\ ShareValueKept(held, held')
<1>1. held' = before.held /\ pending' = Outside
  BY DEF Rollback, End
<1>2. held \in Holdings /\ before.held \in Holdings
  BY StoredTypes DEF RewardInv, BeforeOK
<1>3. SamePools(before.held, held)
  BY DEF PairInv
<1>4. SamePools(held, before.held)
  BY <1>3 DEF SamePools
<1> QED BY <1>1, <1>2, <1>4, OutsideKeeps, SamePoolsKeepValue

(* A reply that goes on with the transaction. *)
LEMMA ReplyKeeps ==
  ASSUME RewardInv, PairInv, ReplyFetchReward \/ ReplyIncreaseAllowance \/ ReplyProvideLiquidity
  PROVE  PairInv' /\ ShareValueKept(held, held')
<1>1. PICK message, kept :
        /\ ~ Idle /\ Noted /\ held' = held /\ before' = before
        /\ SendLast(message, kept)
        /\ message.kind = "TransferFrom" => message.owner = PairRewardWallet
  BY DEF ReplyFetchReward, ReplyIncreaseAllowance, ReplyProvideLiquidity, RepliedFor, Replied,
         SendSub, TransferFrom, IncreaseAllowance, ToPair
<1>2. Message' = message
  BY <1>1 DEF SendLast, Message
<1>3. SamePools(before.held, held)
  BY <1>1 DEF PairInv
<1>4. SamePools(before'.held, held')
  BY <1>1, <1>3
<1>5. PairInv'
  BY <1>1, <1>2, <1>4, NamedParties DEF PairInv
<1> QED BY <1>1, <1>5, SameHoldings

LEMMA ReceiverKeeps ==
  ASSUME RewardInv, ReplyTransferToReceiver
  PROVE  PairInv' /\ ShareValueKept(held, held')
<1>1. PICK to, n : to = Then.receiver /\ n = Then.funds
  OBVIOUS
<1>2. /\ Noted /\ Then.next = "TransferToNativeInvestmentReceiveWallet"
      /\ held' = Given(held, "native", ProxyContract, to, n) /\ pending' = Outside
  BY <1>1 DEF ReplyTransferToReceiver, RepliedFor, End
<1>3. to \in Parties /\ n \in Nat /\ n <= held["native"][ProxyContract]
  BY <1>1, <1>2, NotedTypes DEF RewardInv, ReceiverIsFunded
<1>4. held \in Holdings /\ ProxyContract \in Parties \ {PairContract} /\ "native" \in Assets
  BY StoredTypes, NamedParties, KindsOfAssets
<1>5. CASE to = PairContract
  BY <1>2, <1>3, <1>4, <1>5, GiftKeepsValue, OutsideKeeps
<1>6. CASE to # PairContract
  <2>1. held' \in Holdings /\ SamePools(held, held')
    BY <1>2, <1>3, <1>4, <1>6, GivenPools
  <2> QED BY <1>2, <1>4, <2>1, SamePoolsKeepValue, OutsideKeeps
<1> QED BY <1>5, <1>6

-----------------------------------------------------------------------------
LEMMA WholeKeeps ==
  ASSUME ChainInv, RewardInv, Whole
  PROVE  PairInv'
<1>1. pending' = Outside
  BY AtStart DEF Whole
<1> QED BY <1>1, OutsideKeeps

LEMMA CallSwaps ==
  ASSUME RewardInv, NEW sender \in Callers, NEW n \in Nat, NEW sent \in Nat,
         NEW belief, NEW spread, PoolsWithin',
         \/ SwapFuryForNative(sender, n, belief, spread, sent)
         \/ SendFuryToPair(sender, n, belief, spread)
  PROVE  ShareValueKept(held, held')
<1>1. /\ held \in Holdings /\ sender \in Parties \ {PairContract} /\ "native" \in Assets
      /\ "fury" \in Assets /\ ProxyContract \in Parties \ {PairContract}
  BY StoredTypes, NamedParties, KindsOfAssets
<1>2. PICK f : /\ f \in Holdings /\ SamePools(held, f) /\ n <= f["fury"][sender]
               /\ CanSwap(Given(f, "fury", sender, PairContract, n), "fury", n, belief, spread)
               /\ held' = Swapped(Given(f, "fury", sender, PairContract, n), "fury", n, sender)
  <2>1. CASE SwapFuryForNative(sender, n, belief, spread, sent)
    <3> DEFINE f == WithFunds(sender, sent)
    <3>1. /\ sent <= held["native"][sender] /\ n <= held["fury"][sender]
          /\ CanSwap(Given(f, "fury", sender, PairContract, n), "fury", n, belief, spread)
          /\ held' = Swapped(Given(f, "fury", sender, PairContract, n), "fury", n, sender)
      BY <2>1 DEF SwapFuryForNative
    <3>2. f \in Holdings /\ SamePools(held, f)
      BY <1>1, <3>1, GivenPools DEF WithFunds
    <3>3. f["fury"] = held["fury"]
      BY <3>1, FundsEffect
    <3> HIDE DEF f
    <3>4. n <= f["fury"][sender]
      BY <3>1, <3>3
    <3> QED BY <3>1, <3>2, <3>4
  <2>2. CASE SendFuryToPair(sender, n, belief, spread)
    <3>1. /\ n <= held["fury"][sender]
          /\ CanSwap(Given(held, "fury", sender, PairContract, n), "fury", n, belief, spread)
          /\ held' = Swapped(Given(held, "fury", sender, PairContract, n), "fury", n, sender)
      BY <2>2 DEF SendFuryToPair
    <3>2. SamePools(held, held)
      BY DEF SamePools
    <3> QED BY <1>1, <3>1, <3>2
  <2> QED BY <2>1, <2>2
<1>3. Pool(held', "fury") <= Fraction
  BY <1>1 DEF PoolsWithin
<1> DEFINE g == Given(f, "fury", sender, PairContract, n)
<1>4. /\ CanSwap(g, "fury", n, belief, spread) /\ held' = Swapped(g, "fury", n, sender)
      /\ Pool(Swapped(g, "fury", n, sender), "fury") <= Fraction
  BY <1>2, <1>3
<1>5. ShareValueKept(held, Swapped(g, "fury", n, sender))
  <2>1. f \in Holdings /\ SamePools(held, f) /\ n <= f["fury"][sender]
    BY <1>2
  <2> QED BY <1>1, <1>4, <2>1, OfferKeeps
<1> HIDE DEF g
<1> QED BY <1>4, <1>5

(* Shares that pass from one to another are as many as before.              *)
LEMMA SharesPassed ==
  ASSUME NEW h \in Holdings, NEW g \in Holdings, NEW from \in Parties, NEW to \in Parties,
         from # to, NEW n \in Nat, n <= h["lp"][from],
         \A p \in Parties : g["lp"][p]
           = h["lp"][p] - (IF p = from THEN n ELSE 0) + (IF p = to THEN n ELSE 0)
  PROVE  TotalShare(g) = TotalShare(h)
<1>1. PICK e, k : e = h["lp"] /\ k = g["lp"]
  OBVIOUS
<1>2. \A p \in Parties : e[p] \in Int /\ k[p] \in Int
  <2>1. e \in [Parties -> Nat] /\ k \in [Parties -> Nat]
    BY <1>1, HeldTypes, KindsOfAssets
  <2> QED BY <2>1
<1>3. IsFiniteSet(Parties)
  BY PairAssumption DEF PairAssumption
<1>4. \A p \in Parties : k[p] = e[p] - (IF p = from THEN n ELSE 0) + (IF p = to THEN n ELSE 0)
  BY <1>1
<1>5. n \in Int
  OBVIOUS
<1>6. PICK f : f = [p \in Parties |-> IF p = from THEN e[p] - n ELSE e[p]]
  OBVIOUS
<1>7. \A p \in Parties : e[p] \in Int /\ f[p] \in Int
  BY <1>2, <1>5, <1>6
<1>8. \A p \in Parties : f[p] \in Int /\ k[p] \in Int
  BY <1>2, <1>7
<1>9. f[from] = e[from] - n /\ \A p \in Parties \ {from} : e[p] = f[p]
  BY <1>6
<1>10. k[to] = f[to] + n /\ \A p \in Parties \ {to} : f[p] = k[p]
  BY <1>2, <1>4, <1>5, <1>6
<1>11. SumFunctionOnSet(f, Parties) = SumFunctionOnSet(e, Parties) + (f[from] - e[from])
  <2>1. DifferAt(Parties, e, f, from)
    BY <1>7, <1>9 DEF DifferAt
  <2> QED BY <1>3, <2>1, SumDiffers
<1>12. SumFunctionOnSet(k, Parties) = SumFunctionOnSet(f, Parties) + (k[to] - f[to])
  <2>1. DifferAt(Parties, f, k, to)
    BY <1>8, <1>10 DEF DifferAt
  <2> QED BY <1>3, <2>1, SumDiffers
<1>13. SumFunctionOnSet(e, Parties) \in Int /\ SumFunctionOnSet(f, Parties) \in Int
  BY <1>3, <1>7, SumInt
<1>14. SumFunctionOnSet(k, Parties) = SumFunctionOnSet(e, Parties)
  BY <1>5, <1>7, <1>8, <1>9, <1>10, <1>11, <1>12, <1>13
<1> QED BY <1>1, <1>14 DEF TotalShare

LEMMA CallWithdraws ==
  ASSUME RewardInv, NEW sender \in Callers, NEW n \in Nat,
         WithdrawThroughProxy(sender, n) \/ SendSharesToPair(sender, n)
  PROVE  ShareValueKept(held, held')
<1> DEFINE shares == Given(held, "lp", sender, PairContract, n)
<1>1. PICK to \in {ProxyContract, sender} :
        n <= held["lp"][sender] /\ CanWithdraw(shares, n) /\ held' = Withdrawn(shares, to, n)
  BY DEF WithdrawThroughProxy, SendSharesToPair
<1>2. /\ held \in Holdings /\ sender \in Parties \ {PairContract}
      /\ to \in Parties \ {PairContract} /\ PairContract \in Parties
      /\ "lp" \in Kinds /\ Assets \subseteq Kinds \ {"lp"}
  BY StoredTypes, NamedParties, KindsOfAssets DEF Assets
<1>3. /\ shares \in Holdings /\ \A k \in Kinds \ {"lp"} : shares[k] = held[k]
      /\ \A p \in Parties : shares["lp"][p]
           = held["lp"][p] - (IF p = sender THEN n ELSE 0) + (IF p = PairContract THEN n ELSE 0)
  BY <1>1, <1>2, GivenEffect
<1> HIDE DEF shares
<1>4. \A a \in Assets : Pool(shares, a) = Pool(held, a)
  BY <1>2, <1>3 DEF Pool
<1>5. TotalShare(shares) = TotalShare(held)
  BY <1>1, <1>2, <1>3, SharesPassed
<1>6. n <= shares["lp"][PairContract]
  <2>1. held["lp"][PairContract] \in Nat
    BY <1>2, HeldTypes
  <2> QED BY <1>2, <1>3, <2>1
<1> QED BY <1>1, <1>2, <1>3, <1>4, <1>5, <1>6, WithdrawKeepsValue

LEMMA CallGives ==
  ASSUME RewardInv, NEW sender \in Callers, NEW n \in Nat, NEW asset \in Assets,
         GiveToPair(sender, asset, n)
  PROVE  ShareValueKept(held, held')
<1>1. /\ n <= held[asset][sender] /\ held' = Given(held, asset, sender, PairContract, n)
      /\ sender \in Parties \ {PairContract} /\ held \in Holdings
  BY NamedParties, StoredTypes DEF GiveToPair
<1> QED BY <1>1, GiftKeepsValue

LEMMA CallClaims ==
  ASSUME RewardInv, NEW sender \in Callers, NEW n \in Nat, NEW sent \in Nat,
         RewardClaim(sender, n, sent)
  PROVE  ShareValueKept(held, held')
<1> DEFINE f == WithFunds(sender, sent)
<1>1. /\ sent <= held["native"][sender] /\ n <= held["fury"][ProxyContract]
      /\ held' = Given(f, "fury", ProxyContract, sender, n)
  BY DEF RewardClaim
<1>2. /\ held \in Holdings /\ sender \in Parties \ {PairContract} /\ "native" \in Assets
      /\ "fury" \in Assets /\ ProxyContract \in Parties \ {PairContract}
  BY StoredTypes, NamedParties, KindsOfAssets
<1>3. f \in Holdings /\ SamePools(held, f)
  BY <1>1, <1>2, GivenPools DEF WithFunds
<1>4. n <= f["fury"][ProxyContract]
  <2>1. f["fury"] = held["fury"]
    BY <1>1, FundsEffect
  <2> HIDE DEF f
  <2> QED BY <1>1, <2>1
<1> HIDE DEF f
<1>5. held' \in Holdings /\ SamePools(f, held')
  BY <1>1, <1>2, <1>3, <1>4, GivenPools
<1>6. SamePools(held, held')
  BY <1>3, <1>5, SamePoolsAgain
<1> QED BY <1>2, <1>5, <1>6, SamePoolsKeepValue

LEMMA CallKeeps ==
  ASSUME ChainInv, RewardInv, PoolsWithin', NEW sender \in Callers, Call(sender)
  PROVE  PairInv' /\ ShareValueKept(held, held')
<1>1. Amounts \subseteq Nat /\ Sent \subseteq Nat
  BY InputTypes
<1>2. CASE \E deposit \in Deposits, tolerance \in Tolerances, sent \in Sent :
             \/ ProvideLiquidity(sender, deposit, tolerance, sent)
             \/ ProvidePairForReward(sender, deposit, tolerance, sent)
  BY <1>1, <1>2, CallBegins DEF ProvideLiquidity, ProvidePairForReward
<1>3. CASE \E n \in Amounts, sent \in Sent : ProvideNativeForReward(sender, n, None, sent)
  BY <1>1, <1>3, CallBegins
<1>4. CASE \E n \in Amounts, sent \in Sent, belief \in Beliefs, spread \in Spreads :
             SwapNativeForFury(sender, n, belief, spread, sent)
  BY <1>1, <1>4, CallBegins
<1>5. CASE \E n \in Amounts, sent \in Sent : RewardClaim(sender, n, sent)
  <2>1. Whole
    BY <1>5 DEF RewardClaim
  <2> QED BY <1>1, <1>5, <2>1, CallClaims, WholeKeeps
<1>6. CASE \E n \in Amounts, sent \in Sent, belief \in Beliefs, spread \in Spreads :
             SwapFuryForNative(sender, n, belief, spread, sent)
  <2>1. Whole
    BY <1>6 DEF SwapFuryForNative
  <2> QED BY <1>1, <1>6, <2>1, CallSwaps, WholeKeeps
<1>7. CASE \E n \in Amounts : WithdrawThroughProxy(sender, n)
  <2>1. Whole
    BY <1>7 DEF WithdrawThroughProxy
  <2> QED BY <1>1, <1>7, <2>1, CallWithdraws, WholeKeeps
<1> QED BY <1>2, <1>3, <1>4, <1>5, <1>6, <1>7 DEF Call

LEMMA PairCallKeeps ==
  ASSUME ChainInv, RewardInv, PoolsWithin', NEW sender \in Callers, PairCall(sender)
  PROVE  PairInv' /\ ShareValueKept(held, held')
<1>1. Amounts \subseteq Nat /\ 0 \in Nat
  BY InputTypes
<1>2. Whole
  BY DEF PairCall, SendFuryToPair, SendSharesToPair, GiveToPair
<1>3. CASE \E n \in Amounts, belief \in Beliefs, spread \in Spreads :
             SendFuryToPair(sender, n, belief, spread)
  BY <1>1, <1>2, <1>3, CallSwaps, WholeKeeps
<1>4. CASE \E n \in Amounts : SendSharesToPair(sender, n)
  BY <1>1, <1>2, <1>4, CallWithdraws, WholeKeeps
<1>5. CASE \E n \in Amounts, asset \in Assets : GiveToPair(sender, asset, n)
  BY <1>1, <1>2, <1>5, CallGives, WholeKeeps
<1> QED BY <1>3, <1>4, <1>5 DEF PairCall

LEMMA RestKeeps ==
  ASSUME RewardInv, PairInv,
         ReplyNothingLeft \/ SomeConfiguration \/ Tick
           \/ UNCHANGED proxyVars
  PROVE  PairInv' /\ ShareValueKept(held, held')
<1>1. held' = held
  BY DEF ReplyNothingLeft, SomeConfiguration, Configure, Tick, proxyVars, stored
<1>2. ASSUME ReplyNothingLeft PROVE PairInv'
  BY <1>2, OutsideKeeps DEF ReplyNothingLeft, End
<1>3. ASSUME SomeConfiguration \/ Tick \/ UNCHANGED proxyVars
      PROVE  PairInv'
  <2>1. pending' = pending /\ details' = details /\ before' = before
    BY <1>3 DEF SomeConfiguration, Configure, Tick, proxyVars, stored
  <2>2. Message' = Message /\ Noted' = Noted /\ Idle' = Idle
    BY <2>1 DEF Message, Noted, Idle
  <2>3. PairInv'
    BY <1>1, <2>1, <2>2 DEF PairInv
  <2> QED BY <2>3
<1>4. PairInv'
  BY <1>2, <1>3
<1> QED BY <1>1, <1>4, SameHoldings

LEMMA NextKeeps ==
  ASSUME ChainInv, RewardInv, PairInv, PoolsWithin', [ProxyNext]_proxyVars
  PROVE  PairInv' /\ ShareValueKept(held, held')
<1>1. CASE \E sender \in Callers : Call(sender) \/ PairCall(sender)
  BY <1>1, CallKeeps, PairCallKeeps
<1>2. CASE ReplyNothingLeft \/ SomeConfiguration \/ Tick
             \/ UNCHANGED proxyVars
  BY <1>2, RestKeeps
<1>3. CASE MessageRefused \/ ReplyTooManyBonds
  <2>1. ~ Idle /\ Rollback /\ (Noted \/ Message # NoMessage)
    BY <1>3 DEF MessageRefused, MessageSent, ReplyTooManyBonds, RepliedFor, Replied, NoMessage
  <2> QED BY <2>1, UndoneKeeps
<1>4. CASE ExecuteMessage /\ ~ MessageRefused
  BY <1>4, TransferKeeps, AllowKeeps, DepositKeeps, SwapKeeps DEF ExecuteMessage
<1>5. CASE \/ ReplyFetchReward \/ ReplyIncreaseAllowance \/ ReplyProvideLiquidity
           \/ ReplyTransferToReceiver
  BY <1>5, ReplyKeeps, ReceiverKeeps
<1> QED BY <1>1, <1>2, <1>3, <1>4, <1>5 DEF ProxyNext, SomeConfiguration, ExecuteMessage, Reply

(* A share is never worth less afterwards, in whatever order the messages    *)
(* of deposits, swaps, withdrawals and gifts come and are refused, as long   *)
(* as no pool outgrows the unit of the decimals: beyond it what a swap       *)
(* rounds away can be more than a token.                                    *)
THEOREM ShareValueIsKept == ProxySpec /\ []PoolsWithin => ShareValueNeverFalls
<1>1. ProxyInit => PairInv
  BY DEF ProxyInit, PairInv, Outside, NoMessage, Message, Idle
<1>2. ChainInv /\ RewardInv /\ PairInv /\ PoolsWithin' /\ [ProxyNext]_proxyVars => PairInv'
  BY NextKeeps
<1> DEFINE Kept ==
      TotalShare(held) > 0 /\ TotalShare(held') > 0 =>
        Pool(held', "native") * Pool(held', "fury") * TotalShare(held) * TotalShare(held)
          >= Pool(held, "native") * Pool(held, "fury") * TotalShare(held') * TotalShare(held')
<1>3. ChainInv /\ RewardInv /\ PairInv /\ PoolsWithin' /\ [ProxyNext]_proxyVars => [Kept]_proxyVars
  BY NextKeeps DEF ShareValueKept
<1> HIDE DEF Kept
<1>4. ProxySpec /\ []PoolsWithin => [][Kept]_proxyVars
  BY <1>1, <1>2, <1>3, RewardInvariance, PTL DEF ProxySpec
<1> QED BY <1>4 DEF ShareValueNeverFalls, Kept
=============================================================================
