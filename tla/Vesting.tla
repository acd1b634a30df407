------------------------------- MODULE Vesting -------------------------------
(***************************************************************************)
(* The vest-n-distribute contract and the token it pays in.  Whoever has a *)
(* schedule is given a seed and then an amount per period, up to a total:  *)
(* either paid out at once from the tokens of the administrator, or moved  *)
(* to the contract and kept there until it is claimed.  The administrator  *)
(* starts both by a call; a call that comes late makes up for the periods  *)
(* that were missed.                                                       *)
(*                                                                         *)
(* A handler is one action together with the messages it sends to the      *)
(* token, which run in the same transaction and undo it if one is refused. *)
(* Messages with one owner and one recipient are taken together.           *)
(* HelloSub, which changes neither contract, is left out, and so is the    *)
(* time of the last claim, which nothing reads.                            *)
(***************************************************************************)
EXTENDS Cw20, FiniteSets, Functions

CONSTANTS
  VestingContract,    \* the address of the contract
  VestingAdmin,       \* config.admin_wallet
  CliffPeriodUnit,    \* CLIFF_PERIOD_UNIT
  ScheduleLists,      \* lists of schedules of instantiation and calls
  ClaimAmounts,       \* amounts of the claims
  NoVesting           \* no entry in VESTING_DETAILS

Schedule == [address : Accounts, initial : Nat, periodicity : Nat, perPeriod : Nat,
             total : Nat, cliff : Nat, hasParent : BOOLEAN, shouldTransfer : BOOLEAN]

VestingDetails ==
  [start : Nat, initial : Nat, consumed : Nat, periodicity : Nat, perPeriod : Nat,
   total : Nat, claimed : Nat, available : Nat, lastVesting : Nat \cup {NoTimestamp},
   cliff : Nat, hasParent : BOOLEAN, shouldTransfer : BOOLEAN]

ASSUME VestingAssumption ==
  /\ IsFiniteSet(Accounts)
  /\ VestingContract \in Accounts
  /\ VestingAdmin \in Accounts \ {VestingContract}
  /\ CliffPeriodUnit \in Nat
  /\ ScheduleLists \subseteq Seq(Schedule)
  /\ ClaimAmounts \subseteq Nat
  /\ NoVesting \notin VestingDetails

VARIABLES
  vesting,    \* VESTING_DETAILS
  paid        \* history: tokens an address was paid for its schedule

vestingVars == <<tokenVars, vesting, paid>>

Wallets == Accounts \ {VestingContract}

VestingTypeOK ==
  /\ vesting \in [Accounts -> VestingDetails \cup {NoVesting}]
  /\ paid \in [Accounts -> Nat]

(* A schedule starts when it is stored.                                     *)
Started(s) ==
  [start |-> block.time, initial |-> s.initial, consumed |-> 0,
   periodicity |-> s.periodicity, perPeriod |-> s.perPeriod, total |-> s.total,
   claimed |-> 0, available |-> 0, lastVesting |-> NoTimestamp, cliff |-> s.cliff,
   hasParent |-> s.hasParent, shouldTransfer |-> s.shouldTransfer]

ScheduleRows(list, a) == {i \in DOMAIN list : list[i].address = a}

(* Of several schedules of one address the last one is kept.                *)
WithSchedules(old, list) ==
  [a \in Accounts |->
     IF ScheduleRows(list, a) = {} THEN old[a]
     ELSE Started(list[CHOOSE i \in ScheduleRows(list, a) :
                         \A j \in ScheduleRows(list, a) : i >= j])]

VestingInit ==
  /\ TokenInit
  /\ \E list \in ScheduleLists : vesting = WithSchedules([a \in Accounts |-> NoVesting], list)
  /\ paid = [a \in Accounts |-> 0]

-----------------------------------------------------------------------------
(* calculate_tokens_for_this_period *)

CliffEnd(v) == v.start + v.cliff * CliffPeriodUnit
Intervals(v, t) == (t - CliffEnd(v)) \div v.periodicity

(* Mutant: the periods are counted from the start of the schedule each time. *)
AllIntervals(v) ==
  IF block.time < CliffEnd(v) THEN 0 ELSE Intervals(v, block.time)

NewIntervals(v) ==
  IF block.time < CliffEnd(v) THEN 0
  ELSE Intervals(v, block.time)
         - IF v.lastVesting = NoTimestamp THEN 0 ELSE Intervals(v, v.lastVesting)

Capped(n, limit) == IF n <= limit THEN n ELSE limit

(* The seed comes on top of what is capped.                                 *)
Due(v) ==
  Capped(v.perPeriod * NewIntervals(v), v.total - (v.claimed + v.available))
    + IF block.time < CliffEnd(v) THEN 0 ELSE v.initial - v.consumed

(* Those a call is for; one schedule without a period fails the whole call. *)
Listed(transfer) ==
  {a \in Accounts : vesting[a] # NoVesting /\ vesting[a].shouldTransfer = transfer}
Calculable(transfer) == \A a \in Listed(transfer) : vesting[a].periodicity > 0
Payees(transfer) == {a \in Listed(transfer) : Due(vesting[a]) > 0}

(* Mutant: the seeds are left out of the sum. *)
TotalDueWithoutSeeds(transfer) ==
  SumFunction([a \in Payees(transfer) |->
                 Due(vesting[a]) - (vesting[a].initial - vesting[a].consumed)])

TotalDue(transfer) == SumFunction([a \in Payees(transfer) |-> Due(vesting[a])])

-----------------------------------------------------------------------------
(* update_vesting_details *)

Vested(v) ==
  [v EXCEPT !.available = Capped(@ + Due(v), v.total - v.claimed),
            !.consumed = IF v.lastVesting = NoTimestamp THEN v.initial ELSE @,
            !.lastVesting = block.time]

(* Mutant: the payment that completes the total is not recorded. *)
TransferredBelowTotal(v) ==
  IF v.claimed + Due(v) < v.total
  THEN [v EXCEPT !.claimed = @ + Due(v), !.lastVesting = block.time, !.consumed = v.initial]
  ELSE [v EXCEPT !.consumed = v.initial]

(* A payment beyond the total, which a seed can cause, is not recorded.     *)
Transferred(v) ==
  IF v.claimed + Due(v) <= v.total
  THEN [v EXCEPT !.claimed = @ + Due(v), !.lastVesting = block.time, !.consumed = v.initial]
  ELSE [v EXCEPT !.consumed = v.initial]

(* The contract spends an allowance of the administrator; no payees, no     *)
(* message.                                                                 *)
SpendAdmins(n) ==
  IF n = 0 THEN UNCHANGED <<allowance, spent>>
  ELSE /\ MayDeduct(VestingAdmin, VestingContract, n)
       /\ allowance' = Deducted(VestingAdmin, VestingContract, n)
       /\ spent' = [spent EXCEPT ![VestingAdmin][VestingContract] = @ + n]

PeriodicallyCalculateVesting(sender) ==
  /\ sender = VestingAdmin
  /\ Calculable(FALSE)
  /\ TotalDue(FALSE) <= balance[VestingAdmin]
  /\ SpendAdmins(TotalDue(FALSE))
  /\ balance' = Moved(VestingAdmin, VestingContract, TotalDue(FALSE))
  /\ vesting' = [a \in Accounts |->
                   IF a \in Payees(FALSE) THEN Vested(vesting[a]) ELSE vesting[a]]
  /\ UNCHANGED paid

PeriodicallyTransferToCategories(sender) ==
  /\ sender = VestingAdmin
  /\ Calculable(TRUE)
  /\ TotalDue(TRUE) <= balance[VestingAdmin]
  /\ SpendAdmins(TotalDue(TRUE))
  /\ LET payment == [a \in Accounts |-> IF a \in Payees(TRUE) THEN Due(vesting[a]) ELSE 0]
     IN /\ balance' = [a \in Accounts |->
                         balance[a] + payment[a]
                           - IF a = VestingAdmin THEN TotalDue(TRUE) ELSE 0]
        /\ paid' = [a \in Accounts |-> paid[a] + payment[a]]
  /\ vesting' = [a \in Accounts |->
                   IF a \in Payees(TRUE) THEN Transferred(vesting[a]) ELSE vesting[a]]

(* Whoever has a parent category; the transfer is the contract's own.       *)
ClaimVestedTokens(sender, n) ==
  /\ vesting[sender] # NoVesting
  /\ vesting[sender].hasParent
  /\ n <= vesting[sender].available
  /\ vesting' = [vesting EXCEPT ![sender].claimed = @ + n, ![sender].available = @ - n]
  /\ Transfer(VestingContract, sender, n)
  /\ paid' = [paid EXCEPT ![sender] = @ + n]
  /\ UNCHANGED <<allowance, spent>>

(* Anyone may add schedules for addresses that have none.                   *)
AddVestingSchedules(sender, list) ==
  /\ \A i \in DOMAIN list : vesting[list[i].address] = NoVesting
  /\ \A i, j \in DOMAIN list : list[i].address = list[j].address => i = j
  /\ vesting' = WithSchedules(vesting, list)
  /\ UNCHANGED <<balance, allowance, spent, paid>>

VestingCall(sender) ==
  /\ \/ PeriodicallyCalculateVesting(sender)
     \/ PeriodicallyTransferToCategories(sender)
     \/ \E n \in ClaimAmounts : ClaimVestedTokens(sender, n)
     \/ \E list \in ScheduleLists : AddVestingSchedules(sender, list)
  /\ caller' = VestingContract
  /\ UNCHANGED <<block, supply, restriction, granted>>

VestingNext ==
  \/ \E sender \in Wallets : VestingCall(sender)
  \/ /\ NextBlock \/ \E sender \in Wallets : TokenCall(sender)
     /\ UNCHANGED <<vesting, paid>>

VestingSpec == VestingInit /\ [][VestingNext]_vestingVars

-----------------------------------------------------------------------------
(* Properties *)

Claimable(a) == vesting[a] # NoVesting /\ ~ vesting[a].shouldTransfer

(* "Total amount to be vested over period of time. This also includes the   *)
(* seed tokens" (state.rs:43): what a claimant has and had altogether is    *)
(* exactly the seed and the periods up to the last calculation, and no more *)
(* than the total, however irregular the calls and the claims are.          *)
VestedOnSchedule ==
  \A a \in Accounts : Claimable(a) =>
    LET v == vesting[a]
    IN v.claimed + v.available =
         IF v.lastVesting = NoTimestamp THEN 0
         ELSE Capped(v.initial + v.perPeriod * Intervals(v, v.lastVesting), v.total)

(* The contract holds what is available to its claimants, so that a claim   *)
(* is not refused for want of tokens.                                       *)
ClaimsAreFunded ==
  SumFunction([a \in {b \in Accounts : Claimable(b)} |-> vesting[a].available])
    <= balance[VestingContract]

(* Once its seed is paid, every payment to an address is recorded, so that  *)
(* it never gets more than its total from then on.  (The first payment may  *)
(* miss the record, see Transferred.)                                       *)
PaymentsAreRecorded ==
  [][\A a \in Accounts :
       vesting[a] # NoVesting /\ vesting[a].consumed = vesting[a].initial =>
         vesting'[a].claimed - vesting[a].claimed = paid'[a] - paid[a]]_vestingVars
=============================================================================
