------------------------------ MODULE MCVesting ------------------------------
(***************************************************************************)
(* Inputs for model-checking the vesting contract: the administrator, who  *)
(* holds the tokens and gives the contract an allowance, a claimant and a  *)
(* category that is paid at once.                                          *)
(***************************************************************************)
EXTENDS Vesting, TLC

CONSTANTS admin, claimant, category, contract

Rows(list) == [i \in DOMAIN list |-> [address |-> list[i][1], amount |-> list[i][2]]]
AdminHolds == {Rows(<< <<admin, 14>> >>)}

ClaimSchedule(seed, period, each, total, cliff) ==
  [address |-> claimant, initial |-> seed, periodicity |-> period, perPeriod |-> each,
   total |-> total, cliff |-> cliff, hasParent |-> TRUE, shouldTransfer |-> FALSE]

TransferSchedule(seed, period, each, total, cliff) ==
  [ClaimSchedule(seed, period, each, total, cliff)
     EXCEPT !.address = category, !.hasParent = FALSE, !.shouldTransfer = TRUE]

(* A seed, a cliff and a total that the last period exceeds; a period of    *)
(* two blocks; a schedule that is added later and has no period.            *)
Schedules ==
  { <<ClaimSchedule(1, 1, 2, 4, 1), TransferSchedule(1, 1, 2, 4, 0)>>,
    <<ClaimSchedule(0, 2, 1, 2, 0)>>,
    <<TransferSchedule(0, 0, 1, 1, 0)>> }

(* Of the token's calls those of the administrator, who grants allowances   *)
(* and takes them back, and moves or burns what was to be vested.           *)
AdminFundsNext ==
  \/ \E sender \in Wallets : VestingCall(sender)
  \/ /\ NextBlock \/ TokenCall(admin)
     /\ UNCHANGED <<vesting, paid>>

AdminFundsSpec == VestingInit /\ [][AdminFundsNext]_vestingVars
=============================================================================
