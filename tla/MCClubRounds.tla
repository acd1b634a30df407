---------------------------- MODULE MCClubRounds ----------------------------
(***************************************************************************)
(* The rounds of the reward job, interrupted and run again, while wallets  *)
(* trade the clubs, on which nobody stakes, or stake on clubs that stay    *)
(* with their owners.                                                      *)
(***************************************************************************)
EXTENDS MCClubRewardJob

VARIABLE trade   \* what the wallets of this behaviour do

RoundsInit ==
  \/ trade = TRUE /\ JobInit
  \/ trade = FALSE /\ StakersInit

WalletTurn ==
  /\ \/ trade /\ \E sender \in Accounts : OwnerCall(sender)
     \/ ~ trade /\ \E sender \in Users : StakerCall(sender)
     \/ Tick
  /\ UNCHANGED jobVars

RoundsNext ==
  /\ StartRound \/ PayNextBatch \/ CallTooEarly \/ JobCrash \/ WalletTurn
  /\ UNCHANGED trade

RoundsSpec ==
  /\ RoundsInit
  /\ [][RoundsNext]_<<allVars, trade>>
  /\ WF_allVars(PayNextBatch)
=============================================================================
