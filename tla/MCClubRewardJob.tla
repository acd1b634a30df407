--------------------------- MODULE MCClubRewardJob ---------------------------
(***************************************************************************)
(* Inputs for model-checking the reward job, and the job restricted to     *)
(* wallets that own the clubs already and only stake.                      *)
(***************************************************************************)
EXTENDS ClubRewardJob, MCClubStaking

TwoLists == <<<<u1>>, <<u2>>>>
OneList == <<<<u1, u2>>>>

StakersInit == OwnedInit /\ todo = <<>> /\ rounds = 0 /\ paid = 0

StakersNext ==
  \/ StartRound
  \/ PayNextBatch
  \/ CallTooEarly
  \/ /\ (\E sender \in Users : StakerCall(sender)) \/ Tick
     /\ UNCHANGED jobVars

StakersSpec == StakersInit /\ [][StakersNext]_allVars
=============================================================================
