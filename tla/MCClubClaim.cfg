\* A staker is paid a pending reward that stays pending.
CHECK_DEADLOCK FALSE
SPECIFICATION StakersSpec
CONSTANTS
  u1 = u1
  u2 = u2
  NumClubs = 1
  Users = {u1, u2}
  Admin = admin
  NoUser = NoUser
  NoClub = NoClub
  NoStake = NoStake
  MaxBondingLimit = 1
  BondingDuration = 0
  OwnerReleaseLock = 0
  RewardPeriodicity = 1
  FirstRewardTime = 1
  ClubBuyingReward = 0
  MaxUfuryCount = 1000
  StakeAmounts = {1}
  WithdrawAmounts = {1, 30}
  RewardAmounts = {100}
  Batches <- AnyBatches
  StakerLists <- TwoLists
  MaxRounds = 2
  MaxTime = 3
  MaxStake = 2
  MaxAmount = 1000
PROPERTIES
  PayoutsSettleDebts
