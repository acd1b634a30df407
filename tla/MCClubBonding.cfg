SPECIFICATION Spec
CONSTANTS
  u1 = u1
  u2 = u2
  NumClubs = 1
  Users = {u1, u2}
  Admin = admin
  NoUser = NoUser
  NoClub = NoClub
  NoStake = NoStake
  MaxBondingLimit = 2
  BondingDuration = 0
  OwnerReleaseLock = 1
  RewardPeriodicity = 2
  FirstRewardTime = 9
  ClubBuyingReward = 0
  MaxUfuryCount = 10
  StakeAmounts = {2}
  WithdrawAmounts = {1, 2}
  RewardAmounts = {}
  Batches <- NoBatches
  MaxTime = 3
  MaxStake = 2
  MaxAmount = 8
SYMMETRY UserSymmetry
PROPERTIES
  BondingPeriodIsServed
  PayoutsSettleDebts
