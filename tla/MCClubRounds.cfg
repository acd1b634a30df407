SPECIFICATION RoundsSpec
CONSTANTS
  u1 = u1
  u2 = u2
  NumClubs = 2
  Users = {u1, u2}
  Admin = admin
  NoUser = NoUser
  NoClub = NoClub
  NoStake = NoStake
  MaxBondingLimit = 1
  BondingDuration = 0
  OwnerReleaseLock = 0
  RewardPeriodicity = 2
  FirstRewardTime = 1
  ClubBuyingReward = 0
  MaxUfuryCount = 1000000
  StakeAmounts = {1}
  WithdrawAmounts = {}
  RewardAmounts = {10}
  Batches <- AnyBatches
  StakerLists <- OneList
  MaxRounds = 2
  MaxTime = 3
  MaxStake = 2
  MaxAmount = 1000000
INVARIANTS
  BestClubsWin
PROPERTIES
  RoundCloses
CHECK_DEADLOCK FALSE
