SPECIFICATION StakersSpec
CONSTANTS
  u1 = u1
  u2 = u2
  NumClubs = 1
  Users = {u1, u2}
  Admin = admin
  NoUser = NoUser
  NoClub = NoClub
  NoStake = NoStake
  MaxBondingLimit = 1
  BondingDuration = 0
  OwnerReleaseLock = 0
  RewardPeriodicity = 2
  FirstRewardTime = 1
  ClubBuyingReward = 0
  MaxUfuryCount = 1000
  StakeAmounts = {1}
  WithdrawAmounts = {1, 30}
  RewardAmounts = {100}
  Batches <- AnyBatches
  StakerLists <- TwoLists
  MaxRounds = 2
  MaxTime = 3
  MaxStake = 2
  MaxAmount = 1000
\* The run stops where the bounds on time, rounds and stakes are reached.
CHECK_DEADLOCK FALSE
INVARIANTS
  BondsHaveStake
  TotalNeverOverstates
PROPERTIES
  HoldingsNeverVanish
  PoolLosesOnlyWhatIsPaid
