\* Purchases, assignments, releases and owner rewards; nobody stakes.
\* It begins with no club sold, or after both were sold and a reward was paid.
SPECIFICATION OwnershipSpec
CONSTANTS
  u1 = u1
  u2 = u2
  NumClubs = 2
  Users = {u1, u2}
  Admin = admin
  NoUser = NoUser
  NoClub = NoClub
  NoStake = NoStake
  MaxBondingLimit = 0
  BondingDuration = 1
  OwnerReleaseLock = 1
  RewardPeriodicity = 1
  FirstRewardTime = 0
  ClubBuyingReward = 1
  MaxUfuryCount = 10
  StakeAmounts = {}
  WithdrawAmounts = {}
  RewardAmounts = {2}
  Batches <- NoBatches
  MaxTime = 3
  MaxStake = 0
  MaxAmount = 2
SYMMETRY UserSymmetry
INVARIANTS
  OneClubPerOwner
PROPERTIES
  SaleNeedsConsent
  OwnerDuesSurviveSales
