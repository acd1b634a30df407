SPECIFICATION Spec
CONSTANTS
  g1 = g1
  g2 = g2
  a = a
  Gamers = {g1, g2}
  Admin = admin
  PoolTypes = {t1, t2}
  NoType = NoType
  TeamIds = {a}
  MaxPools = 2
  MaxTeams = 2
  TypeInputs <- DuelsAndSingles
  Batches <- BothWinners
  SwapAmounts = {1}
  RakeAmounts = {2}
  SweepAmounts = {1}
  Gains = {1}
INVARIANTS
  OpenGameKeepsDeposits
  CancelledGameRefundsAll
  ShortPoolsAreRefunded
  PoolWithinType
  QueriesAgree
PROPERTIES
  ClaimsSettleRewards
  KeepsPromise
CHECK_DEADLOCK FALSE
