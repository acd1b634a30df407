SPECIFICATION JobSpec
CONSTANTS
  w1 = w1
  w2 = w2
  w3 = w3
  Gamers = {w1, w2, w3, g1, g2}
  Admin = admin
  PoolTypes = {h2h}
  NoType = NoType
  TeamIds = {a, b}
  MaxPools = 1
  MaxTeams = 2
  TypeInputs <- TestTypes
  Batches <- NoBatches
  SwapAmounts = {}
  RakeAmounts = {}
  SweepAmounts = {}
  Gains = {2, 3}
  WalletLists <- TwoOrThree
  PoolType = h2h
  Details <- TestType
  TeamId = a
  Award = 1
  Reserve = 1
  SingleBatch = 2
  ChunkSize = 2
INVARIANTS
  FirstBatchIsAwarded

  
CHECK_DEADLOCK FALSE
