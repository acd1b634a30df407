SPECIFICATION WalletGrantsSpec
CONSTANTS
  minter = minter
  w1 = w1
  pool = pool
  Accounts = {minter, w1, pool}
  Minter = minter
  Cap = 2
  NoCap = NoCap
  InitialBalances <- TwoStarts
  NoAllowance = NoAllowance
  NoTimestamp = NoTimestamp
  Amounts = {1}
  Expiries <- HeightAndTime
  Timestamps = {2}
  Lists <- WalletAndPool
  MaxAmount = 2
  MaxHeight = 2
INVARIANTS
  AllowancesAreGranted
PROPERTIES
  KeepsLedger
  RestrictedTokensStay
CHECK_DEADLOCK FALSE
