SPECIFICATION RolesSpec
CONSTANTS
  provider = provider
  investor = investor
  wallet = wallet
  pair = pair
  proxy = proxy
  Parties = {provider, investor, wallet, pair, proxy}
  PairContract = pair
  ProxyContract = proxy
  Fraction = 1000
  CommissionRate = 250
  AssetDecimals <- SixAndSeven
  None = None
  Admin = wallet
  Provider = provider
  Investors = {investor}
  PairRewardWallet = wallet
  NativeRewardWallet = wallet
  LpHolder = wallet
  NativeReceiver = wallet
  HundredPercent = 100
  PairDiscount = 50
  NativeDiscount = 50
  PairPeriod = 1
  NativePeriod = 0
  PlatformFees = 50
  SwapFees = 0
  MaxBonds = 2
  OpeningDates = {2}
  InitialHoldings <- OneStart
  InitialAllowances <- OneOrMoreRewards
  Deposits <- EvenAndUneven
  Sent = {2, 3}
  Amounts = {1, 2}
  Tolerances = {None, 100}
  Beliefs = {None, 1500}
  Spreads = {None, 300}
  MaxTime = 3
  MaxRequests = 8
INVARIANTS
  RewardsAreFunded
  NothingLeftPending
  QuotesHold
PROPERTIES
  ShareValueNeverFalls
  ClaimsTakeMatureBonds
CHECK_DEADLOCK FALSE
