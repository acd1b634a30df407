SPECIFICATION PackagesSpec
CONSTANTS
  ann = ann
  bob = bob
  eve = eve
  uluna = uluna
  uusd = uusd
  fury = fury
  gold = gold
  Users = {ann, eve}
  FirstOwner = ann
  Proxy = Proxy
  Natives = {uluna, uusd}
  Tokens = {fury, gold}
  AssetBytes <- BytesOfAssets
  TokenDecimals <- DecimalsOfTokens
  PairCodes = {1, 2}
  TokenCodes = {3}
  None = None
  PairsName <- PairInfoName
  ListLimits = {0, 1, 4}
  MaxPairs = 3
  Radix = 8
  NoBound = NoBound
  DefaultLimit = 2
  MaxLimit = 3
  Admins = {ann, bob}
  Holders = {ann}
  NoAdmin = NoAdmin
  ClaimAmounts = {1, 2}
  Caps = {0, 2, 3}
  NoCap = NoCap
  Periods <- MCPeriods
  MaxChainHeight = 3
  MaxClaims = 3
  Denoms = {1, 2, 3}
  CoinAmounts = {0, 1, 2}
  CoinLists <- SomeLists
  Funds <- SomeFunds
  MaxPerDenom = 3
  Investors = {ann, eve}
  FirstInvestor = ann
  One = 4
  StableAmounts = {1, 2, 3}
  MaxStable = 5
  Marketers = {ann, bob}
  Texts = {t1}
  Blank = Blank
  NotGiven = NotGiven
  NoInfo = NoInfo
  NoLogo = NoLogo
  LogoSizes = {5, 6}
  LogoSizeCap = 5
INVARIANTS
  PairsAreRegistered
  PagesListPairs
  WalletAgrees
  InfoMatchesLogo
PROPERTIES
  ClaimsTakeWhatFits
  DepositsPayThemselves
CHECK_DEADLOCK FALSE
