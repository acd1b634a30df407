SPECIFICATION AdminFundsSpec
CONSTANTS
  admin = admin
  claimant = claimant
  category = category
  contract = contract
  Accounts = {admin, claimant, category, contract}
  Minter = nobody
  Cap = NoCap
  NoCap = NoCap
  InitialBalances <- AdminHolds
  NoAllowance = NoAllowance
  NoTimestamp = NoTimestamp
  Amounts = {6}
  Expiries = {}
  Timestamps = {}
  Lists = {}
  MaxAmount = 12
  MaxHeight = 5
  VestingContract = contract
  VestingAdmin = admin
  CliffPeriodUnit = 2
  ScheduleLists <- Schedules
  ClaimAmounts = {1}
  NoVesting = NoVesting
INVARIANTS
  VestedOnSchedule
  ClaimsAreFunded
PROPERTIES
  PaymentsAreRecorded
CHECK_DEADLOCK FALSE
