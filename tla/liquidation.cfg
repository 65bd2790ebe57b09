CONSTANTS
  XLM = XLM
  EURC = EURC
  DECIMAL = 1000
  FULL_UTILISATION = 10000
  PANIC_RATES_THRESHOLD = 9000
  BASE_INTEREST_RATE = 20
  INTEREST_RATE_AT_PANIC = 100
  MAX_INTEREST_RATE = 300
  PANIC_BASE_RATE <- MCPanicBaseRate
  SECONDS_IN_YEAR = 1
  NumUsers = 2
  Pools <- MCPools
  CollateralFactor <- MCCollateralFactor
  Endowment <- LiquidatorAndHeavyBorrower
  InitialPrice <- SteadyPrice
  Prices <- FallingEURC
  Elapses = {6}
  MaxTime = 12
  MaxLoans = 1
  DepositAmounts = {160}
  WithdrawAmounts = {80}
  BorrowAmounts = {149}
  CollateralAmounts = {340}
  StrayAmounts = {}
  RepayAmounts = {40}
  AllowedAmounts = {149}
  LiquidateAmounts = {140, 70}
  RevenueAmounts = {}
SPECIFICATION Spec
INVARIANTS
  Custody
  LentIsOwed
  LiabilitiesCoverDebts
  HealthIsVisible
  
PROPERTIES
  HealthIsNotLost
  CallsSpareHealth
  DebtIsPaidFor
  FeesRetireInterest
  IndexFallsOnlyOverdrawn
  OnlyLiquidationsUncoverInterest
CHECK_DEADLOCK FALSE
