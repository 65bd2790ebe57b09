CONSTANTS
  XLM = XLM
  EURC = EURC
  DECIMAL = 1000
  FULL_UTILISATION = 10000
  PANIC_RATES_THRESHOLD = 9000
  BASE_INTEREST_RATE = 20
  INTEREST_RATE_AT_PANIC = 100
  MAX_INTEREST_RATE = 300
  PANIC_BASE_RATE <- MCPanicBaseRate
  SECONDS_IN_YEAR = 1
  NumUsers = 2
  Pools <- MCPools
  CollateralFactor <- MCCollateralFactor
  Endowment <- LenderAndBorrower
  InitialPrice <- SteadyPrice
  Prices <- NoChanges
  Elapses = {4}
  MaxTime = 8
  MaxLoans = 1
  DepositAmounts = {100}
  WithdrawAmounts = {37}
  BorrowAmounts = {60}
  CollateralAmounts = {100}
  StrayAmounts = {}
  RepayAmounts = {25}
  AllowedAmounts = {85}
  LiquidateAmounts = {}
  RevenueAmounts = {1}
SPECIFICATION Spec
INVARIANTS
  TypeOK
  SharesBacked
  LentIsOwed
  LoansAreSecured
  AccrualRemembered
PROPERTIES
  AccrualNeverFalls
  LendersKeepTheirValue
  PastInterestIsSettled
  PoolsAreLedgers
CHECK_DEADLOCK FALSE
