CONSTANTS
  XLM = XLM
  EURC = EURC
  DECIMAL = 1000
  FULL_UTILISATION = 10000
  PANIC_RATES_THRESHOLD = 9000
  BASE_INTEREST_RATE = 20
  INTEREST_RATE_AT_PANIC = 100
  MAX_INTEREST_RATE = 300
  PANIC_BASE_RATE <- MCPanicBaseRate
  SECONDS_IN_YEAR = 1
  NumUsers = 2
  Pools <- MCPools
  CollateralFactor <- MCCollateralFactor
  Endowment <- LenderAndBorrower
  InitialPrice <- SteadyPrice
  Prices <- LostEURC
  Elapses = {4}
  MaxTime = 4
  MaxLoans = 2
  DepositAmounts = {100}
  WithdrawAmounts = {}
  BorrowAmounts = {30}
  CollateralAmounts = {50}
  StrayAmounts = {50}
  RepayAmounts = {25}
  AllowedAmounts = {60}
  LiquidateAmounts = {}
  RevenueAmounts = {}
SPECIFICATION Spec
INVARIANTS
  Custody
  CollateralCoversLoans
  LoansCanBeClosed
  ListsAreExact
PROPERTIES
  ClosedStaysClosed
  PoolsAreLedgers
CHECK_DEADLOCK FALSE
