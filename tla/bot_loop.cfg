CONSTANTS
  Borrower = Borrower
  XLM = XLM
  EURC = EURC
  AQUA = AQUA
  Borrowers = {Borrower}
  Loans <- LoansOfAllPools
  KnownPools = {XLM, EURC}
  Prices <- MCPrices
  DECIMAL = 1000
  FACTOR = 800
  THRESHOLD = 1010
  HALF = 128
  HISTORY_DEPTH = 1
  PageLimit = 2
  MaxLoans = 2
  MaxGrowth = 2
  MaxEvents = 2
  MaxLedger = 3
SPECIFICATION BotSpec
PROPERTY UnhealthyIsAttempted
CHECK_DEADLOCK FALSE
