CONSTANTS
  Borrower = Borrower
  XLM = XLM
  EURC = EURC
  AQUA = AQUA
  Borrowers = {Borrower}
  Loans <- KnownLoans
  KnownPools = {XLM, EURC}
  Prices <- MCPrices
  DECIMAL = 1000
  FACTOR = 800
  THRESHOLD = 1010
  HALF = 128
  HISTORY_DEPTH = 1
  PageLimit = 2
  MaxLoans = 1
  MaxGrowth = 2
  MaxEvents = 1
  MaxLedger = 3
SPECIFICATION BotSpec
PROPERTY AttemptsEnd
CHECK_DEADLOCK FALSE
