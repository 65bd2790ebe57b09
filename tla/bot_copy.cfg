CONSTANTS
  Borrower = Borrower
  XLM = XLM
  EURC = EURC
  AQUA = AQUA
  Borrowers = {Borrower}
  Loans <- LoansOfAllSizes
  KnownPools = {XLM, EURC}
  Prices <- MCPrices
  DECIMAL = 1000
  FACTOR = 800
  THRESHOLD = 1010
  HALF = 128
  HISTORY_DEPTH = 1
  PageLimit = 1
  MaxLoans = 1
  MaxGrowth = 2
  MaxEvents = 3
  MaxLedger = 4
SPECIFICATION BotSpec
INVARIANTS
  BotTypeOK
  DatabaseIsBook
  OffersAreWithinBounds
  PricesAreFetched
CHECK_DEADLOCK FALSE
