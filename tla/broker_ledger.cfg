SPECIFICATION ExchangeSpec
CONSTANTS
  Traders = {s1, s2}
  s1 = s1
  s2 = s2
  Known = {s2}
  Stored = 2
  Deposits = {1, 2}
  Prices = {1, 2}
  Quantities = {2}
  Dividends = {1}
  MarginFactor = 1
  LotFactor = 1
  FeeFactor = 1
  TifDay = TRUE
  MaxTickets = 3
  MaxDeposit = 2
  MaxDividends = 1
  Orders = {1, 2}
  ExDividends <- Three
  Times = {1, 2}
  Rows = 4
  MaxMessages = 5
  MaxBatch = 2
INVARIANTS
  
  DividendsInv
  OverdraftIsOneOrder
  
PROPERTIES
  UncoveredOnlyInARace
CHECK_DEADLOCK FALSE
