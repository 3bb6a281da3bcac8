SPECIFICATION NodeSpec
CONSTANTS
  Threads = {t1, t2}
  t1 = t1
  t2 = t2
  Shared = Shared
  Sides = {"buy"}
  Prices = {1, 2}
  Quantities = {2}
  Split = {FALSE, TRUE}
  TifDay = {TRUE}
  Deposit = 4
  MarginFactor = 1
  FeeFactor = 1
  Dividends = {1}
  Splits = {0}
  MaxEvents = 3
  Indexes = {1, 2}
  GroupSizes = {1, 2}
  MaxGroups = 3
  Pool = {p1, p2}
  p1 = p1
  p2 = p2
  Plans <- Calls
  Sites = 2
  Argvs = 2
  Grants = {50}
  MaxRows = 2
SYMMETRY Interchangeable
INVARIANTS
  
  CustomInv
  ScriptInv
  LockedWhileClosing
PROPERTIES
  OverspendsOnlyInARace
CHECK_DEADLOCK FALSE
