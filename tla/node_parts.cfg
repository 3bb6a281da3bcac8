SPECIFICATION Spec
CONSTANTS
  Permits = {p1, p2, p3}
  Total = 4
  Needs = {1, 2, 3}
  Nodes = 3
  NoPermit = NoPermit
  Values = {1, 2, 3}
  Lengths = {2, 3}
  MaxPos = 5
  MaxNodes = 3
  MaxForks = 3
  Versions = {1, 2}
  Tries = 1
  Processors = 2
  Threads = {t1, t2}
  Connections = 1
  Sizes = {0, 2}
  Fields = 2
  MaxFailures = 1
  Amounts = {0, 100, 250, 255}
  Deci = 10
  MaxOperations = 3
  Rows = 3
  Cols = 2
  Cells = {0, 1}
INVARIANTS
  ConnectionsInv
  NeverShared
  
  LaunchInv
  PermitInv
PROPERTIES
  ImplementsWindow
  ImplementsRecent
  LaunchProceeds
CHECK_DEADLOCK FALSE
