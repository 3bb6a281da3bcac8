SPECIFICATION FairSpec
CONSTANTS
  Nodes = {1, 2}
  Codes = {0, 1, 2}
  Opening = {0, 1}
  Picks = {{}, {1}}
  Locking = {FALSE, TRUE}
  MaxEvents = 2
  MaxLogons = 2

  
PROPERTIES
  
  CancelledNodesLeave
  
CHECK_DEADLOCK FALSE
