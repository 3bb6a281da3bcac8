SPECIFICATION FairSpec
CONSTANTS
  Workers = {w1, w2}
  MaxTicks = 2
INVARIANTS
  JobsInOrder
PROPERTIES
  JobsAreRun
  
CHECK_DEADLOCK FALSE
