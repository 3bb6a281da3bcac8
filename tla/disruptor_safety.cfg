SPECIFICATION Spec
CONSTANTS
    Slaves = {s1}
    s1 = s1
    Rows = 3
    MaxRecords = 5
    PauseAfter = 0
    Pauser = TRUE
    SleepCovers = FALSE
    None = None
    Refused = Refused
INVARIANTS
  IInv
  NothingRefused
PROPERTIES
  ImplementsMulticast
  RefusesKeptRowsOnlyInARace
