SPECIFICATION FairSpec
CONSTANTS
  Prices = {1, 2}
  Quantities = {1}
  MaxTickets = 5
  MaxDay = 1
  Kinds = {"limit"}
  Modes = {"order_in"}
  Settlement = 0
  Expiration = FALSE
  Closing = FALSE
  None = None
INVARIANTS
  BookInv
  InPriceTimeOrder
PROPERTIES
  MatchingProceeds
