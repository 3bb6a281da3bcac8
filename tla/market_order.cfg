SPECIFICATION Spec
CONSTANTS
  Prices = {1, 2}
  Quantities = {1}
  MaxTickets = 6
  MaxDay = 1
  Kinds = {"limit"}
  Modes = {"external"}
  Settlement = 0
  Expiration = FALSE
  Closing = FALSE
  None = None
INVARIANTS
  InPriceTimeOrder
