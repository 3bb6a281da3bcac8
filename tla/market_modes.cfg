SPECIFICATION Spec
CONSTANTS
  Prices = {1, 2}
  Quantities = {2}
  MaxTickets = 4
  MaxDay = 2
  Kinds = {"limit"}
  Modes = {"close", "next", "external"}
  Settlement = 1
  Expiration = FALSE
  Closing = TRUE
  None = None
INVARIANTS
  BuyLimitsHold
PROPERTIES
  FillsUseLaterPrices
