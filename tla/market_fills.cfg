SPECIFICATION Spec
CONSTANTS
  Prices = {1, 2}
  Quantities = {1, 2}
  MaxTickets = 4
  MaxDay = 1
  Kinds = {"limit", "market"}
  Modes = {"order_in"}
  Settlement = 0
  Expiration = FALSE
  Closing = FALSE
  None = None
INVARIANTS
  BothSidesExecute
PROPERTIES
  ImplementsPriceTime
