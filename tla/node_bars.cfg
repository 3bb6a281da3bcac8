SPECIFICATION BarsSpec
CONSTANTS
  Stocks = {1}
  Frames <- Minutes
  Source = 15
  Opens = {570, 780}
  Closes = {690, 900}
  Appends = {TRUE}
  OnOpens = {FALSE}
  Gmt = TRUE
  Offset = 480
  Rows = 3
  Times = {5855, 5865, 5970, 7295}
  Prices = {0, 1, 2}
  MaxPushes = 4
INVARIANTS
  BarsInv
  ReadsInv
CHECK_DEADLOCK FALSE
