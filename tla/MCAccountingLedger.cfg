CONSTANTS
  Price = {0, 1, 3}
  Quantity = {0, 1, 2, 3}
  fees <- Fees
  kMaxMoney = 20
  kMaxInventory = 4
  kMaxTurnover = 9
SPECIFICATION Spec
INVARIANTS
  TotalsAgree
  LiquidationIsConservative
PROPERTIES
  ImplementsFifoLots
