CONSTANTS
  OrderId = {o1, o2}
  Price <- MCPrice
  Quantities <- MCQuantities
  NoPrice = NoPrice
  NoOrder = NoOrder
  kMaxQuantity = 3
  kMaxSequence = 4
SPECIFICATION Spec
PROPERTIES
  ExhaustionPreservesBook
