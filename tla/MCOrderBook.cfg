CONSTANTS
  OrderId = {o1, o2, o3}
  Price <- MCPrice
  Quantities <- MCQuantities
  NoPrice = NoPrice
  NoOrder = NoOrder
  kMaxQuantity = 3
  kMaxSequence = 8
SYMMETRY Ids
SPECIFICATION Spec
INVARIANTS
  TypeOK
  Uncrossed
  IndexMatchesQueues
  FifoByPriority
  LevelsSound
  ValidationCoversMatching
  EventsAccountForQuantity
PROPERTIES
  ImplementsAuction
