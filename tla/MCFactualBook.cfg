CONSTANTS
  OrderReference = {r1, r2, r3}
  Locate = {1}
  Symbol = {AAPL}
  Price = {1, 2}
  Shares = {1, 2}
  MatchNumber = {m1, m2}
  Feed <- QueueFeed
  None = None
  kMax = 4
SYMMETRY Symmetric
SPECIFICATION Spec
INVARIANTS
  InvariantsHold
  VolumeConservation
PROPERTIES
  ImplementsDisplayed
