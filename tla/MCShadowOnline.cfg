CONSTANTS
  OrderReference = {1, 2, 3}
  Symbol = {AAPL}
  Price = {1, 2, 3}
  Quantity = {1, 2}
  None = None
  Opening <- OneBidOneAsk
  config <- SlowEntry
  QueueModels = {"FrontOfQueue"}
  kMaxLedger = 8
  kMaxSubmitted = 100
  Gaps = {0, 1}
  Feed = {"A", "E"}
  kMaxFacts = 3
  SequenceGaps = FALSE
SPECIFICATION SimulatorSpec
INVARIANTS
  QuotedOnlyWhenExposed
