CONSTANTS
  OrderReference = {1, 2, 3, 4}
  Symbol = {AAPL}
  Price = {1, 2, 3}
  Quantity = {1, 2}
  None = None
  Opening <- TwoBidsOneAsk
  config <- Immediate
  QueueModels = {"MboFifoConservative", "TradeThroughOnly", "FrontOfQueue"}
  kMaxLedger = 8
  kMaxSubmitted = 100
  Gaps = {0, 1}
  Feed = {"A", "E", "X", "D", "U"}
  kMaxFacts = 2
  SequenceGaps = FALSE
SPECIFICATION SimulatorSpec
INVARIANTS
  PositionsBounded
  QueueAheadIsFactual
PROPERTIES
  FillsNeedEvidence
