CONSTANTS
  OrderReference = {1, 2, 3}
  Symbol = {AAPL}
  Price = {1, 2, 3}
  Quantity = {1, 2}
  None = None
  Opening <- TwoBidsOneAsk
  config <- Delayed
  QueueModels = {"FrontOfQueue"}
  kMaxLedger = 1
  kMaxSubmitted = 4
  Gaps = {0, 1, 2}
  Feed = {"E", "H", "S"}
  kMaxFacts = 2
  SequenceGaps = TRUE
SPECIFICATION SimulatorSpec
INVARIANTS
  OneQuotePerSide
  BarredNotExposed
  ConfirmationsSettle
PROPERTIES
  FactsWinTies
  EveryOrderEnds
