CONSTANTS
  OrderReference = {1, 2}
  Locate = {1, 2}
  Symbol = {"AAPL", "MSFT"}
  Price = {0, 1, 2}
  Shares = {1, 2}
  MatchNumber = {m1}
  Feed <- ReplayFeed
  None = None
  Unknown = Unknown
  kMax = 9
  Frames <- ReplayFrames
  Probes <- ReplayProbes
  Limits = {None, 1, 3}
  ExportDepth = 2
  Selected = {"AAPL"}
  kMaxRecords = 5
SPECIFICATION ReplaySpec
INVARIANTS
  CountersAddUp
  FailuresEndRun
  DiagnosticsTellWhere
  DecodedWhole
  StreamAccepted
  StreamTracksBook
