CONSTANTS
  OrderReference = {r1, r2}
  Locate = {1, 2}
  Symbol = {AAPL, MSFT}
  Price = {1}
  Shares = {0, 1}
  MatchNumber = {m1, m2}
  Feed <- RecordFeed
  None = None
  kMax = 3
SYMMETRY SymmetricRecords
SPECIFICATION Spec
INVARIANTS
  VolumesMatchLedger
  LedgerIndexed
  ListingsAgree
