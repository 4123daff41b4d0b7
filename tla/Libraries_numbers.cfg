SPECIFICATION LibrariesSpec
CONSTANTS
  Markets = {m1, m2}
  Configured = {m1}
  Prices = {1, 3}
  Quantities = {1, 2}
  Amounts = {4}
  MaxOrders = 1
  MaxFills = 3
  MaxTransfers = 1
  Config <- RiskConfigs
  Denominator = 100
  NoMarket = NoMarket
  NoPosition = NoPosition
  Bits <- Widths
  Defaults <- DefaultValues
  MinArenaBytes = 64
  Absent = Absent
  FundingConfigs <- LoadedFunding
  IndexPrices = {0, 3, 10, 250}
  MidPrices = {1, 3, 4, 12, 300}
  Elapsed = {0, 1, 2}
  kBasisPointDenominator = 100
  MaxUpdates = 2
  MetricIds = {0, 1, 2}
  kMaxMetricId = 2
  Latencies = {0, 1, 2, 3, 5, 9}
  kNumBuckets = 4
  MaxRecords = 4
  MaxSamples = 1
INVARIANTS
  TypeOK
  BooksFollowCash
  FirstOrderHealthy
  PremiumMatchesMark
  FundingBounded
  SummariesExact
CHECK_DEADLOCK FALSE
