CONSTANTS
  OrderIds = {o1, o2}
  Prices = {1, 2}
  Quantities = {0, 1, 3}
  Displays = {0, 1}
  FlagSets <- SomeFlagSets
  MaxSequence = 3
  NoOrder = NoOrder
  NoPrice = NoPrice
  NoId = NoId
SPECIFICATION FairSpec
INVARIANTS AggregatesExact FokAllOrNothing
PROPERTY CallsReturn
