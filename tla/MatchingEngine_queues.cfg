CONSTANTS
  OrderIds = {o1, o2, o3}
  Prices = {1, 2}
  Quantities = {1, 2}
  Displays = {0, 1}
  FlagSets <- NoFlags
  MaxSequence = 4
  NoOrder = NoOrder
  NoPrice = NoPrice
  NoId = NoId
SPECIFICATION Spec
SYMMETRY IdSymmetry
INVARIANTS TypeOK BookIntegrity BookNotCrossed
PROPERTY ImplementsPriceTimeBook
