CONSTANTS
  Values = {v1, v2, v3}
  N = 4
  Nothing = Nothing
SPECIFICATION FairSpec
INVARIANTS SlotsOwned
PROPERTIES ImplementsFifo PushedIsPopped
