SPECIFICATION Spec
CONSTANTS
  A = A
  B = B
  Unset = Unset
  Instruments = {A}
  OrderIds = {o1, o2, o3}
  Ladder <- Ladder1
  PoolCapacity = 5
  QtyMod = 8
  Orders <- QueueOrders
  ReplacePrices = {10}
  ReplaceQtys = {1, 2, 3}
  AlignedPrices <- Aligned
  ConfigureCalls <- OnlyA
SYMMETRY Ids
INVARIANTS
  QueuesInArrivalOrder
  PriceTimePriority
