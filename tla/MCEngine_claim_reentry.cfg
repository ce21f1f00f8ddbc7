SPECIFICATION ReentrantSpec
CONSTANTS
  A = A
  B = B
  Unset = Unset
  Instruments = {A}
  OrderIds = {o1, o2, o3}
  Ladder <- Ladder1
  PoolCapacity = 3
  QtyMod = 8
  Orders <- QueueOrders
  ReplacePrices = {10}
  ReplaceQtys = {1}
  AlignedPrices <- Aligned
  ConfigureCalls <- OnlyA
SYMMETRY Ids
INVARIANTS
  OpenOrdersAreQueued
