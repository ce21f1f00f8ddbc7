SPECIFICATION FaultSpec
CONSTANTS
  A = A
  B = B
  Unset = Unset
  Instruments = {A}
  OrderIds = {o1, o2, o3}
  Ladder <- Ladder2
  PoolCapacity = 3
  QtyMod = 3
  Orders <- MixedOrders
  ReplacePrices = {10, 12}
  ReplaceQtys = {1, 2}
  AlignedPrices <- Aligned
  ConfigureCalls <- OnlyA
SYMMETRY Ids
INVARIANTS
  TypeOK
  OrderQuantitiesFit
  FifoLinked
  LevelsAddUp
  BestIsBest
  NeverCrossed
  OpenOrdersReachable
  PriceTimePriority
PROPERTIES
  ClosedStaysClosed
