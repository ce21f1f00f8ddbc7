SPECIFICATION Spec
CONSTANTS
  A = A
  B = B
  Unset = Unset
  Instruments = {A}
  OrderIds = {o1, o2, o3}
  Ladder <- Ladder3
  PoolCapacity = 3
  QtyMod = 8
  Orders <- TradingOrders
  ReplacePrices = {10, 12, 14}
  ReplaceQtys = {1, 2}
  AlignedPrices <- Aligned
  ConfigureCalls <- OnlyA
SYMMETRY Ids
INVARIANTS
  FifoLinked
  LevelsAddUp
  BestIsBest
  NeverCrossed
  OpenOrdersReachable
  ReplicaAgrees
  FokFillsWhole
  MatchingExhausted
PROPERTIES
  ImplementsExchange
