SPECIFICATION Spec
CONSTANTS
  A = A
  B = B
  Unset = Unset
  Instruments = {A}
  OrderIds = {o1, o2, o3}
  Ladder <- Ladder2
  PoolCapacity = 4
  QtyMod = 3
  Orders <- MixedOrders
  ReplacePrices = {10, 12}
  ReplaceQtys = {1, 2}
  AlignedPrices <- Aligned
  ConfigureCalls <- OnlyA
SYMMETRY Ids
INVARIANTS
  UnfillableCouldNotFill
