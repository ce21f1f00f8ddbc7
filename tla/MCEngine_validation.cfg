SPECIFICATION Spec
CONSTANTS
  A = A
  B = B
  Unset = Unset
  Instruments = {A, B}
  OrderIds = {o1, o2, o3}
  Ladder <- LadderAB
  PoolCapacity = 3
  QtyMod = 3
  Orders <- Mistakes
  ReplacePrices = {10, 11, 12}
  ReplaceQtys = {0, 1, 2}
  AlignedPrices <- Aligned
  ConfigureCalls <- AOrAB
INVARIANTS
  SubmitReportsFirstListed
PROPERTIES
  ClosedStaysClosed
  CallsReturn
