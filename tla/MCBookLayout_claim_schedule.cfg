SPECIFICATION Spec
CONSTANTS
  kTickSchedule <- UnevenEdge
  PriceMax = 1000
  CountMod = 24
  WordBits = 4
  References = {2, 4, 5, 10}
  Bands = {0, 5, 10}
  kBpsPerUnit = 10
  MaxOccupied = 1
INVARIANTS
  LadderCoversBand
CHECK_DEADLOCK FALSE
