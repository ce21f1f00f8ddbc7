SPECIFICATION Spec
CONSTANTS
  kTickSchedule <- FourBrackets
  PriceMax = 1000
  CountMod = 16
  WordBits = 4
  References = {10, 40}
  Bands = {5, 10}
  kBpsPerUnit = 10
  MaxOccupied = 1
INVARIANTS
  LadderCoversEveryBand
CHECK_DEADLOCK FALSE
