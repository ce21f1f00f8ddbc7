SPECIFICATION Spec
CONSTANTS
  kTickSchedule <- FourBrackets
  PriceMax = 1000
  CountMod = 24
  WordBits = 4
  References = {1, 2, 5, 6, 7, 8, 9, 10, 18, 20, 25, 30, 40, 50, 60, 100, 110}
  Bands = {0, 1, 3, 5, 10, 11}
  kBpsPerUnit = 10
  MaxOccupied = 2
INVARIANTS
  LadderCoversBand
  LadderServesBook
  ScansFindNearest
  OneSegmentPerBracket
  NoOverflow
CHECK_DEADLOCK FALSE
