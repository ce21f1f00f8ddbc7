SPECIFICATION Spec
CONSTANTS
  Keys = {k1, k2, k3, k4, k5}
  kEmpty = kEmpty
  BlankRecord = blank
  kInitialCapacity = 2
  kChunkSize = 2
  Hashes = {0, 3, 7}
  Reservations = {0, 3}
  MaxSlots = 6
SYMMETRY AnyKey
INVARIANTS
  ProbesEnd
PROPERTIES
  ImplementsStore
  ReservationSuffices
  SlotsStay
CHECK_DEADLOCK FALSE
