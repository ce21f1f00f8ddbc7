SPECIFICATION Spec
CONSTANTS
  A = A
  B = B
  NullList = NullList
  NoCall = NoCall
  CountMax = 2
  Lists <- UpToThree
INVARIANTS
  ConfiguredIsComplete
PROPERTIES
  ImplementsLifecycle
