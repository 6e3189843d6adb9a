SPECIFICATION Spec
CONSTANTS
  Base = 16
  Scale = 4
  Mark = 8
  LenLen = 2
  Mix <- MCMix
  Data <- MCData
  Sizes = {0, 1, 13, 16, 17}
  MaxLen = 33
  Garbage <- MCGarbage
INVARIANTS
  TypeOK
  RingIsTheSchedule
  NothingIsLost
  ClosesWithThePadding
PROPERTIES
  CallsReturn
