SPECIFICATION Spec
CONSTANTS
  Top = 56
  Width = 32
  LowLimit = 28
  MinPool = 4
  MinInfo = 10
  LineSize = 10
  TextLen <- MCTextLen
  Boots <- MCBoots
INVARIANTS
  TypeOK
  FindsAnAlignedMap
  PoolIsTheFirstHole
  OnlyThePoolIsWritten
  WireIsWhatWasPrinted
PROPERTIES
  KmainReturns
CHECK_DEADLOCK FALSE
