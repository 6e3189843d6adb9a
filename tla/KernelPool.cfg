SPECIFICATION Spec
CONSTANTS
  Top = 56
  Width = 32
  LowLimit = 28
  MinPool = 4
  MinInfo = 10
  LineSize = 10
  TextLen <- MCTextLen
  Boots <- MCBoots
PROPERTIES
  UsesAHoleOfTheMap
CHECK_DEADLOCK FALSE
