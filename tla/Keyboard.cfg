SPECIFICATION Spec
CONSTANTS
  Char = {"a", "b"}
  Nul = "nul"
  MaxLength = 4
INVARIANTS
  TypeOK
  TailIsClear
  ReturnsTheLine
PROPERTY
  EditsALine
