SPECIFICATION Spec
CONSTANTS
  Char <- MCChar
  Nul = "nul"
  Upper <- MCUpper
  LowerQ = "q"
  Suffix <- MCSuffix
  MaxName = 4
  MaxPayloads = 3
  Listings <- MCListings
  MayFail = FALSE
PROPERTY
  SingleMatchSelects
