SPECIFICATION Spec
CONSTANTS
  Char <- MCChar
  Nul = "nul"
  Upper <- MCUpper
  LowerQ = "q"
  Suffix <- MCSuffix
  MaxName = 4
  MaxPayloads = 3
  Listings <- MCListings
  MayFail = TRUE
INVARIANTS
  TypeOK
  OpensEveryPayload
  SelectedWasTyped
  PromptNamesTheSelection
PROPERTY
  FullNameSelects
