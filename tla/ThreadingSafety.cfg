SPECIFICATION Spec
CONSTANTS
  MpCount = 5
  Bsp = 0
  Present = {0, 1, 2, 3}
  Enabled = {1, 2}
  MaxThreads = 3
  Lengths = {0, 1, 2}
  MaxTotal = 3
  Quiet = {2}
  Layouts <- MCLayouts
  Outcomes = {"skipped", "unsupported", "failed", "ready"}
  MayFail = TRUE
  MayElide = TRUE
INVARIANTS
  TypeOK
  FinishedMeansDecrypted
  SpinReturnsDecrypted
  DecryptedOnce
  NotifyNeverBlocks
  WorkingApIsMarked
