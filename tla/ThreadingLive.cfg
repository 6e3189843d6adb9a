SPECIFICATION FairSpec
CONSTANTS
  MpCount = 3
  Bsp = 0
  Present = {0, 1, 2}
  Enabled = {1, 2}
  MaxThreads = 2
  Lengths = {0, 1}
  MaxTotal = 2
  Quiet = {1}
  Layouts <- MCLayouts
  Outcomes = {"skipped", "unsupported", "ready"}
  MayFail = FALSE
  MayElide = FALSE
PROPERTIES
  SpinTerminates
  EveryThreadStarts
