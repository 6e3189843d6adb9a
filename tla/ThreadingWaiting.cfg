SPECIFICATION FairSpec
CONSTANTS
  MpCount = 2
  Bsp = 0
  Present = {0, 1}
  Enabled = {1}
  MaxThreads = 2
  Lengths = {1}
  MaxTotal = 2
  Quiet = {}
  Layouts <- MCLayouts
  Outcomes = {"ready"}
  MayFail = FALSE
  MayElide = FALSE
PROPERTY
  EveryThreadStarts
