SPECIFICATION Spec
CONSTANTS
  Limit = 16
  Block = 2
  Page = 4
  Value = {0, 1}
  Images <- MCImages
  Calls <- MCCalls
  Maps <- MCMaps
  MaxGrowth = 1
  Queries <- MCQueries
INVARIANTS
  FailureLeavesNothing
CHECK_DEADLOCK FALSE
