SPECIFICATION FairSpec
CONSTANTS
  Releases = {v1, v2}
  First = v1
  None = None
  MaxOps = 3
  MaxMishaps = 2
INVARIANTS OneDeployment RecordsAreTrue
PROPERTIES RollbackReturns EveryOperationEnds
CHECK_DEADLOCK FALSE
