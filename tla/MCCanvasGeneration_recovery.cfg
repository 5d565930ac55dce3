SPECIFICATION PageFairSpec
CONSTANTS
  Slots = {1, 2, 3}
  Node <- ThreeNodes
  Bare = {1, 3}
  Requests = {r1, r2}
  NoSlot = NoSlot
  MaxReloads = 1
  MaxDeletions = 1
  MaxMishaps = 2
INVARIANTS
  OneTaskPerImage
  
  NoJobIsForgotten
PROPERTIES
  EveryWaitEnds
CHECK_DEADLOCK FALSE
