SPECIFICATION FairSpec
CONSTANTS
  NFrames = 3
  RenderFrames = {1, 2}
  FilterFrames = {2, 3}
  NJobs = 2
  MaxRender = 2
  MaxFilter = 1
  TodoLow = 1
  TodoHigh = 2
  DoneHigh = 2
  MaxFailed = 0
  LoadControl = TRUE
  Faults = {"launch", "exec", "exit", "get"}
  Signals = {}
INVARIANTS
  TaskConservation
  JobAccounting
  
PROPERTIES
  PartsRunOnceInOrder
  EventuallyGone
