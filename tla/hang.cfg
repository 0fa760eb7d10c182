SPECIFICATION FairSpec
CONSTANTS
  NFrames = 3
  RenderFrames = {1, 2}
  FilterFrames = {2, 3}
  NJobs = 2
  MaxRender = 2
  MaxFilter = 1
  TodoLow = 1
  TodoHigh = 2
  DoneHigh = 2
  MaxFailed = 2
  LoadControl = FALSE
  Faults = {"launch", "exit"}
  Signals = {}
PROPERTIES
  EventuallyGone
CHECK_DEADLOCK FALSE
