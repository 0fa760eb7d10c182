SPECIFICATION FairSpec
CONSTANTS
  NFrames = 3
  RenderFrames = {1, 2}
  FilterFrames = {3}
  NJobs = 2
  MaxRender = 2
  MaxFilter = 1
  TodoLow = 1
  TodoHigh = 2
  DoneHigh = 2
  MaxFailed = 2
  LoadControl = FALSE
  Faults = {"launch", "exit", "timeout"}
  Signals = {"INT", "TERM"}
PROPERTIES
  EventuallyGone
