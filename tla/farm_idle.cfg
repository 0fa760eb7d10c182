SPECIFICATION FairSpec
CONSTANTS
  NClients = 2
  NFrames = 2
  RenderFrames = {1, 2}
  FilterFrames = {2}
  CanRender = {1, 2}
  CanFilter = {1, 2}
  CJobs <- OneJobEach
  ClientHigh = 2
  TodoLow = 1
  TodoHigh = 2
  DoneHigh = 1
  Reconnects = FALSE
  Signals = {}
  MaxStops = 0
  MaxLosses = 0
PROPERTIES
  ServerEnds
CHECK_DEADLOCK FALSE
