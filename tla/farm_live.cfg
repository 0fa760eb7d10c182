SPECIFICATION FairSpec
CONSTANTS
  NClients = 2
  NFrames = 1
  RenderFrames = {1}
  FilterFrames = {}
  CanRender = {1, 2}
  CanFilter = {}
  CJobs <- OneJobEach
  ClientHigh = 1
  TodoLow = 1
  TodoHigh = 2
  DoneHigh = 1
  Reconnects = FALSE
  Signals = {"TERM", "TSTP", "CONT"}
  MaxStops = 2
  MaxLosses = 1
PROPERTIES
  StopSettles
  KillEnds
CHECK_DEADLOCK FALSE
