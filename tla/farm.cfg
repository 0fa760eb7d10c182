SPECIFICATION Spec
CONSTANTS
  NClients = 2
  NFrames = 2
  RenderFrames = {1, 2}
  FilterFrames = {2}
  CanRender = {1, 2}
  CanFilter = {1}
  CJobs <- OneJobEach
  ClientHigh = 2
  TodoLow = 1
  TodoHigh = 2
  DoneHigh = 1
  Reconnects = TRUE
  Signals = {"INT", "TERM"}
  MaxStops = 0
  MaxLosses = 1
INVARIANTS
  ServerTyped
  LentToOneClient
  
  EverythingIsReported
PROPERTIES
  OnlyWantedWorkIsLent
CHECK_DEADLOCK FALSE
