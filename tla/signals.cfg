SPECIFICATION Spec
CONSTANTS
  NFrames = 2
  RenderFrames = {1, 2}
  FilterFrames = {2}
  NJobs = 2
  MaxRender = 2
  MaxFilter = 1
  TodoLow = 1
  TodoHigh = 2
  DoneHigh = 2
  MaxFailed = 2
  LoadControl = TRUE
  Faults = {"launch", "exec", "exit", "timeout"}
  Signals = {"INT", "TERM", "TSTP", "CONT"}
INVARIANTS
  TypeOK
  QueueContents
  NoAssertionFails
  ExchangeAgrees
  CleanExit
  
  KillReachesAllJobs
  ScheduledStartIsAwaited
PROPERTIES
  NoNewJobsWhenQuitting
  ImplementsFlow
