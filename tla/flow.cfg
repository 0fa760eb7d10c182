SPECIFICATION MCSpec
CONSTANTS
  Tasks = {a, b, c}
  RenderTasks = {a, b}
  FilterTasks = {b, c}
  NJobs = 2
INVARIANTS
  Lifecycle
  FilterNeedsRender
  VerdictIsTrue
  
PROPERTIES
  
  OutcomesAreFinal
CHECK_DEADLOCK FALSE
