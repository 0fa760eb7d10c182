SPECIFICATION Spec
CONSTANTS
  Tasks = {1, 2}
  Downloads <- TheDownloads
  Uploads <- TheUploads
  NJobs = 1
  TodoLow = 1
  TodoHigh = 2
  DoneHigh = 2
  Commands = {"Kill", "StopJobs", "ContJobs", "GiveBackTasks", "ClientQuit"}
  MaxCommands = 1
  MaxLosses = 1
  FileFaults = TRUE
INVARIANTS
  LinkTyped
  LentTasksAreSomewhere
  

  
CHECK_DEADLOCK FALSE
