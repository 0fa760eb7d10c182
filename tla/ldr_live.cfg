SPECIFICATION FairSpec
CONSTANTS
  Tasks = {1}
  Downloads <- TheDownloads
  Uploads <- TheUploads
  NJobs = 1
  TodoLow = 1
  TodoHigh = 2
  DoneHigh = 2
  Commands = {"GiveBackTasks", "ClientQuit"}
  MaxCommands = 1
  MaxLosses = 1
  FileFaults = FALSE
PROPERTIES
  OtherRecoveriesEnd
  EveryTaskGetsDone
  CommandsAreAnswered
CHECK_DEADLOCK FALSE
