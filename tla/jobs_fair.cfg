CONSTANTS
  ShellJobs = {s1}
  InstallJobs = {i1}
  NoJob = NoJob
  QueueLimit = 2
  MaxGen = 1
  MayCrash = FALSE
  MayLose = FALSE
SPECIFICATION FairSpec
PROPERTIES CancelReleasesWorker QueueDrains
CHECK_DEADLOCK FALSE
