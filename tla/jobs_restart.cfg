CONSTANTS
  ShellJobs = {s1}
  InstallJobs = {i1}
  NoJob = NoJob
  QueueLimit = 2
  MaxGen = 2
  MayCrash = TRUE
  MayLose = TRUE
SPECIFICATION MCSpec
INVARIANTS TypeOK HandedAtMostOnce FailedMeansNotSubmitted CodesAreTrue PolledRowsAreOwned CancelledMeansStopped
PROPERTIES CancelledInstallGoesNoFurther
CHECK_DEADLOCK FALSE
