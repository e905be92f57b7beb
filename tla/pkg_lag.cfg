CONSTANTS
  Jobs = {r1, o1}
  InstallJobs = {}
  RefreshJobs = {r1}
  NoJob = NoJob
  MaxGen = 2
  MayCrash = TRUE
  MayFail = TRUE
  MayLag = TRUE
SPECIFICATION Spec
INVARIANTS CompletedIsTrue CancelsReachWorker
PROPERTIES CancellationSticks StopsStarting
CHECK_DEADLOCK FALSE
