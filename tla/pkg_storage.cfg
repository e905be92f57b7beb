CONSTANTS
  Jobs = {i1}
  InstallJobs = {i1}
  RefreshJobs = {}
  NoJob = NoJob
  MaxGen = 2
  MayCrash = FALSE
  MayFail = TRUE
  MayLag = FALSE
SPECIFICATION FairSpec
INVARIANTS FinalMeansGone
PROPERTIES CancelEndsJob JobsEnd
CHECK_DEADLOCK FALSE
