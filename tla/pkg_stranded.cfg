CONSTANTS
  Jobs = {o1}
  InstallJobs = {}
  RefreshJobs = {}
  NoJob = NoJob
  MaxGen = 1
  MayCrash = FALSE
  MayFail = FALSE
  MayLag = FALSE
SPECIFICATION Spec
INVARIANTS CancelRequestedRowsAreOwned
CHECK_DEADLOCK FALSE
