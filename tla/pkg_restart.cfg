CONSTANTS
  Jobs = {i1, o1}
  InstallJobs = {i1}
  RefreshJobs = {}
  NoJob = NoJob
  MaxGen = 2
  MayCrash = TRUE
  MayFail = FALSE
  MayLag = FALSE
SPECIFICATION Spec
INVARIANTS TypeOK RowsAreTrue
CHECK_DEADLOCK FALSE
