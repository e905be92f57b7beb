CONSTANTS
  ShellJobs = {s1}
  InstallJobs = {i1}
  NoJob = NoJob
  QueueLimit = 2
  MaxGen = 1
  MayCrash = TRUE
  MayLose = FALSE
SPECIFICATION Spec
INVARIANTS RunningJobsStayReachable
CHECK_DEADLOCK FALSE
