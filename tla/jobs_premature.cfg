CONSTANTS
  ShellJobs = {}
  InstallJobs = {i1}
  NoJob = NoJob
  QueueLimit = 1
  MaxGen = 1
  MayCrash = FALSE
  MayLose = FALSE
SPECIFICATION Spec
INVARIANTS UnknownMeansSubmitted
CHECK_DEADLOCK FALSE
