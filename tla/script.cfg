CONSTANTS
  Calls = {c1, c2}
  MayLose = TRUE
  MayReuse = TRUE
SPECIFICATION MCSpec
INVARIANTS TypeOK ReportsAreTrue CancelEndsCommand NeverSignalsForeign
PROPERTIES KeepsContract
CHECK_DEADLOCK FALSE
