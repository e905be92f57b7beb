CONSTANTS
  Instances = {1, 2}
  Processes = {1, 2}
  Tools = {1, 2, 3}
  Rounds = 3
  MaxTaps = 4
  MaxFaults = 1
  Clients = {1, 2}
  Identifiers = {1, 2}
  MaxLost = 2
SPECIFICATION ServiceFairSpec
INVARIANTS ServiceTypeOK OneBackend ToolStateIsTrue ScriptsHold ClientsAreTrue
PROPERTY StopEnds
CHECK_DEADLOCK FALSE
