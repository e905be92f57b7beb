CONSTANTS
  Builds = {b1, b2}
  Pins = {tools, platform}
  Tools = {t35}
  Nobody = Nobody
  Nothing = Nothing
  Appliers = {1, 2}
  Apks <- MCApks
  Least = 2
  Listed = {listed}
  Found = {found}
  Versions = {v1, v2}
  NoFile = NoFile
  Torn = Torn
  Journeys = {journey}
  Passed = Passed
  Makers = {"m1", "m2"}
  MaxRpm = 3
  ByHand = {2}
  HandDigest = v1
  Attempts = 2
  MaxFaults = 1
  MoreFaults = 2
  MaxEdits = 1
  MaxApks = 2
  MaxRounds = 4
  MaxChanges = 2
SPECIFICATION BuildFairSpec
INVARIANTS BuildTypeOK InputsArePinned HandedOverIsExact DeltasApply
PROPERTIES InputsRecover ThreeRoundsInARow
CHECK_DEADLOCK FALSE
