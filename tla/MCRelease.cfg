CONSTANTS
  Runs = {r1, r2}
  Histories <- MCHistories
  MaxVersions = 2
  MaxFailures = 1
SPECIFICATION Spec
CHECK_DEADLOCK FALSE
INVARIANTS
  OneCommit
  NothingHalfReleased
PROPERTIES
  NothingTakenBack
  ReleasesArrive
