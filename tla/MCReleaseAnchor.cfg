CONSTANTS
  Runs = {r1, r2}
  Histories <- MCHistories
  MaxVersions = 2
  MaxFailures = 0
SPECIFICATION Spec
CHECK_DEADLOCK FALSE
INVARIANTS
  TagNamesTheRelease
