CONSTANTS
  Hyphen = 1
  Lead = 3
  Trail = 5
  Bmp0 = 7
  Astral = 8
  Top = 11
  Members = {0, 1, 3, 5, 7, 8}
  MaxMembers = 5
SPECIFICATION Spec
CHECK_DEADLOCK FALSE
INVARIANT
  UnicodeModeFollowsTheMatch
