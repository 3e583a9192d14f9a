SPECIFICATION Spec
CONSTANTS
  c1 = c1
  c2 = c2
  c3 = c3
  r1 = r1
  r2 = r2
  None = None
  Calls = {c1, c3}
  RandomIDs = {r1, r2}
  RandomID <- MCRandomID
  Limit = 1
  MaxRetries = 1
  MaxFaults = 0
  MaxChanges = 0
  MaxDiffs = 1
  MaxPushes = 0
CHECK_DEADLOCK FALSE
INVARIANT NothingMissedBelowCursor
