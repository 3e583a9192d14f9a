SPECIFICATION FairSpec
CONSTANTS
  None = None
  Recorders = {r1, r2}
  BatchMax = 2
  MaxBuffered = 2
  MaxRetries = 1
  MaxEntries = 3
  MaxFaults = 2
CHECK_DEADLOCK FALSE
INVARIANTS LostOnlyByDeath 
 
