SPECIFICATION SeqSpec
CONSTANTS
  Callers = {a, b}
  Headroom = 5
  MaxRaced = 5
  MaxCalls = 5
  MaxFailovers = 1
  MaxFailures = 0
CHECK_DEADLOCK FALSE
INVARIANTS
  SeqUnique
