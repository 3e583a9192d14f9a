SPECIFICATION MCSpec
CONSTANTS c1 = c1  c2 = c2  c3 = c3  r1 = r1  r2 = r2  None = None
CONSTANTS Calls = {c1, c2}  RandomIDs = {r1, r2}  RandomID <- MCRandomID  Limit = 1
CONSTANTS MaxRetries = 0  MaxFaults = 1  MaxChanges = 2  MaxDiffs = 1  MaxPushes = 1
CONSTANTS p1 = p1  p2 = p2  DialogOrder <- MCOrder  Creators = {d1, d2}
CONSTANTS PairIndexes = {TRUE, FALSE}  MaxDialogFaults = 1
CONSTANTS Marks = {m1, m2}  TopSeq = 4  MaxReadFaults = 1
CONSTANTS BucketSize = 2  MaxBucketWalk = 3  Sentinel = 20  PageLimit = 2  HistTop = 7
CONSTANTS Devices = {d1, d2}  MaxToken = 2  MaxPushRetries = 1  MaxPushFaults = 1
CONSTANTS MaxPushChanges = 2
CONSTANTS Procs = {q1, q2}  MaxPuts = 2  MaxJobs = 1  MaxMediaRetries = 1  MaxMediaFaults = 2
CONSTANTS Rooms = {m1, m2}  MaxShares = 2  MaxMoves = 2  MaxAccessFaults = 1
CHECK_DEADLOCK FALSE
INVARIANTS PersistedIsReadable AnsweredIsKept  UnreadHidesNothing
INVARIANTS PagesCoverHistory PushesRight  
PROPERTIES RowsStand 
