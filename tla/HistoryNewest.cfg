SPECIFICATION HistSpec
CONSTANTS BucketSize = 2  MaxBucketWalk = 3  Sentinel = 20  PageLimit = 2  HistTop = 7
CHECK_DEADLOCK FALSE
INVARIANT FirstPageHasTheNewest
