SPECIFICATION MCSpec
CONSTANTS p1 = p1  c1 = c1  c2 = c2  u1 = u1  u2 = u2  k1 = k1  k2 = k2  w1 = w1  w2 = w2
CONSTANTS Nil = Nil  Deleted = Deleted  Phones = {p1}  Challenges = {c1, c2}  UserIds = {u1, u2}
CONSTANTS Keys = {k1, k2}  Workers = {w1, w2}
CONSTANTS MaxCodeAttempts = 1  MaxRequests = 8  MaxAccountFaults = 1
CONSTANTS Radix = 8  MaxFrame = 10  MaxPad = 2  Lengths = {3, 6, 10}
CONSTANTS HeadBytes = {0, 5, 7}  MaxFrames = 2
CONSTANTS Burst = 2  RateNum = 3  RateDen = 4  TTLMargin = 3  ClockLag = 1  MaxTick = 7
CONSTANTS MaxRewound = 2
CONSTANTS Pods = {n1, n2}  NodeNumbers = {1, 2}  MaxStep = 1  MaxMilli = 2  MaxIds = 3
CONSTANTS MaxClockFaults = 1
CONSTANTS Primes = {5, 7, 11, 13, 17, 19, 23, 29, 31, 37, 41, 43, 47, 53}
CONSTANTS MaxSteps = 3  MaxConstant = 64  PqWidth = 12
SYMMETRY Symmetric
CHECK_DEADLOCK FALSE
INVARIANTS CodeMintsOnce GuessesBounded OneAccountPerPhone 
INVARIANTS FramesUnderstood  IdsDistinct FactorsAreFound
