SPECIFICATION MCSpec
CONSTANTS p1 = p1  r1 = r1
CONSTANTS Members = {p1, p2}  MaxRetries = 1  ExitsOnError = TRUE  MaxRecords = 3  MaxFaults = 3
CONSTANTS Callers = {a, b}  Headroom = 2  MaxRaced = 2  MaxCalls = 4  MaxFailovers = 1
CONSTANTS MaxFailures = 1
CONSTANTS AuthPods = {a1, a2}  Verifiers = {v1, v2}  MaxKeyId = 3  MaxKeyFaults = 1
CONSTANTS Regions = {r1, r2}  Posts = {s1, s2}  MaxRegionFaults = 2
CONSTANTS None = None  Owner = o  Users = {o, a, b}  Initial = {o, a}
CONSTANTS Kind = "group"  MaxGroupMembers = 3  Workers = {w1, w2}  Posters = {p1}
CONSTANTS MaxRequests = 2  MaxRosterFaults = 1
CONSTANTS TcpClients = {t1}  WsClients = {w1, w2}  MaxConnections = 1
CHECK_DEADLOCK FALSE
INVARIANTS UniqueUntilFailover RefusedOnlyByRotation 
INVARIANTS RosterSound  PodSound
PROPERTIES ImplementsQueue 
