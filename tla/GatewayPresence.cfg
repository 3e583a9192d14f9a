SPECIFICATION GwFairSpec
CONSTANTS Nobody = Nobody  Conns = {1, 2}  Users = {u1, u2}  AuthKeys = {k1}  QueueSize = 2
CONSTANTS OutSize = 1  MaxBinds = 2  MaxUpdates = 0  MaxGwFaults = 1
CHECK_DEADLOCK FALSE
PROPERTY PresenceConverges
