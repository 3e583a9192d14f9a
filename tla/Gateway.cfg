SPECIFICATION GwSpec
CONSTANTS Nobody = Nobody  Conns = {1, 2}  Users = {u1}  AuthKeys = {k1}  QueueSize = 2
CONSTANTS OutSize = 1  MaxBinds = 2  MaxUpdates = 2  MaxGwFaults = 1
CHECK_DEADLOCK FALSE
INVARIANTS RoutesExact DeliveredInOrder
