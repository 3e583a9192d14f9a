CONSTANTS Addrs = {a1, a2}  NoAddr = none  Home = a1  PartCap = 1  Budgets <- MCBudgets
CONSTANTS Callers = {c1, c2}  Nobody = nobody  MaxSeen = 2  Behind = 1  Ahead = 0
CONSTANTS Skews = {0, 1}  Plans <- MCPlans
SPECIFICATION MCSpec
INVARIANTS UdpSafe  
PROPERTY WireLiveness
CHECK_DEADLOCK FALSE
