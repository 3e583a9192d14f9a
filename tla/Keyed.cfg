SPECIFICATION MCSpec
CONSTANTS People = {u1, u2}  Sends = {s1, s2}  Edits = {e1, e2}  MaxBlockFaults = 1
CONSTANTS Tasks = {t1, t2}  ReportSlots = {r1, r2}  MaxModFaults = 1
CONSTANTS Peers = {q1, q2, q3}  Handlers = {h1, h2}  NoCall = NoCall
CONSTANTS MaxCallIds = 2  MaxCallRequests = 2  MaxCallFaults = 1
CHECK_DEADLOCK FALSE
INVARIANTS BlocksHold BansHold CallsHold
PROPERTY KeyedLiveness
