SPECIFICATION FairSpec
CONSTANTS
  None = None
  e1 = e1 e2 = e2 e3 = e3 e4 = e4 p1 = p1 p2 = p2 c1 = c1 c2 = c2
  Events = {e1, e2, e3, e4}
  Malformed = {e3}
  Partitions = {p1, p2}
  PartitionOf <- KeyHash
  Consumers = {c1, c2}
  Faults = {"broker", "ack", "restart", "start", "database", "answer", "session", "crash"}
  MaxFaults = 1
INVARIANTS TypeOK NothingSkipped StoredInOrder
PROPERTIES StoredOrHeldUp
CHECK_DEADLOCK FALSE
ACTION_CONSTRAINT InTurn
