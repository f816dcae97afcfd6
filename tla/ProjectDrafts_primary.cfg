SPECIFICATION FairSpec
CONSTANTS
  d1 = d1 d2 = d2 d3 = d3 w1 = w1 w2 = w2
  Connections = {w1, w2}
  Rows = {d1, d2, d3}
  MaxRequests = 5
  Faults = {"database"}
INVARIANTS TypeOK OnePrimary
PROPERTIES PrimaryIsHandedOn RequestsEnd
CHECK_DEADLOCK FALSE
