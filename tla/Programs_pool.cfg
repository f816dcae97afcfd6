SPECIFICATION Spec
CONSTANTS
  w1 = w1 w2 = w2 c1 = c1 c2 = c2
  Workers = {w1, w2}
  Connections = {c1, c2}
  Rows = {"app", "job", "log", "cohort", "member", "session", "attendee", "integration", "sessionlog", "windows"}
  Kinds = {"cohort"}
  MaxAttempts = 1
  MaxClaims = 1
  TokenAsked = FALSE
  Faults = {}
SYMMETRY PoolSymmetry
INVARIANTS DecisionKept
CHECK_DEADLOCK FALSE
