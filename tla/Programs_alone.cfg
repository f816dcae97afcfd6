SPECIFICATION FairSpec
CONSTANTS
  w1 = w1 w2 = w2 c1 = c1 c2 = c2
  Workers = {w1}
  Connections = {c1}
  Rows = {"app", "job", "log", "cohort", "member", "session", "attendee", "integration", "sessionlog", "windows"}
  Kinds = {"cohort", "session", "windows"}
  MaxAttempts = 2
  MaxClaims = 3
  TokenAsked = FALSE
  Faults = {"database", "notify", "crash"}
INVARIANTS TypeOK RecordedWasSent
PROPERTIES DueIsDone
CHECK_DEADLOCK FALSE
