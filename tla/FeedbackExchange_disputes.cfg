SPECIFICATION FairSpec
CONSTANTS
  None = None
  u1 = u1 u2 = u2 h1 = h1 h2 = h2
  Users = {u1, u2}
  Handlers = {h1, h2}
  MaxListings = 1
  MaxReviews = 1
  MaxDisputes = 1
  SignupGrant = 1
  StrikeLimit = 2
  Faults = {}
INVARIANTS UpheldOnly LimitSuspends
PROPERTIES EveryMoveIsBooked
CHECK_DEADLOCK FALSE
