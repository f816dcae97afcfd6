SPECIFICATION Spec
CONSTANTS
  None = None
  u1 = u1 u2 = u2 h1 = h1 h2 = h2
  Users = {u1, u2}
  Handlers = {h1, h2}
  MaxListings = 1
  MaxReviews = 2
  MaxDisputes = 0
  SignupGrant = 1
  StrikeLimit = 3
  Faults = {"database", "crash"}
SYMMETRY ExchangeSymmetry
INVARIANTS TypeOK RewardIsEarned ReviewIsClaimed CancelledIsOver
CHECK_DEADLOCK FALSE
