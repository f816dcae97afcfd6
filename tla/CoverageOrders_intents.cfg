SPECIFICATION FairSpec
CONSTANTS
  None = None
  o1 = o1 i1 = i1 i2 = i2 h1 = h1 h2 = h2 s1 = s1 p1 = p1
  Orders = {o1}
  Intents = {i1, i2}
  Handlers = {h1, h2}
  Sweepers = {}
  Pollers = {}
  MaxDisputes = 0
  MaxRetries = 0
  Payable = {o1}
  Subscribed = {"amount_capturable", "charge_failed"}
  Faults = {}
INVARIANTS WorkIsPaid
PROPERTIES AuthorisedLeavesPlaced
CHECK_DEADLOCK FALSE
