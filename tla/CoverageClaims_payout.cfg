SPECIFICATION Spec
CONSTANTS
  None = None
  o1 = o1 i1 = i1 i2 = i2 h1 = h1 h2 = h2 s1 = s1 p1 = p1
  Orders = {o1}
  Intents = {i1}
  Handlers = {h1}
  Sweepers = {}
  Pollers = {p1}
  MaxDisputes = 0
  MaxRetries = 1
  Payable = {o1}
  Subscribed = {"amount_capturable"}
  Faults = {}
INVARIANTS SinglePayout
CHECK_DEADLOCK FALSE
