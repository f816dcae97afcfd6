SPECIFICATION Spec
CONSTANTS
  None = None
  o1 = o1 i1 = i1 i2 = i2 h1 = h1 h2 = h2 s1 = s1 p1 = p1
  Orders = {o1}
  Intents = {i1}
  Handlers = {h1, h2}
  Sweepers = {h1, h2}
  Pollers = {h1, h2}
  MaxDisputes = 1
  MaxRetries = 1
  Payable = {o1}
  Subscribed = {"amount_capturable", "canceled"}
  Faults = {"database", "crash"}
SYMMETRY HandlerSymmetry
INVARIANTS TypeOK PayoutIsEarned CompletedIsPaid TrailTruthful OneRulingActs WebhookHandledOnce DisputedHasDispute
PROPERTIES EscrowImplemented
CHECK_DEADLOCK FALSE
