SPECIFICATION Spec
CONSTANTS
  Payments = {p1}
  Handlers = {h1, h2}
  NoPayment = NoPayment
  MaxFailures = 0
INVARIANT ActivatedAtMostOnce
CHECK_DEADLOCK FALSE
