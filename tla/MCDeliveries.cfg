SPECIFICATION FairDeliverySpec
CONSTANTS
  Payments = {p1}
  Handlers = {h1, h2, h3}
  NoPayment = NoPayment
  MaxFailures = 1
  Tenant = {n1}
  Platform = {n2}
  NoNews = NoNews
  Senders = {w1, w2}
  MaxThrows = 1
INVARIANTS
  PaidOnlyIfCharged
  ActivationsBounded
  
  BroadcastsBounded
PROPERTIES
  OutcomesAreKept
  
  ChargeIsRecorded
  
  
CHECK_DEADLOCK FALSE
