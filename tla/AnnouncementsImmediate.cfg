SPECIFICATION NewsSpec
CONSTANTS
  Tenant = {n1}
  Platform = {}
  NoNews = NoNews
  Senders = {w1}
  MaxThrows = 0
INVARIANT
  PublishedIsDelivered
CHECK_DEADLOCK FALSE
