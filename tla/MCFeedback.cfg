SPECIFICATION FairSpec
CONSTANTS
  Working <- MCWorking
  Staff = {s1}
  Requests = {q1}
  NoRequest = NoRequest
  Workers = {w1, w2}
  AllowMultiple = FALSE
  HasAttachments = TRUE
  MaxResponses = 1
  MaxFailures = 1
INVARIANTS
  TypeOK
  FeedbackIsEarned
  
PROPERTY
  OverdueIsExpired
CHECK_DEADLOCK FALSE
