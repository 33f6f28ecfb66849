SPECIFICATION Spec
CONSTANTS
  Working <- MCWorking
  Staff = {s1}
  Requests = {q1}
  NoRequest = NoRequest
  Workers = {w1}
  AllowMultiple = FALSE
  HasAttachments = FALSE
  MaxResponses = 1
  MaxFailures = 0
PROPERTY
  ValidFeedbackIsStored
CHECK_DEADLOCK FALSE
