SPECIFICATION FairSpec
CONSTANTS
  free = free
  pro = pro
  Plans <- MCPlans
  Price <- MCPrice
  Free = free
  NoPlan = NoPlan
  Orders = {}
  NoOrder = NoOrder
  Requests = {r1, r2}
  MaxPeriods = 1
  MaxFailures = 1
PROPERTIES
  TrialEnds
  CancellationTakesEffect
  DueChangeIsApplied
CHECK_DEADLOCK FALSE
