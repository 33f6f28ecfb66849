SPECIFICATION FairSpec
CONSTANTS
  free = free
  pro = pro
  Plans <- MCPlans
  Price <- MCPrice
  Free = free
  NoPlan = NoPlan
  Orders = {o1}
  NoOrder = NoOrder
  Requests = {r1}
  MaxPeriods = 2
  MaxFailures = 0
PROPERTY PeriodEndIsNoticed
CHECK_DEADLOCK FALSE
