SPECIFICATION Spec
CONSTANTS
  free = free
  pro = pro
  Plans <- MCPlans
  Price <- MCPrice
  Free = free
  NoPlan = NoPlan
  Orders = {o1}
  NoOrder = NoOrder
  Requests = {r1, r2}
  MaxPeriods = 2
  MaxFailures = 1
SYMMETRY Symmetry
INVARIANTS
  TypeOK
  

  
  
CHECK_DEADLOCK FALSE
