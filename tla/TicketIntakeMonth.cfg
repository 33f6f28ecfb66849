SPECIFICATION IntakeSpec
CONSTANTS
  Creators = {c1}
  Limit = 2
  DayLength = 2
  LastDay = 1
  MaxTickets = 4
  MaxRestores = 0
INVARIANT MonthlyLimitIsHard
CHECK_DEADLOCK FALSE
