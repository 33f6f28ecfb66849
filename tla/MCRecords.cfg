SPECIFICATION MCSpec
CONSTANTS
  Invitations = {i1, i2}
  NoInvitation = NoInvitation
  Requests = {r1, r2}
  Tokens = {t1, t2, t3, t4}
  NoToken = NoToken
  Links = {l1}
  NoLink = NoLink
  MaxFailures = 1
  Handlers = {h1, h2}
  MaxDeaths = 1
  Creators = {c1, c2}
  Limit = 1
  DayLength = 2
  LastDay = 1
  MaxTickets = 4
  MaxRestores = 1
SYMMETRY Symmetry
INVARIANTS
  TypesOK
  NumbersContiguous
  OvershootBounded
  UnverifiedHasLink
  
  TokensAreSpent
CHECK_DEADLOCK FALSE
