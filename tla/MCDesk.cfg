SPECIFICATION DeskSpec
CONSTANTS
  Articles = {a1, a2}  NoArticle = NoArticle
  Categories = {k1}  NoCategory = NoCategory
  Readers = {u1, u2}  Remarks = {m1}  Clerks = {c1, c2}
  MaxEdits = 3  MaxRequests = 4
  None = None  Span = 6  MaxBuckets = 3
  Databases <- MCDatabases  Questions <- MCQuestions  MaxChanges = 1
  ReportIds = {r1}  NoReport = NoReport  Kinds = {tickets, custom}
  CustomKind = custom  NoKind = NoKind  Editors = {c1, c2}  MaxMails = 1
  Agents = {u1, u2}  Customer = customer  Nobody = Nobody
  Labels = {l1}  Helpers = {c1, c2}
  FirstDue = 0  MaxTime = 1  MaxReplies = 2  MaxHelp = 3
  Files = {a1, a2}  People = {p1, p2}  Stranger = Stranger
  Officers = {p1}  Carriers = {c1, c2}  MaxBatch = 2
  FormIds = {a1, a2}  NoForm = NoForm  QuestionIds = {q1, q2}  Required = {q1}
  Slugs = {g1}  NoSlug = NoSlug  Responses = {v1}
  Callers = {c1, c2}  MaxCalls = 4
  Users = {i1, i2}  Admins = {i2}  Noone = Noone
  Notes = {a1, a2}  Hands = {c1, c2}  MaxHands = 3
  Members = {f1, a1, a2}  Founder = f1  Facts = {d1, d2}
  Offices = {c1, c2}  MaxActs = 3
  PlanIds = {a1, a2}  NoPlan = NoPlan  Codes = {FREE, PRO}  FreeCode = FREE
  Tills = {c1, c2}  MaxSales = 4
SYMMETRY Symmetry
INVARIANTS
  DeskTypesOK
  HistoryKept
  CountersAreVotes
  CountsDrift
  FiguresAgree
  
  RunsItsType
  
  TagsAreWanted
  FilesMatch
  AnswersKept
  BadgeIsRight
  TenantKept
  PlansKept
CHECK_DEADLOCK FALSE
