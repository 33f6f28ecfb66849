----------------------------- MODULE Dashboards -----------------------------
(***************************************************************************)
(* Requests for a dashboard.  A request fires its database reads at once   *)
(* (Promise.all) and each is answered from the rows as they are when its   *)
(* turn comes, while tickets move, feedback arrives and payments succeed.  *)
(* There is no snapshot: the figures of one answer are of different        *)
(* moments.                                                                *)
(*                                                                         *)
(* answers holds what every read would return at each moment since the     *)
(* request came; the response takes each of the four counts of tickets     *)
(* that should add up from a moment of its own, and the other reads from   *)
(* one moment.  A behaviour answers one question.                          *)
(***************************************************************************)
EXTENDS Listings

CONSTANTS
  Databases,    \* the rows a behaviour may start with
  Questions,    \* what may be asked
  MaxChanges    \* bound: changes of the rows

Tables == {"tickets", "feedback", "responses", "payments", "users", "subscriptions",
           "orgs", "articles", "requests", "forms", "notices", "categories", "saved",
           "files", "usage", "invitations", "plans"}

\* Feedback is about a ticket of its own organization, and an article is filed
\* in a category of its own.
RowsBelong(d) ==
  /\ \A r \in d.feedback \cup d.responses, t \in d.tickets :
       r.ticket = t.id => r.org = t.org
  /\ \A a \in d.articles, c \in d.categories : a.category = c.id => a.org = c.org

\* What a plan limits.
Resources == {"users", "customers", "agents", "tickets", "articles", "invitations",
              "storage", "apiCalls"}

\* An organization has one subscription at most, of a plan that is there.
PlansBelong(d) ==
  /\ \A r, s \in d.subscriptions : r.org = s.org => r = s
  /\ \A s \in d.subscriptions : s.plan \in DOMAIN d.plans
  /\ \A p \in DOMAIN d.plans, k \in Resources : d.plans[p].limits[k] \in Int

TicketStatuses == {"OPEN", "IN_PROGRESS", "WAITING_FOR_CUSTOMER", "ON_HOLD", "ESCALATED",
                   "RESOLVED", "CLOSED", "REOPENED"}

TicketsStand(d) ==
  \A t \in d.tickets : /\ {"id", "org", "status", "created"} \subseteq DOMAIN t
                       /\ t.status \in TicketStatuses
                       /\ t.created \in Int

\* A payment that succeeded says when.
PaymentsStand(d) ==
  \A p \in d.payments : /\ {"status", "amount", "created", "paid"} \subseteq DOMAIN p
                        /\ p.amount \in Nat /\ p.created \in Int
                        /\ p.status = "SUCCESSFUL" => p.paid \in Int

\* The other columns figures are computed from.  An overall question may be asked
\* on the scale to ten, and a form need not have one.
ValuesStand(d) ==
  /\ \A r \in d.feedback : r.rating \in 1..5 /\ r.at \in Int
  /\ \A r \in d.responses : r.overall \in (1..10) \cup {None} /\ r.at \in Int
  /\ \A u \in d.users : u.created \in Int
  /\ \A f \in d.files : f.size \in Nat
  /\ \A u \in d.usage : u.value \in Nat

\* What the database keeps to, whatever is written.
RowsStand(d) ==
  /\ Tables \subseteq DOMAIN d
  /\ \A table \in Tables \ {"plans"} : IsFiniteSet(d[table])
  /\ IsFiniteSet(DOMAIN d.plans)
  /\ TicketsStand(d) /\ PaymentsStand(d) /\ ValuesStand(d)
  /\ RowsBelong(d) /\ PlansBelong(d)

QuestionKinds == {"dashboard", "aggregate", "report", "charts", "search"} \cup ListingKinds
AccessRoles == Staff \cup {"PLATFORM_ADMIN", "CUSTOMER"}

\* What is asked, as the validated filters let it through.  The image runs on
\* UTC, where the gate's month starts on the first at the time of day the clock
\* shows, and so not before the month of the dashboard.
QuestionStands(q) ==
  /\ {"access", "kind", "filter", "now", "month", "clock", "year"} \subseteq DOMAIN q
  /\ q.kind \in QuestionKinds /\ q.access.role \in AccessRoles
  /\ q.now \in Int /\ q.month \in Int /\ q.clock \in Nat
  /\ q.year \in Int /\ q.year <= q.month
  /\ {"agent", "priority", "from", "to", "width", "page", "limit"} \subseteq DOMAIN q.filter
  /\ q.filter.from \in Int \cup {None} /\ q.filter.to \in Int \cup {None}
  /\ q.filter.width \in Nat \ {0}
  /\ q.filter.page \in Nat \ {0} /\ q.filter.limit \in Nat \ {0}

ASSUME DashboardsAssumption ==
  /\ MaxChanges \in Nat
  /\ \A d \in Databases : RowsStand(d)
  /\ \A q \in Questions : QuestionStands(q)

VARIABLES
  db,           \* the rows
  changes,      \* changes so far
  asked,        \* the question being answered
  answers,      \* the answers of the reads at each moment since it was asked
  shown         \* the last answer, and how many changes it overlapped

dashboardVars == <<db, changes, asked, answers, shown>>

Nothing == [kind |-> None]
-----------------------------------------------------------------------------
(* The reads of each dashboard.                                            *)

\* Feedback as the platform dashboard averages it.
AverageFeedbackRating(d, q) == AverageOf(Rating, FeedbackRows(d, q))

Mine(rows, q) == {r \in rows : r.org = q.access.org}

\* All rows count, deleted tickets and archived articles too.
PlanUsage(d, q) ==
  LET users == Mine(d.users, q)
  IN  [users |-> Cardinality(users),
       customers |-> Cardinality({u \in users : u.role = "CUSTOMER"}),
       agents |-> Cardinality({u \in users : u.role = "SUPPORT_AGENT"}),
       tickets |-> Cardinality({t \in Mine(d.tickets, q) : t.created >= q.month}),
       articles |-> Cardinality(Mine(d.articles, q)),
       invitations |-> InStatus(Mine(d.invitations, q), {"PENDING"}),
       storage |-> Total(LAMBDA f : f.size, Mine(d.files, q)),
       apiCalls |-> Total(LAMBDA u : u.value,
                          {u \in Mine(d.usage, q) : u.metric = "API_CALL"})]

RemainingLimits(used, limits) ==
  [k \in DOMAIN used |-> Larger(0, limits[k] - used[k])]

\* Whatever the status of the subscription.
SubscriptionContext(d, q) ==
  LET rows == Mine(d.subscriptions, q)
      limits == d.plans[(CHOOSE s \in rows : TRUE).plan].limits
      used == PlanUsage(d, q)
  IN  IF q.access.org = None \/ rows = {} THEN None
      ELSE [used |-> used, limits |-> limits,
            remaining |-> RemainingLimits(used, limits)]

\* The two views a tenant gets of what is left of its plan, with what the gate
\* would let pass.
UsageReads(d, q) ==
  [overview |-> UsageOverview(d, q), context |-> SubscriptionContext(d, q),
   entitled |-> Entitled(d, q) # {},
   granted |-> {k \in DOMAIN PlanUsage(d, q) : Grants(d, q, k)}]

SystemHealth(d) ==
  LET paid == InStatus(d.payments, {"SUCCESSFUL"})
      failed == InStatus(d.payments, {"FAILED"})
      rate == Percent(failed, paid + failed)
  IN  [rate |-> rate,
       status |-> IF rate < 50 THEN "OPERATIONAL" ELSE "DEGRADED",
       awaited |-> Cardinality({t \in d.tickets : t.invited /\ ~t.answered}),
       organizations |-> Cardinality(d.orgs),
       tickets |-> Cardinality(d.tickets)]

\* The counts of the whole platform, whatever the filter.
PlatformCounts(d) ==
  [total |-> Cardinality(d.orgs),
   active |-> InStatus(d.orgs, {"ACTIVE"}),
   inactive |-> InStatus(d.orgs, {"SUSPENDED", "INACTIVE"}),
   trial |-> InStatus(d.subscriptions, {"TRIALING"}),
   paid |-> InStatus(d.subscriptions, {"ACTIVE", "PAST_DUE"}),
   users |-> Cardinality(d.users),
   customers |-> Cardinality({u \in d.users : u.role = "CUSTOMER"}),
   agents |-> Cardinality({u \in d.users : u.role \in Staff /\ u.status = "ACTIVE"}),
   activeUsers |-> InStatus(d.users, {"ACTIVE"})]

\* The latest rows: only feedback looks at the range.
PlatformRecent(d, q) ==
  [organizations |-> Newest(d.orgs, Created, 8),
   payments |-> Newest({p \in d.payments : p.status = "SUCCESSFUL"},
                       LAMBDA p : p.paid, 8),
   feedback |-> Newest({r \in d.feedback : Within(r.at, ResolveRange(q))},
                       LAMBDA r : r.at, 8),
   tickets |-> Newest(d.tickets, Created, 8)]

PlatformReads(d, q) ==
  [counts |-> PlatformCounts(d), recent |-> PlatformRecent(d, q),
   tickets |-> TicketReads(d, q),
   mrr |-> GetMrr(d, q), arr |-> 12 * GetMrr(d, q),
   distribution |-> SubscriptionDistribution(d, q),
   storage |-> Total(LAMBDA f : f.size, d.files),
   apiCalls |-> GetUsage(d, q).apiCalls,
   kpis |-> ComputeKpis(d, q),
   averageRating |-> AverageFeedbackRating(d, q),
   revenue |-> TotalRevenue(d, q), trend |-> RevenueTrend(d, q),
   monthly |-> MonthlyRevenue(d, q), annual |-> AnnualRevenue(d, q),
   growth |-> GetOrganizations(d, q), health |-> SystemHealth(d)]

TenantReads(d, q) ==
  [tickets |-> TicketReads(d, q), feedback |-> GetFeedback(d, q),
   customers |-> InStatus(Customers(d, q), {"ACTIVE"}),
   agents |-> Cardinality(ActiveAgents(d, q)),
   storage |-> Storage(d, q),
   subscription |-> SubscriptionContext(d, q),
   payments |-> Newest(Paid(d, q), LAMBDA p : p.paid, 8),
   kpis |-> ComputeKpis(d, q),
   performance |-> GetAgentPerformance(d, d, q)]

\* The agent's own tickets, as the filter of the request is overridden.
Own(q) == [q EXCEPT !.filter.agent = q.access.user]

AgentRatings(d, q) ==
  LET rows == {r \in d.feedback : \E t \in d.tickets :
                 /\ t.id = r.ticket /\ t.agent = q.access.user
                 /\ t.org = q.access.org}
  IN  [count |-> Cardinality(rows), average |-> AverageOf(Rating, rows)]

AgentReads(d, q) ==
  [tickets |-> TicketReads(d, Own(q)),
   performance |-> GetAgentPerformance(d, d, Own(q)),
   ratings |-> AgentRatings(d, q)]

\* A customer's answer does not go through the scope.
CustomerReads(d, q) ==
  LET own == {t \in d.tickets : t.by = q.access.user}
      rows == CreatedIn(own, q)
      done == InStatus(rows, DoneStatuses)
  IN  [tickets |->
         [total |-> Cardinality(rows), open |-> InStatus(rows, OpenStatuses),
          resolved |-> done, closed |-> 0,
          recent |-> Newest(rows, Created, 8)],
       pending |-> Cardinality({t \in own : t.invited /\ ~t.answered}),
       submitted |-> Cardinality({r \in d.feedback : r.by = q.access.user})]

\* The aggregate of GET /analytics.
AggregateReads(d, q) ==
  [tickets |-> TicketReads(d, q), feedback |-> GetFeedback(d, q),
   payments |-> PaymentReads(d, q), customers |-> GetCustomers(d, q),
   usage |-> GetUsage(d, q), articles |-> GetKnowledgeBase(d, q),
   revenue |-> GetRevenue(d, q), kpis |-> ComputeKpis(d, q)]

\* The rows a report lists with the summary beside them, of every category.
ReportReads(d, q) ==
  [tickets |-> TicketReads(d, q), feedback |-> GetFeedback(d, q),
   payments |-> PaymentReads(d, q), customers |-> GetCustomers(d, q),
   kpis |-> ComputeKpis(d, q),
   rows |-> [c \in {k \in ReportCategories : Listable(k, q)} |->
               DatasetRows(d, c, q)]]

\* The saved reports of the organization, of all organizations for the
\* platform.
ListReports(d, q) ==
  LET rows == {r \in d.saved : \/ q.access.role = "PLATFORM_ADMIN"
                               \/ r.org = q.access.org}
  IN  [items |-> Newest(rows, Created, 10), total |-> Cardinality(rows)]

\* What a search finds of one kind; the texts are left out, so it finds all,
\* and the number of rows is below the limit of a page.
EntityRows(d, entity, q) ==
  CASE entity = "organization" ->
         {o \in d.orgs : \/ q.access.role = "PLATFORM_ADMIN"
                         \/ o.id = q.access.org}
    [] entity = "ticket" -> BaseScope(d.tickets, q)
    [] entity = "customer" -> Customers(d, q)
    [] entity = "agent" ->
         {u \in BaseScope(d.users, q) : u.role = "SUPPORT_AGENT"}
    [] entity = "payment" -> BaseScope(d.payments, q)
    [] entity = "subscription" -> BaseScope(d.subscriptions, q)

Sweep == {"ticket", "customer", "agent", "payment"}

\* The endpoint gives a report category for the entity, which names none of
\* the kinds: every search sweeps.
SearchReads(d, q) ==
  [entities |-> [e \in Sweep |-> EntityRows(d, e, q)],
   reports |-> ListReports(d, q)]

\* The dashboard of the role.
RoleReads(d, q) ==
  CASE q.access.role = "PLATFORM_ADMIN" -> PlatformReads(d, q)
    [] q.access.role = "TENANT_OWNER" -> TenantReads(d, q)
    [] q.access.role = "SUPPORT_AGENT" -> AgentReads(d, q)
    [] q.access.role = "CUSTOMER" -> CustomerReads(d, q)

DashboardReads(d, q) ==
  CASE q.kind = "dashboard" -> RoleReads(d, q)
    [] q.kind = "aggregate" -> AggregateReads(d, q)
    [] q.kind = "report" -> ReportReads(d, q)
    [] q.kind = "charts" -> GetCharts(d, q, ChartTypes)
    [] q.kind = "search" -> SearchReads(d, q)
    [] q.kind = "usage" -> UsageReads(d, q)
    [] q.kind \in ListingKinds \ {"usage"} -> ListingReads(d, q)

\* Who asks; the platform may name an organization, which no read looks at.
AccessOf(user, header) ==
  [role |-> user.role, user |-> user.id,
   org |-> IF user.role = "PLATFORM_ADMIN" THEN header ELSE user.org]

Allowed(q) ==
  IF q.kind \in ListingKinds THEN MayList(q)
  ELSE /\ q.kind \in {"aggregate", "report", "charts"} => q.access.role # "CUSTOMER"
       /\ q.access.role # "CUSTOMER" => MayScope(q)
-----------------------------------------------------------------------------
DashboardInit ==
  /\ db \in Databases
  /\ changes = 0
  /\ asked = Nothing /\ answers = <<>> /\ shown = Nothing

\* What the rows were before the question came is the choice of Databases.
Changes(rows) ==
  /\ asked # Nothing
  /\ changes < MaxChanges
  /\ changes' = changes + 1
  /\ db' = rows
  /\ answers' = Append(answers, DashboardReads(rows, asked))
  /\ UNCHANGED <<asked, shown>>

\* A ticket changes its status, or goes to another agent.
MoveTicket(t, to) ==
  /\ to # t
  /\ Changes([db EXCEPT !.tickets = (@ \ {t}) \cup {to}])

SetTicketStatus(t, status) ==
  MoveTicket(t, [t EXCEPT !.status = status,
                          !.resolved = IF status = "RESOLVED"
                                       THEN t.created + 1 ELSE @])

AssignTicket(t, agent) == MoveTicket(t, [t EXCEPT !.agent = agent])

SettlePayment(p) ==
  /\ p.status = "PENDING"
  /\ Changes([db EXCEPT !.payments = (@ \ {p}) \cup
       {[p EXCEPT !.status = "SUCCESSFUL", !.paid = p.created]}])

Ask(q) ==
  /\ asked = Nothing /\ shown = Nothing
  /\ Allowed(q)
  /\ asked' = q
  /\ answers' = <<DashboardReads(db, q)>>
  /\ UNCHANGED <<db, changes, shown>>

Apart == {"total", "open", "resolved", "closed"}

Has(figures, field) == field \in DOMAIN figures

Mixed(at, rest) ==
  IF ~Has(rest, "tickets") THEN rest
  ELSE [rest EXCEPT !.tickets =
          [k \in DOMAIN rest.tickets |->
             IF k \in Apart THEN answers[at[k]].tickets[k]
                            ELSE rest.tickets[k]]]

Answer ==
  /\ asked # Nothing
  /\ \E at \in [Apart -> DOMAIN answers], rest \in DOMAIN answers :
       shown' = [question |-> asked, overlapped |-> Len(answers) - 1,
                 figures |-> Mixed(at, answers[rest])]
  /\ asked' = Nothing /\ answers' = <<>>
  /\ UNCHANGED <<db, changes>>

DashboardNext ==
  \/ \E t \in db.tickets :
       \/ \E s \in {"OPEN", "REOPENED", "RESOLVED", "CLOSED"} : SetTicketStatus(t, s)
       \/ \E u \in db.users : /\ u.role = "SUPPORT_AGENT" /\ u.status = "ACTIVE"
                              /\ AssignTicket(t, u.id)
  \/ \E p \in db.payments : SettlePayment(p)
  \/ \E q \in Questions : Ask(q)
  \/ Answer

DashboardSpec == DashboardInit /\ [][DashboardNext]_dashboardVars
-----------------------------------------------------------------------------
(* Properties. *)

Rate == 0..1000

DashboardTypeOK ==
  /\ changes \in 0..MaxChanges
  /\ asked \in Questions \cup {Nothing}
  /\ Len(answers) <= MaxChanges + 1
  /\ asked = Nothing <=> answers = <<>>

Difference(a, b) == IF a > b THEN a - b ELSE b - a

\* The range fits in the buckets of the trend, and is not narrowed further
\* by the priority, which only the trend looks at.
Charted(q) ==
  LET range == ResolveRange(q)
  IN  /\ range.to \div q.filter.width - range.from \div q.filter.width < MaxBuckets
      /\ q.filter.priority = None

TicketsAgree(t, q) ==
  /\ t.total = SumFunction(t.byStatus) /\ t.total = SumFunction(t.byPriority)
  /\ Charted(q) => t.total = SumFunction(t.trend)
  /\ t.pending <= t.open /\ t.escalated <= t.open /\ t.overdue <= t.open
  /\ ResolutionRate(t) \in Rate

FeedbackAgrees(r, f, q) ==
  /\ r.responses = SumFunction(r.distribution) /\ r.responses = SumFunction(r.byTicket)
  /\ Charted(q) => r.responses = SumFunction(r.trend)
  /\ q.filter.customer = None /\ q.filter.rating = None =>
       Difference(r.csat, f.kpis.csat) <= 1

MoneyAgrees(m, kpis) ==
  /\ m.total = SumFunction(m.byPlan)
  /\ m.monthly <= m.annual /\ m.annual <= m.total
  /\ SumFunction(m.trend) <= m.total
  /\ SumFunction(m.distribution.byPlan) = SumFunction(m.distribution.byStatus)
  /\ m.monthly = kpis.monthly /\ m.annual = kpis.annual

PerformanceAgrees(p, t) ==
  /\ SumFunction([a \in DOMAIN p.rows |-> p.rows[a].assigned]) <= t.total
  /\ \A a \in DOMAIN p.rows : p.rows[a].resolved <= p.rows[a].assigned

\* The rows a report lists and the counts in its summary.
RowsAgree(rows, f, q) ==
  /\ q.filter.status = None /\ q.filter.priority = None =>
       Cardinality(rows["TICKETS"]) = f.tickets.total
  /\ q.filter.customer = None =>
       Cardinality(rows["FEEDBACK"]) = f.feedback.responses
  /\ Cardinality(rows["PAYMENTS"]) = f.payments.total
  /\ Cardinality(rows["CUSTOMERS"]) = f.customers.total

\* What two services count each on its own comes out the same.
ServicesAgree(f, q) ==
  /\ Has(f, "tickets") /\ Has(f, "kpis") =>
       f.kpis.resolutionRate = ResolutionRate(f.tickets)
  /\ Has(f, "feedback") /\ q.filter.customer = None /\ q.filter.rating = None =>
       f.feedback.nps = f.kpis.nps
  /\ q.kind = "report" => RowsAgree(f.rows, f, q)

ChartsAgree(f) ==
  LET n == Len(ChartTypes)
      Counts(charts) == SumFunction(charts[n].data)
  IN  /\ \A charts \in {f.ticketCharts, f.revenueCharts, f.customerCharts} :
           [i \in DOMAIN charts |-> charts[i].type] = ChartTypes
      /\ SumFunction(f.ticketCharts[1].data) <= Counts(f.ticketCharts)
      /\ Counts(f.ticketCharts) = Counts(f.revenueCharts)

CountOfGroups(groups) == SumFunction([v \in DOMAIN groups |-> groups[v].count])

\* Every response is in one survey, one period and, for the platform, in one
\* organization; those with a score have one mark each, and there is an average
\* where there is a mark.  Only scores above five, on the scale to ten, take the
\* satisfaction above a hundred, and those have the highest mark.
SurveyAgrees(s, q) ==
  LET scored == SumFunction(s.distribution)
  IN  /\ s.responses = CountOfGroups(s.trends)
      /\ s.responses = CountOfGroups(s.surveys)
      /\ ForPlatform(q) => s.responses = CountOfGroups(s.organizations)
      /\ scored <= s.responses
      /\ s.average = None <=> scored = 0
      /\ s.completionRate \in Rate
      /\ s.csat \in 0..(IF s.distribution[5] > 0 THEN 200 ELSE 80)

\* What the dashboard of a paying tenant shows as left, the gate grants,
\* although the two count the tickets of a month, deleted tickets and archived
\* articles in ways of their own.  The gate counts owners as agents, and does
\* not go by the metered calls.
LeftIsGranted(f, resources) ==
  f.entitled =>
    \A k \in resources : f.context.remaining[k] > 0 => k \in f.granted

CountedResources == {"customers", "tickets", "articles", "invitations"}

PortalAgrees(f) ==
  f.ticketStats.total = f.ticketStats.open + f.ticketStats.resolved
                        + f.ticketStats.closed

\* What an answer tells of tickets does not add up when tickets move while it
\* is computed, but it is out by at most one ticket for every change it
\* overlapped: no status is left out of, or counted in two of, the lists the
\* counts are made with (getTickets, getCustomerDashboard).
CountsDrift ==
  shown # Nothing /\ Has(shown.figures, "tickets") =>
    LET t == shown.figures.tickets
    IN  Difference(t.total, t.open + t.resolved + t.closed) <= shown.overlapped

\* The figures of one answer, side by side.
OfOnePiece(f, q) ==
  LET t == f.tickets  s == f.subscription
  IN  /\ q.kind = "survey" => SurveyAgrees(f.survey, q)
      /\ q.kind = "usage" => LeftIsGranted(f, CountedResources \cup {"storage"})
      /\ Has(f, "found") =>
           f.found.more <=> f.found.total > q.filter.page * q.filter.limit
      /\ Has(f, "tickets") /\ q.access.role # "CUSTOMER" => TicketsAgree(t, q)
      /\ Has(f, "feedback") => FeedbackAgrees(f.feedback, f, q)
      /\ Has(f, "averageRating") =>
           Difference(2 * f.averageRating, f.kpis.csat) <= 1
      /\ ServicesAgree(f, q)
      /\ q.kind = "charts" => ChartsAgree(f)
      /\ q.kind = "aggregate" =>
           /\ MoneyAgrees(f.revenue, f.kpis)
           /\ SuccessRate(f.payments) \in Rate
           /\ f.payments.revenue <= f.revenue.total
           /\ Charted(q) => f.customers.total = SumFunction(f.customers.trend)
      /\ Has(f, "performance") => PerformanceAgrees(f.performance, t)
      /\ Has(f, "subscription") /\ s # None =>
           \A k \in DOMAIN s.used : s.used[k] <= s.limits[k] =>
             s.used[k] + s.remaining[k] = s.limits[k]

\* An answer that no change overlapped is of one piece: what two services
\* count each on its own comes out the same, or on the safe side where they
\* count differently, every distribution and trend adds up to its total, and
\* no rate is above a hundred percent (getTickets and kpi.compute,
\* getFeedback and csat, getRevenue, getSubscriptionContext, getCharts).
FiguresAgree ==
  shown # Nothing /\ shown.overlapped = 0 => OfOnePiece(shown.figures, shown.question)

\* What the rows of the other organizations are does not matter.
OwnRows(d, q) ==
  LET own(rows) == Mine(rows, q)
  IN  [d EXCEPT !.tickets = own(@), !.feedback = own(@), !.payments = own(@),
                !.responses = own(@),
                !.users = own(@), !.subscriptions = own(@), !.articles = own(@),
                !.files = own(@), !.usage = own(@), !.invitations = own(@),
                !.saved = own(@), !.requests = own(@), !.forms = own(@),
                !.notices = own(@), !.categories = own(@),
                !.orgs = {o \in @ : o.id = q.access.org}]

\* No figure, list or rate that staff of an organization get, or a customer in
\* the portal, depends on the rows of another one: with those gone every answer
\* is the same.  Each of some sixty reads states the scope anew (resolveScope,
\* ticketScopeWhere, baseScopeWhere and the where clauses of
\* dashboard.service).
OnlyOwnRows ==
  asked # Nothing /\ (asked.access.role \in Staff \/ asked.kind \in ListingKinds)
                  /\ ~ForPlatform(asked) =>
    answers[Len(answers)] = DashboardReads(OwnRows(db, asked), asked)
=============================================================================
