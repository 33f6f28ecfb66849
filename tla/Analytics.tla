----------------------------- MODULE Analytics -----------------------------
(***************************************************************************)
(* The figures of the dashboards, the analytics endpoints, the reports and *)
(* the key performance indicators, as functions of the rows they count.    *)
(*                                                                         *)
(* db is what the database holds: for every table a set of rows.  q is the *)
(* question: who asks (access), with which filter, and when.  An operator  *)
(* whose name ends in Reads returns one field per database read, so that a *)
(* request that overlaps with changes can be given each field from another *)
(* moment; what the code computes from the answers is an operator of its   *)
(* own on those fields.                                                    *)
(*                                                                         *)
(* Rates are in tenths of a percent and averages and money in hundredths,  *)
(* as the code rounds them.  Instants are numbers of minutes, and a bucket *)
(* of a trend is an interval of width instants.  The lists of the latest   *)
(* rows are sets.  Names, addresses and other columns only shown are left  *)
(* out, and the department filter, which is handled as the priority is.    *)
(***************************************************************************)
EXTENDS Integers, FiniteSets, Sequences, Functions

CONSTANTS
  None,         \* null
  Span,         \* the default range, 90 days
  MaxBuckets    \* the most buckets of a trend, 4000

ASSUME AnalyticsAssumption ==
  /\ None \notin Int
  /\ Span \in Nat /\ MaxBuckets \in Nat
-----------------------------------------------------------------------------
(* Arithmetic.                                                             *)

\* Math.round of n/d.
Round(n, d) == (2 * n + d) \div (2 * d)

Percent(n, d) == IF d = 0 THEN 0 ELSE Round(1000 * n, d)

Average(total, n) == IF n = 0 THEN 0 ELSE Round(100 * total, n)

Total(Of(_), rows) == SumFunctionOnSet([r \in rows |-> Of(r)], rows)

AverageOf(Of(_), rows) == Average(Total(Of, rows), Cardinality(rows))

CountBy(rows, Of(_)) ==
  [v \in {Of(r) : r \in rows} |-> Cardinality({r \in rows : Of(r) = v})]

SumBy(rows, Of(_), Amount(_)) ==
  [v \in {Of(r) : r \in rows} |-> Total(Amount, {r \in rows : Of(r) = v})]

\* orderBy: desc, take: n.
Newest(rows, At(_), n) ==
  {r \in rows : Cardinality({s \in rows : At(s) > At(r)}) < n}

Status(r) == r.status
One(r) == 1
Amount(p) == p.amount
Created(r) == r.created
Rating(r) == r.rating

Larger(a, b) == IF a > b THEN a ELSE b
-----------------------------------------------------------------------------
(* Ranges, buckets and scopes.                                             *)

ResolveRange(q) ==
  LET to == IF q.filter.to = None THEN q.now ELSE q.filter.to
      from == IF q.filter.from = None THEN to - Span ELSE q.filter.from
  IN  [from |-> IF from > to THEN to ELSE from, to |-> to]

Within(at, range) == at # None /\ range.from <= at /\ at <= range.to

Buckets(q) ==
  LET range == ResolveRange(q)
      first == range.from \div q.filter.width
  IN  {b \in first .. (range.to \div q.filter.width) : b < first + MaxBuckets}

Trend(rows, At(_), Of(_), q) ==
  [b \in Buckets(q) |->
     Total(Of, {r \in rows : At(r) \div q.filter.width = b})]

Staff == {"TENANT_OWNER", "SUPPORT_AGENT"}

MayScope(q) ==
  \/ q.access.role = "PLATFORM_ADMIN"
  \/ /\ q.access.org # None
     /\ \/ q.filter.agent = None
        \/ q.access.role = "TENANT_OWNER"
        \/ q.access.role = "SUPPORT_AGENT" /\ q.filter.agent = q.access.user
     /\ q.filter.customer = None \/ q.access.role \in Staff

\* Mutant of ResolveScope: the organizations of the filter win for everybody.
ResolveScopeAsked(q) ==
  [orgs |-> IF q.access.role = "PLATFORM_ADMIN" \/ q.filter.orgs # {}
            THEN q.filter.orgs ELSE {q.access.org},
   agent |-> q.filter.agent, customer |-> q.filter.customer]

\* No organizations stands for the whole platform.
ResolveScope(q) ==
  [orgs |-> IF q.access.role = "PLATFORM_ADMIN" THEN q.filter.orgs
                                                ELSE {q.access.org},
   agent |-> q.filter.agent, customer |-> q.filter.customer]

BaseScope(rows, q) ==
  LET orgs == ResolveScope(q).orgs
  IN  {r \in rows : orgs = {} \/ r.org \in orgs}

TicketScope(db, q) ==
  LET scope == ResolveScope(q)
  IN  {t \in BaseScope(db.tickets, q) :
         /\ scope.agent = None \/ t.agent = scope.agent
         /\ scope.customer = None \/ t.by = scope.customer}

CreatedIn(rows, q) == {r \in rows : Within(r.created, ResolveRange(q))}
-----------------------------------------------------------------------------
(* Tickets.                                                                *)

\* Mutant of OpenStatuses: an escalated ticket is not open.
OpenStatusesUnescalated == {"OPEN", "IN_PROGRESS", "WAITING_FOR_CUSTOMER", "ON_HOLD",
                            "REOPENED"}

OpenStatuses == {"OPEN", "IN_PROGRESS", "WAITING_FOR_CUSTOMER", "ON_HOLD",
                 "ESCALATED", "REOPENED"}
PendingStatuses == {"WAITING_FOR_CUSTOMER", "ON_HOLD"}
DoneStatuses == {"RESOLVED", "CLOSED"}

InStatus(rows, statuses) == Cardinality({r \in rows : r.status \in statuses})

\* The trend alone looks at the priority.
TicketTrend(db, q) ==
  Trend({t \in CreatedIn(TicketScope(db, q), q) :
           q.filter.priority = None \/ t.priority = q.filter.priority},
        Created, One, q)

TicketReads(db, q) ==
  LET rows == CreatedIn(TicketScope(db, q), q)
  IN  [total |-> Cardinality(rows),
       open |-> InStatus(rows, OpenStatuses),
       inProgress |-> InStatus(rows, {"IN_PROGRESS"}),
       pending |-> InStatus(rows, PendingStatuses),
       resolved |-> InStatus(rows, {"RESOLVED"}),
       closed |-> InStatus(rows, {"CLOSED"}),
       escalated |-> InStatus(rows, {"ESCALATED"}),
       overdue |-> Cardinality({t \in rows : /\ t.due # None /\ t.due < q.now
                                             /\ t.status \notin DoneStatuses}),
       byStatus |-> CountBy(rows, Status),
       byPriority |-> CountBy(rows, LAMBDA t : t.priority),
       trend |-> TicketTrend(db, q),
       recent |-> Newest(rows, Created, 10)]

ResolutionRate(reads) == Percent(reads.resolved + reads.closed, reads.total)
-----------------------------------------------------------------------------
(* Feedback.                                                               *)

FeedbackRows(db, q) ==
  {r \in BaseScope(db.feedback, q) : Within(r.at, ResolveRange(q))}

NetPromoters(rows) ==
  LET said == {r \in rows : r.recommends # None}
      promoters == Cardinality({r \in said : r.recommends})
      detractors == Cardinality(said) - promoters
  IN  IF said = {} THEN None
      ELSE Round(100 * (promoters - detractors), Cardinality(said))

\* csat is taken from the average as it is shown, already rounded.
GetFeedback(db, q) ==
  LET rows == {r \in FeedbackRows(db, q) :
                 /\ q.filter.customer = None \/ r.by = q.filter.customer
                 /\ q.filter.rating = None \/ r.rating = q.filter.rating}
      average == AverageOf(Rating, rows)
  IN  [responses |-> Cardinality(rows),
       responseRate |-> 1000, completionRate |-> 1000,
       average |-> average,
       csat |-> Round(10 * average, 5),
       nps |-> NetPromoters(rows),
       distribution |-> [s \in 1..5 |-> Cardinality({r \in rows : r.rating = s})],
       byTicket |-> CountBy(rows, LAMBDA r : r.ticket),
       trend |-> Trend(rows, LAMBDA r : r.at, One, q)]
-----------------------------------------------------------------------------
(* Payments and revenue.                                                   *)

Paid(db, q) == {p \in BaseScope(db.payments, q) : p.status = "SUCCESSFUL"}

\* Payments are chosen by the day they were opened and shown on the day they
\* were paid.
PaymentReads(db, q) ==
  LET rows == CreatedIn(BaseScope(db.payments, q), q)
      paid == {p \in rows : p.status = "SUCCESSFUL"}
  IN  [total |-> Cardinality(rows),
       successful |-> Cardinality(paid),
       failed |-> InStatus(rows, {"FAILED"}),
       byStatus |-> CountBy(rows, Status),
       revenue |-> Total(Amount, paid),
       trend |-> Trend(paid, LAMBDA p : p.paid, Amount, q),
       recent |-> Newest(rows, Created, 10)]

SuccessRate(reads) == Percent(reads.successful, reads.total)

Paying(db, q) ==
  {s \in BaseScope(db.subscriptions, q) : s.status \in {"ACTIVE", "PAST_DUE"}}

\* A year's price counts for a twelfth.
GetMrr(db, q) ==
  LET Price(s) == IF s.yearly THEN db.plans[s.plan].yearly
                              ELSE 12 * db.plans[s.plan].monthly
  IN  Round(100 * Total(Price, Paying(db, q)), 12)

PaidFrom(db, q, start) ==
  Total(Amount, {p \in Paid(db, q) : p.paid >= start})

MonthlyRevenue(db, q) == PaidFrom(db, q, q.month)
AnnualRevenue(db, q) == PaidFrom(db, q, q.year)
TotalRevenue(db, q) == Total(Amount, Paid(db, q))

RevenueTrend(db, q) ==
  Trend({p \in Paid(db, q) : Within(p.paid, ResolveRange(q))},
        LAMBDA p : p.paid, Amount, q)

RevenueByPlan(db, q) == SumBy(Paid(db, q), LAMBDA p : p.plan, Amount)

SubscriptionDistribution(db, q) ==
  LET rows == BaseScope(db.subscriptions, q)
  IN  [byStatus |-> CountBy(rows, Status),
       byPlan |-> [p \in DOMAIN db.plans |->
                     Cardinality({s \in rows : s.plan = p})]]

GetRevenue(db, q) ==
  [mrr |-> GetMrr(db, q), arr |-> 12 * GetMrr(db, q),
   monthly |-> MonthlyRevenue(db, q), annual |-> AnnualRevenue(db, q),
   total |-> TotalRevenue(db, q), byPlan |-> RevenueByPlan(db, q),
   trend |-> RevenueTrend(db, q),
   distribution |-> SubscriptionDistribution(db, q)]
-----------------------------------------------------------------------------
(* Customers, organizations, usage and articles.                           *)

Customers(db, q) ==
  {u \in BaseScope(db.users, q) : u.role = "CUSTOMER"}

ActiveAgents(db, q) ==
  {u \in BaseScope(db.users, q) : u.role = "SUPPORT_AGENT" /\ u.status = "ACTIVE"}

CustomerGrowth(db, q) == Trend(CreatedIn(Customers(db, q), q), Created, One, q)

GetCustomers(db, q) ==
  LET rows == CreatedIn(Customers(db, q), q)
  IN  [total |-> Cardinality(rows),
       active |-> InStatus(rows, {"ACTIVE"}),
       byStatus |-> CountBy(rows, Status),
       trend |-> CustomerGrowth(db, q),
       recent |-> Newest(rows, Created, 10)]

OrganizationGrowth(db, q) == Trend(CreatedIn(db.orgs, q), Created, One, q)

\* The paying and the trying organizations are counted whenever they came.
GetOrganizations(db, q) ==
  LET rows == {o \in CreatedIn(db.orgs, q) :
                 q.filter.orgs = {} \/ o.id \in q.filter.orgs}
  IN  [total |-> Cardinality(rows),
       paid |-> InStatus(db.subscriptions, {"ACTIVE", "PAST_DUE"}),
       trial |-> InStatus(db.subscriptions, {"TRIALING"}),
       byStatus |-> CountBy(rows, Status),
       trend |-> OrganizationGrowth(db, q),
       recent |-> Newest(rows, Created, 10)]

Storage(db, q) == Total(LAMBDA f : f.size, BaseScope(db.files, q))

GetUsage(db, q) ==
  LET rows == {u \in BaseScope(db.usage, q) : Within(u.start, ResolveRange(q))}
      Value(u) == u.value
  IN  [storage |-> Storage(db, q),
       apiCalls |-> Total(Value, {u \in rows : u.metric = "API_CALL"}),
       byMetric |-> SumBy(rows, LAMBDA u : u.metric, Value)]

\* The range only bounds the trend.
GetKnowledgeBase(db, q) ==
  LET rows == BaseScope(db.articles, q)
      helpful == Total(LAMBDA a : a.helpful, rows)
      notHelpful == Total(LAMBDA a : a.notHelpful, rows)
      Views(a) == a.views
  IN  [total |-> Cardinality(rows),
       published |-> InStatus(rows, {"PUBLISHED"}),
       views |-> Total(Views, rows),
       helpfulRate |-> Percent(helpful, helpful + notHelpful),
       byStatus |-> CountBy(rows, Status),
       trend |-> Trend(rows, Created, One, q),
       top |-> Newest(rows, Views, 10)]
-----------------------------------------------------------------------------
(* Agents.                                                                 *)

ToResolve(t) == t.resolved - t.created
ToRespond(t) == t.responded - t.created

AgentRow(tickets, agent) ==
  LET assigned == {t \in tickets : t.agent = agent}
      resolved == {t \in assigned : t.resolved # None}
  IN  [assigned |-> Cardinality(assigned),
       resolved |-> Cardinality(resolved),
       resolution |-> AverageOf(ToResolve, resolved),
       response |-> AverageOf(ToRespond,
                              {t \in assigned : t.responded # None})]

\* The agents are read, then the tickets.
GetAgentPerformance(agentsDb, db, q) ==
  LET agents == {u.id : u \in {v \in ActiveAgents(agentsDb, q) :
                    q.filter.agent = None \/ v.id = q.filter.agent}}
      tickets == CreatedIn(TicketScope(db, q), q)
      rows == [a \in agents |-> AgentRow(tickets, a)]
      resolved == Total(LAMBDA a : rows[a].resolved, agents)
  IN  [rows |-> rows, resolved |-> resolved,
       perAgent |-> Average(resolved, Cardinality(agents))]
-----------------------------------------------------------------------------
(* Key performance indicators.                                             *)

AvgResolutionTime(db, q) ==
  AverageOf(ToResolve, {t \in CreatedIn(TicketScope(db, q), q) :
                          t.resolved # None})

AvgFirstResponseTime(db, q) ==
  AverageOf(ToRespond, {t \in CreatedIn(TicketScope(db, q), q) :
                          t.responded # None})

\* Mutant of TicketResolutionRate: a closed ticket is not resolved.
TicketResolutionRateStrict(db, q) ==
  LET rows == CreatedIn(TicketScope(db, q), q)
  IN  Percent(InStatus(rows, {"RESOLVED"}), Cardinality(rows))

TicketResolutionRate(db, q) ==
  LET rows == CreatedIn(TicketScope(db, q), q)
  IN  Percent(InStatus(rows, DoneStatuses), Cardinality(rows))

Csat(db, q) ==
  LET rows == FeedbackRows(db, q)
  IN  IF rows = {} THEN 0
      ELSE Round(1000 * Total(Rating, rows), 5 * Cardinality(rows))

Nps(db, q) == NetPromoters(FeedbackRows(db, q))

\* Tickets are chosen by the day they were resolved.
AgentProductivity(db, q) ==
  LET resolved == {t \in TicketScope(db, q) : Within(t.resolved, ResolveRange(q))}
  IN  Average(Cardinality(resolved), Cardinality(ActiveAgents(db, q)))

\* Against the span before the range; only for the whole platform.
OrganizationGrowthRate(db, q) ==
  LET range == ResolveRange(q)
      before == [from |-> range.from - (range.to - range.from),
                 to |-> range.from - 1]
      current == Cardinality(CreatedIn(db.orgs, q))
      previous == Cardinality({o \in db.orgs : Within(o.created, before)})
  IN  IF ResolveScope(q).orgs # {} \/ (previous = 0 /\ current > 0) THEN None
      ELSE IF previous = 0 THEN 0
      ELSE Round(1000 * (current - previous), previous)

RetentionRate(db, q) ==
  LET rows == BaseScope(db.subscriptions, q)
      kept == {s \in Paying(db, q) : ~s.leaving}
  IN  IF rows = {} THEN None ELSE Percent(Cardinality(kept), Cardinality(rows))

ComputeKpis(db, q) ==
  [resolution |-> AvgResolutionTime(db, q),
   response |-> AvgFirstResponseTime(db, q),
   resolutionRate |-> TicketResolutionRate(db, q),
   csat |-> Csat(db, q), nps |-> Nps(db, q),
   productivity |-> AgentProductivity(db, q),
   growth |-> OrganizationGrowthRate(db, q),
   monthly |-> MonthlyRevenue(db, q), annual |-> AnnualRevenue(db, q),
   retention |-> RetentionRate(db, q)]
-----------------------------------------------------------------------------
(* Charts.                                                                 *)

\* One chart, if it is asked for.
Drawn(type, data, types) ==
  IF \E i \in DOMAIN types : types[i] = type THEN <<[type |-> type, data |-> data]>>
                                             ELSE <<>>

\* Charts come in an order of their own, whatever the order they are asked in.
ComposeCharts(series, categories, types) ==
  Drawn("line", series, types) \o Drawn("bar", series, types)
    \o Drawn("area", series, types) \o Drawn("trend", series, types)
    \o Drawn("pie", categories, types) \o Drawn("donut", categories, types)

\* What the endpoint asks for.
ChartTypes == <<"line", "bar", "pie">>

\* The statuses and the priorities are of all times; the priorities stand
\* beside the revenue, and the three lists are cut out of one.
GetCharts(db, q, types) ==
  LET rows == TicketScope(db, q)
      charts == ComposeCharts(TicketTrend(db, q), CountBy(rows, Status), types)
           \o ComposeCharts(RevenueTrend(db, q),
                            CountBy(rows, LAMBDA t : t.priority), types)
           \o ComposeCharts(CustomerGrowth(db, q), <<>>, types)
      n == Len(types)
  IN  [ticketCharts |-> SubSeq(charts, 1, n),
       revenueCharts |-> SubSeq(charts, n + 1, 2 * n),
       customerCharts |-> SubSeq(charts, 2 * n + 1, Len(charts)),
       feedbackTrend |-> GetFeedback(db, q).trend]
-----------------------------------------------------------------------------
(* Datasets.                                                               *)

ReportCategories ==
  {"TICKETS", "FEEDBACK", "PAYMENTS", "REVENUE", "SUBSCRIPTIONS", "ORGANIZATIONS",
   "SUPPORT_AGENTS", "CUSTOMERS", "USAGE", "KNOWLEDGE_BASE"}

\* The rows a report lists.  Those of tickets and feedback obey filters that
\* the summary beside them does not look at.
TicketDataset(db, q) ==
  {t \in CreatedIn(TicketScope(db, q), q) :
     /\ q.filter.status = None \/ t.status = q.filter.status
     /\ q.filter.priority = None \/ t.priority = q.filter.priority}

FeedbackDataset(db, q) ==
  {r \in FeedbackRows(db, q) :
     q.filter.rating = None \/ r.rating = q.filter.rating}

PaymentDataset(db, q) == CreatedIn(BaseScope(db.payments, q), q)

SubscriptionDataset(db, q) == BaseScope(db.subscriptions, q)

\* Organizations are for the platform alone.
Listable(category, q) ==
  category = "ORGANIZATIONS" => q.access.role = "PLATFORM_ADMIN"

OrganizationDataset(db, q) == CreatedIn(db.orgs, q)

CustomerDataset(db, q) == CreatedIn(Customers(db, q), q)

DatasetRows(db, category, q) ==
  CASE category = "TICKETS" -> TicketDataset(db, q)
    [] category = "FEEDBACK" -> FeedbackDataset(db, q)
    [] category = "PAYMENTS" -> PaymentDataset(db, q)
    [] category \in {"REVENUE", "SUBSCRIPTIONS"} -> SubscriptionDataset(db, q)
    [] category = "ORGANIZATIONS" -> OrganizationDataset(db, q)
    [] category = "SUPPORT_AGENTS" -> DOMAIN GetAgentPerformance(db, db, q).rows
    [] category = "CUSTOMERS" -> CustomerDataset(db, q)
    [] category = "USAGE" -> DOMAIN GetUsage(db, q).byMetric
    [] category = "KNOWLEDGE_BASE" -> GetKnowledgeBase(db, q).top
=============================================================================
