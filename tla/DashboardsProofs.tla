-------------------------- MODULE DashboardsProofs --------------------------
(***************************************************************************)
(* Proofs about Dashboards, for any rows and any questions: what a member  *)
(* of an organization is shown does not depend on the rows of others.      *)
(*                                                                         *)
(* Two databases look the same to who asks when each scope selects the     *)
(* same rows of both.  Every read is shown to be a function of the scoped  *)
(* rows: its body is a local operator of them, whose definition is hidden  *)
(* while equals are put for equals.                                        *)
(***************************************************************************)
EXTENDS Dashboards, FiniteSetTheorems, TLAPS

\* What of a database staff may get to see, by the scope of the dashboards and
\* by that of the listings, and a customer in the portal.
Alike(rows, others, q) ==
  /\ BaseScope(rows, q) = BaseScope(others, q)
  /\ OfOrg(rows, q.access.org) = OfOrg(others, q.access.org)

LookAlike(d, e, q) ==
  /\ ~ForPlatform(q)
  /\ d.plans = e.plans
  /\ Alike(d.tickets, e.tickets, q)
  /\ Alike(d.feedback, e.feedback, q) /\ Alike(d.responses, e.responses, q)
  /\ Alike(d.payments, e.payments, q)
  /\ Alike(d.users, e.users, q)
  /\ Alike(d.subscriptions, e.subscriptions, q)
  /\ Alike(d.articles, e.articles, q)
  /\ Alike(d.files, e.files, q)
  /\ Alike(d.usage, e.usage, q)
  /\ Alike(d.invitations, e.invitations, q)
  /\ Alike(d.saved, e.saved, q)
  /\ Alike(d.requests, e.requests, q)
  /\ Alike(d.forms, e.forms, q)
  /\ Alike(d.notices, e.notices, q)
  /\ Alike(d.categories, e.categories, q)

\* The rows of an organization are the rows of itself alone.
LEMMA OwnRowsAlike ==
  ASSUME NEW q, ~ForPlatform(q), NEW rows
  PROVE  Alike(rows, Mine(rows, q), q)
BY DEF Alike, BaseScope, ResolveScope, OfOrg, Mine, ForPlatform

LEMMA OwnTables ==
  ASSUME NEW d, Tables \subseteq DOMAIN d, NEW q, ~ForPlatform(q)
  PROVE  LookAlike(d, OwnRows(d, q), q)
<1> DEFINE e == OwnRows(d, q)
<1>1. /\ e.tickets = Mine(d.tickets, q) /\ e.feedback = Mine(d.feedback, q)
      /\ e.responses = Mine(d.responses, q)
      /\ e.payments = Mine(d.payments, q) /\ e.users = Mine(d.users, q)
      /\ e.subscriptions = Mine(d.subscriptions, q)
      /\ e.articles = Mine(d.articles, q) /\ e.files = Mine(d.files, q)
  BY DEF OwnRows, Tables
<1>2. /\ e.usage = Mine(d.usage, q) /\ e.invitations = Mine(d.invitations, q)
      /\ e.saved = Mine(d.saved, q) /\ e.requests = Mine(d.requests, q)
      /\ e.forms = Mine(d.forms, q) /\ e.notices = Mine(d.notices, q)
      /\ e.categories = Mine(d.categories, q)
  BY DEF OwnRows, Tables
<1>3. e.plans = d.plans
  BY DEF OwnRows, Tables
<1> HIDE DEF e
<1>4. LookAlike(d, e, q)
  BY <1>1, <1>2, <1>3, OwnRowsAlike DEF LookAlike
<1> QED
  BY <1>4 DEF e

\* Of a ticket, too, the same rows are selected.
LEMMA TicketsAlike ==
  ASSUME NEW d, NEW e, NEW q, LookAlike(d, e, q)
  PROVE  /\ TicketScope(d, q) = TicketScope(e, q)
         /\ FeedbackRows(d, q) = FeedbackRows(e, q)
         /\ Paid(d, q) = Paid(e, q) /\ Paying(d, q) = Paying(e, q)
         /\ Customers(d, q) = Customers(e, q)
         /\ ActiveAgents(d, q) = ActiveAgents(e, q)
BY DEF LookAlike, Alike, TicketScope, FeedbackRows, Paid, Paying, Customers,
       ActiveAgents
LEMMA QuestionsAsked ==
  \A q \in Questions : /\ {"access", "filter"} \subseteq DOMAIN q
                       /\ q.kind \in QuestionKinds /\ q.access.role \in AccessRoles
                       /\ q.month \in Int /\ q.clock \in Nat
BY DashboardsAssumption DEF QuestionStands
-----------------------------------------------------------------------------
(* The figures of the analytics. *)

LEMMA TicketFigures ==
  ASSUME NEW d, NEW e, NEW q, TicketScope(d, q) = TicketScope(e, q)
  PROVE  /\ TicketReads(d, q) = TicketReads(e, q)
         /\ TicketTrend(d, q) = TicketTrend(e, q)
<1>1. TicketTrend(d, q) = TicketTrend(e, q)
  BY Zenon DEF TicketTrend
<1> QED
  BY <1>1, Zenon DEF TicketReads

LEMMA FeedbackFigures ==
  ASSUME NEW d, NEW e, NEW q, LookAlike(d, e, q)
  PROVE  GetFeedback(d, q) = GetFeedback(e, q)
<1>1. FeedbackRows(d, q) = FeedbackRows(e, q)
  BY TicketsAlike
<1> QED
  BY <1>1, SMTT(30) DEF GetFeedback

LEMMA PaymentFigures ==
  ASSUME NEW d, NEW e, NEW q, LookAlike(d, e, q)
  PROVE  PaymentReads(d, q) = PaymentReads(e, q)
BY Zenon DEF PaymentReads, LookAlike, Alike

LEMMA RevenueFigures ==
  ASSUME NEW d, NEW e, NEW q, LookAlike(d, e, q)
  PROVE  /\ GetRevenue(d, q) = GetRevenue(e, q)
         /\ RevenueTrend(d, q) = RevenueTrend(e, q)
<1>1. /\ d.plans = e.plans
      /\ BaseScope(d.subscriptions, q) = BaseScope(e.subscriptions, q)
  BY DEF LookAlike, Alike
<1> DEFINE Worth(plans, rows) ==
             Round(100 * Total(LAMBDA s : IF s.yearly THEN plans[s.plan].yearly
                                          ELSE 12 * plans[s.plan].monthly, rows), 12)
<1>2. GetMrr(d, q) = GetMrr(e, q)
  <2>1. /\ GetMrr(d, q) = Worth(d.plans, Paying(d, q))
        /\ GetMrr(e, q) = Worth(e.plans, Paying(e, q))
    BY DEF GetMrr
  <2> HIDE DEF Worth
  <2> QED
    BY <1>1, <2>1, TicketsAlike
<1>3. /\ MonthlyRevenue(d, q) = MonthlyRevenue(e, q)
      /\ AnnualRevenue(d, q) = AnnualRevenue(e, q)
      /\ TotalRevenue(d, q) = TotalRevenue(e, q)
      /\ RevenueByPlan(d, q) = RevenueByPlan(e, q)
  BY TicketsAlike, Zenon
     DEF MonthlyRevenue, AnnualRevenue, TotalRevenue, PaidFrom, RevenueByPlan
<1>4. RevenueTrend(d, q) = RevenueTrend(e, q)
  BY TicketsAlike, Zenon DEF RevenueTrend
<1>5. SubscriptionDistribution(d, q) = SubscriptionDistribution(e, q)
  BY <1>1, Zenon DEF SubscriptionDistribution
<1> QED
  BY <1>2, <1>3, <1>4, <1>5 DEF GetRevenue

LEMMA CustomerFigures ==
  ASSUME NEW d, NEW e, NEW q, LookAlike(d, e, q)
  PROVE  /\ GetCustomers(d, q) = GetCustomers(e, q)
         /\ CustomerGrowth(d, q) = CustomerGrowth(e, q)
BY TicketsAlike, Zenon DEF GetCustomers, CustomerGrowth

LEMMA OtherFigures ==
  ASSUME NEW d, NEW e, NEW q, LookAlike(d, e, q)
  PROVE  /\ Storage(d, q) = Storage(e, q)
         /\ GetUsage(d, q) = GetUsage(e, q)
         /\ GetKnowledgeBase(d, q) = GetKnowledgeBase(e, q)
<1>1. /\ BaseScope(d.files, q) = BaseScope(e.files, q)
      /\ BaseScope(d.usage, q) = BaseScope(e.usage, q)
      /\ BaseScope(d.articles, q) = BaseScope(e.articles, q)
  BY DEF LookAlike, Alike
<1>2. Storage(d, q) = Storage(e, q)
  BY <1>1, Zenon DEF Storage
<1>3. GetUsage(d, q) = GetUsage(e, q)
  BY <1>1, <1>2, Zenon DEF GetUsage
<1>4. GetKnowledgeBase(d, q) = GetKnowledgeBase(e, q)
  BY <1>1, Zenon DEF GetKnowledgeBase
<1> QED
  BY <1>2, <1>3, <1>4

LEMMA AgentFigures ==
  ASSUME NEW d, NEW e, NEW q, TicketScope(d, q) = TicketScope(e, q),
         ActiveAgents(d, q) = ActiveAgents(e, q)
  PROVE  GetAgentPerformance(d, d, q) = GetAgentPerformance(e, e, q)
<1> DEFINE Agents(c) == {u.id : u \in {v \in ActiveAgents(c, q) :
                            q.filter.agent = None \/ v.id = q.filter.agent}}
           Tickets(c) == CreatedIn(TicketScope(c, q), q)
           Table(agents, tickets) == [a \in agents |-> AgentRow(tickets, a)]
           Resolved(agents, tickets) ==
             Total(LAMBDA a : Table(agents, tickets)[a].resolved, agents)
<1>1. Agents(d) = Agents(e) /\ Tickets(d) = Tickets(e)
  BY Zenon
<1> HIDE DEF Agents, Tickets, Table, Resolved
<1>2. /\ Table(Agents(d), Tickets(d)) = Table(Agents(e), Tickets(e))
      /\ Resolved(Agents(d), Tickets(d)) = Resolved(Agents(e), Tickets(e))
  BY <1>1
<1> QED
  BY <1>1, <1>2, Zenon DEF GetAgentPerformance, Agents, Tickets, Table, Resolved

\* The growth of the platform is not shown to an organization.
LEMMA IndicatorFigures ==
  ASSUME NEW d, NEW e, NEW q, LookAlike(d, e, q)
  PROVE  ComputeKpis(d, q) = ComputeKpis(e, q)
<1>1. /\ BaseScope(d.subscriptions, q) = BaseScope(e.subscriptions, q)
      /\ ResolveScope(q).orgs # {}
  BY DEF LookAlike, Alike, ResolveScope, ForPlatform
<1>2. /\ AvgResolutionTime(d, q) = AvgResolutionTime(e, q)
      /\ AvgFirstResponseTime(d, q) = AvgFirstResponseTime(e, q)
  BY TicketsAlike, Zenon DEF AvgResolutionTime, AvgFirstResponseTime
<1>3. TicketResolutionRate(d, q) = TicketResolutionRate(e, q)
  BY TicketsAlike, Zenon DEF TicketResolutionRate
<1>4. Csat(d, q) = Csat(e, q) /\ Nps(d, q) = Nps(e, q)
  <2>1. FeedbackRows(d, q) = FeedbackRows(e, q)
    BY TicketsAlike
  <2>2. Csat(d, q) = Csat(e, q)
    BY <2>1, SMT DEF Csat
  <2>3. Nps(d, q) = Nps(e, q)
    BY <2>1, Zenon DEF Nps
  <2> QED
    BY <2>2, <2>3
<1>5. AgentProductivity(d, q) = AgentProductivity(e, q)
  BY TicketsAlike, Zenon DEF AgentProductivity
<1>6. OrganizationGrowthRate(d, q) = None /\ OrganizationGrowthRate(e, q) = None
  BY <1>1, Zenon DEF OrganizationGrowthRate
<1>7. /\ MonthlyRevenue(d, q) = MonthlyRevenue(e, q)
      /\ AnnualRevenue(d, q) = AnnualRevenue(e, q)
  BY TicketsAlike, Zenon DEF MonthlyRevenue, AnnualRevenue, PaidFrom
<1>8. RetentionRate(d, q) = RetentionRate(e, q)
  BY <1>1, TicketsAlike, Zenon DEF RetentionRate
<1> QED
  BY <1>2, <1>3, <1>4, <1>5, <1>6, <1>7, <1>8, Zenon DEF ComputeKpis

LEMMA ChartFigures ==
  ASSUME NEW d, NEW e, NEW q, LookAlike(d, e, q)
  PROVE  GetCharts(d, q, ChartTypes) = GetCharts(e, q, ChartTypes)
BY TicketsAlike, TicketFigures, FeedbackFigures, RevenueFigures, CustomerFigures, Zenon
   DEF GetCharts

LEMMA DatasetFigures ==
  ASSUME NEW d, NEW e, NEW q, LookAlike(d, e, q),
         NEW category \in ReportCategories, Listable(category, q)
  PROVE  DatasetRows(d, category, q) = DatasetRows(e, category, q)
<1>1. category # "ORGANIZATIONS"
  BY DEF Listable, LookAlike, ForPlatform
<1>2. TicketDataset(d, q) = TicketDataset(e, q)
  BY TicketsAlike, Zenon DEF TicketDataset
<1>3. FeedbackDataset(d, q) = FeedbackDataset(e, q)
  BY TicketsAlike, Zenon DEF FeedbackDataset
<1>4. /\ PaymentDataset(d, q) = PaymentDataset(e, q)
      /\ SubscriptionDataset(d, q) = SubscriptionDataset(e, q)
  BY Zenon DEF PaymentDataset, SubscriptionDataset, LookAlike, Alike
<1>5. CustomerDataset(d, q) = CustomerDataset(e, q)
  BY TicketsAlike, Zenon DEF CustomerDataset
<1>6. GetAgentPerformance(d, d, q) = GetAgentPerformance(e, e, q)
  BY AgentFigures, TicketsAlike
<1> QED
  BY <1>1, <1>2, <1>3, <1>4, <1>5, <1>6, OtherFigures DEF DatasetRows, ReportCategories
-----------------------------------------------------------------------------
(* The listings, the portal, and what is used of a plan. *)

LEMMA TicketList ==
  ASSUME NEW d, NEW e, NEW q, LookAlike(d, e, q)
  PROVE  TicketsFound(d, q) = TicketsFound(e, q)
BY SMT DEF TicketsFound, LookAlike, Alike

\* A response is selected by the agent of its ticket, whose organization is
\* its own.
LEMMA ResponseList ==
  ASSUME NEW d, NEW e, NEW q, LookAlike(d, e, q), RowsBelong(d), RowsBelong(e)
  PROVE  ResponsesFound(d, q) = ResponsesFound(e, q)
<1> DEFINE Of(c, r) == \E t \in c.tickets : /\ t.id = r.ticket
                                            /\ t.agent = q.filter.agent
<1>1. /\ FeedbackScope(d.responses, q) = OfOrg(d.responses, q.access.org)
      /\ FeedbackScope(d.responses, q) = FeedbackScope(e.responses, q)
      /\ OfOrg(d.responses, q.access.org) = OfOrg(e.responses, q.access.org)
      /\ OfOrg(d.tickets, q.access.org) = OfOrg(e.tickets, q.access.org)
  BY DEF FeedbackScope, LookAlike, Alike
<1>2. \A r \in FeedbackScope(d.responses, q) : Of(d, r) <=> Of(e, r)
  BY <1>1 DEF OfOrg, RowsBelong
<1> HIDE DEF Of
<1>3. \A c : ResponsesFound(c, q) =
        {r \in FeedbackScope(c.responses, q) :
           /\ Passes(q.filter.form, r.form) /\ Passes(q.filter.customer, r.by)
           /\ q.filter.agent = None \/ Of(c, r)
           /\ Passes(q.filter.rating, r.overall)
           /\ Between(r.at, q.filter)}
  BY DEF ResponsesFound, Of
<1> QED
  BY <1>1, <1>2, <1>3

LEMMA SurveyFigures ==
  ASSUME NEW d, NEW e, NEW q, LookAlike(d, e, q)
  PROVE  SurveyAnalytics(d, q) = SurveyAnalytics(e, q)
<1>1. /\ FeedbackScope(d.responses, q) = FeedbackScope(e.responses, q)
      /\ FeedbackScope(d.requests, q) = FeedbackScope(e.requests, q)
  BY DEF FeedbackScope, LookAlike, Alike
<1> QED
  BY <1>1, ZenonT(60) DEF SurveyAnalytics

LEMMA UsageFigures ==
  ASSUME NEW d, NEW e, NEW q, LookAlike(d, e, q)
  PROVE  /\ CurrentUsage(d, q) = CurrentUsage(e, q)
         /\ Entitled(d, q) = Entitled(e, q)
         /\ EntitledLimits(d, q) = EntitledLimits(e, q)
         /\ UsageOverview(d, q) = UsageOverview(e, q)
         /\ \A resource : Grants(d, q, resource) <=> Grants(e, q, resource)
<1>1. CurrentUsage(d, q) = CurrentUsage(e, q)
  BY Zenon DEF CurrentUsage, LookAlike, Alike
<1>2. Entitled(d, q) = Entitled(e, q)
  BY Zenon DEF Entitled, LookAlike, Alike
<1>3. EntitledLimits(d, q) = EntitledLimits(e, q)
  <2> DEFINE Limits(plans, rows) ==
               IF rows = {} THEN plans["free"].limits
               ELSE plans[(CHOOSE s \in rows : TRUE).plan].limits
  <2>1. /\ EntitledLimits(d, q) = Limits(d.plans, Entitled(d, q))
        /\ EntitledLimits(e, q) = Limits(e.plans, Entitled(e, q))
    BY DEF EntitledLimits
  <2> HIDE DEF Limits
  <2> QED
    BY <1>2, <2>1 DEF LookAlike
<1>4. UsageOverview(d, q) = UsageOverview(e, q)
  BY <1>1, <1>3, SMT DEF UsageOverview
<1>5. \A resource : Grants(d, q, resource) <=> Grants(e, q, resource)
  BY <1>1, <1>3, Zenon DEF Grants
<1> QED
  BY <1>1, <1>2, <1>3, <1>4, <1>5

LEMMA TicketCounts ==
  ASSUME NEW d, NEW e, NEW q, LookAlike(d, e, q)
  PROVE  TicketStats(d, q) = TicketStats(e, q)
<1> DEFINE Counts(c) == CountBy({t \in OfOrg(c.tickets, q.access.org) :
                                   t.by = q.access.user}, Status)
           Of(counts, statuses) ==
             SumFunctionOnSet(counts, statuses \cap DOMAIN counts)
<1>1. Counts(d) = Counts(e)
  BY Zenon DEF LookAlike, Alike
<1>2. \A c : TicketStats(c, q) =
        [total |-> Of(Counts(c), DOMAIN Counts(c)),
         open |-> Of(Counts(c), OpenStatuses),
         resolved |-> Of(Counts(c), {"RESOLVED"}),
         closed |-> Of(Counts(c), {"CLOSED"}), byStatus |-> Counts(c)]
  BY DEF TicketStats
<1> HIDE DEF Counts, Of
<1> QED
  BY <1>1, <1>2

\* The portal counts the articles of a category without asking whose they are.
LEMMA PortalFigures ==
  ASSUME NEW d, NEW e, NEW q, LookAlike(d, e, q), RowsBelong(d), RowsBelong(e)
  PROVE  PortalReads(d, q) = PortalReads(e, q)
<1> DEFINE Ours(rows) == OfOrg(rows, q.access.org)
           Filed(c, k) == {a \in Readable(c.articles) : a.category = k.id}
           Order(c) == -c.order
           Shown(c) == Newest({k \in Ours(c.categories) : k.active}, Order, 5)
           Counts(c) == [k \in Shown(c) |-> Cardinality(Filed(c, k))]
<1>1. /\ Ours(d.tickets) = Ours(e.tickets) /\ Ours(d.notices) = Ours(e.notices)
      /\ Ours(d.articles) = Ours(e.articles) /\ Ours(d.forms) = Ours(e.forms)
      /\ Ours(d.categories) = Ours(e.categories)
  BY DEF LookAlike, Alike
<1>2. Shown(d) = Shown(e)
  BY <1>1, Zenon
<1>3. Shown(d) \subseteq Ours(d.categories)
  BY DEF Newest
<1>4. \A k \in Ours(d.categories) : Filed(d, k) = Filed(e, k)
  BY <1>1 DEF RowsBelong, OfOrg, Readable
<1>5. Counts(d) = Counts(e)
  <2> HIDE DEF Ours, Filed, Shown
  <2> QED
    BY <1>2, <1>3, <1>4
<1>6. TicketStats(d, q) = TicketStats(e, q)
  BY TicketCounts
<1> QED
  BY <1>1, <1>5, <1>6, Zenon DEF PortalReads
-----------------------------------------------------------------------------
(* The answers. *)

LEMMA PlanFigures ==
  ASSUME NEW d, NEW e, NEW q, LookAlike(d, e, q)
  PROVE  /\ PlanUsage(d, q) = PlanUsage(e, q)
         /\ SubscriptionContext(d, q) = SubscriptionContext(e, q)
<1>1. /\ Mine(d.users, q) = Mine(e.users, q)
      /\ Mine(d.tickets, q) = Mine(e.tickets, q)
      /\ Mine(d.articles, q) = Mine(e.articles, q)
      /\ Mine(d.invitations, q) = Mine(e.invitations, q)
      /\ Mine(d.files, q) = Mine(e.files, q)
      /\ Mine(d.usage, q) = Mine(e.usage, q)
      /\ Mine(d.subscriptions, q) = Mine(e.subscriptions, q)
      /\ d.plans = e.plans
  BY DEF LookAlike, Alike, Mine, OfOrg
<1>2. PlanUsage(d, q) = PlanUsage(e, q)
  BY <1>1, Zenon DEF PlanUsage
<1> DEFINE Context(plans, rows, used) ==
             LET limits == plans[(CHOOSE s \in rows : TRUE).plan].limits
             IN  IF q.access.org = None \/ rows = {} THEN None
                 ELSE [used |-> used, limits |-> limits,
                       remaining |-> RemainingLimits(used, limits)]
<1>3. /\ SubscriptionContext(d, q)
           = Context(d.plans, Mine(d.subscriptions, q), PlanUsage(d, q))
      /\ SubscriptionContext(e, q)
           = Context(e.plans, Mine(e.subscriptions, q), PlanUsage(e, q))
  BY DEF SubscriptionContext
<1> HIDE DEF Context
<1> QED
  BY <1>1, <1>2, <1>3

LEMMA UsageAnswer ==
  ASSUME NEW d, NEW e, NEW q, LookAlike(d, e, q)
  PROVE  UsageReads(d, q) = UsageReads(e, q)
<1>1. /\ UsageOverview(d, q) = UsageOverview(e, q)
      /\ SubscriptionContext(d, q) = SubscriptionContext(e, q)
      /\ Entitled(d, q) = Entitled(e, q)
      /\ PlanUsage(d, q) = PlanUsage(e, q)
  BY UsageFigures, PlanFigures
<1>2. {k \in DOMAIN PlanUsage(d, q) : Grants(d, q, k)}
        = {k \in DOMAIN PlanUsage(e, q) : Grants(e, q, k)}
  BY <1>1, UsageFigures
<1> QED
  BY <1>1, <1>2, Zenon DEF UsageReads

LEMMA OwnerAnswer ==
  ASSUME NEW d, NEW e, NEW q, LookAlike(d, e, q)
  PROVE  TenantReads(d, q) = TenantReads(e, q)
<1>1. /\ TicketReads(d, q) = TicketReads(e, q)
      /\ GetFeedback(d, q) = GetFeedback(e, q)
      /\ Storage(d, q) = Storage(e, q)
      /\ SubscriptionContext(d, q) = SubscriptionContext(e, q)
      /\ ComputeKpis(d, q) = ComputeKpis(e, q)
      /\ GetAgentPerformance(d, d, q) = GetAgentPerformance(e, e, q)
  BY TicketsAlike, TicketFigures, FeedbackFigures, OtherFigures, PlanFigures,
     IndicatorFigures, AgentFigures
<1> QED
  BY <1>1, TicketsAlike, Zenon DEF TenantReads

\* The agent's filter names the agent, and leaves the access alone.
LEMMA AgentAnswer ==
  ASSUME NEW d, NEW e, NEW q, LookAlike(d, e, q), RowsBelong(d), RowsBelong(e),
         {"access", "filter"} \subseteq DOMAIN q
  PROVE  AgentReads(d, q) = AgentReads(e, q)
<1>1. Own(q).access = q.access
  BY DEF Own
<1>2. LookAlike(d, e, Own(q))
  <2>1. ~ForPlatform(q) /\ ~ForPlatform(Own(q))
    BY <1>1 DEF LookAlike, ForPlatform
  <2>2. \A rows : BaseScope(rows, Own(q)) = BaseScope(rows, q)
    BY <1>1, <2>1 DEF BaseScope, ResolveScope, ForPlatform
  <2>3. \A rows, others : Alike(rows, others, q) => Alike(rows, others, Own(q))
    BY <1>1, <2>2 DEF Alike
  <2> QED
    BY <2>1, <2>3 DEF LookAlike
<1>3. /\ TicketReads(d, Own(q)) = TicketReads(e, Own(q))
      /\ GetAgentPerformance(d, d, Own(q)) = GetAgentPerformance(e, e, Own(q))
  BY <1>2, TicketsAlike, TicketFigures, AgentFigures
<1> DEFINE Rated(c) == {r \in c.feedback : \E t \in c.tickets :
                          /\ t.id = r.ticket /\ t.agent = q.access.user
                          /\ t.org = q.access.org}
<1>4. /\ OfOrg(d.feedback, q.access.org) = OfOrg(e.feedback, q.access.org)
      /\ OfOrg(d.tickets, q.access.org) = OfOrg(e.tickets, q.access.org)
  BY DEF LookAlike, Alike
<1>5. Rated(d) = Rated(e)
  BY <1>4 DEF OfOrg, RowsBelong
<1>6. AgentRatings(d, q) = AgentRatings(e, q)
  BY <1>5, Zenon DEF AgentRatings
<1> QED
  BY <1>3, <1>6, Zenon DEF AgentReads

LEMMA AggregateAnswer ==
  ASSUME NEW d, NEW e, NEW q, LookAlike(d, e, q)
  PROVE  AggregateReads(d, q) = AggregateReads(e, q)
<1>1. /\ TicketReads(d, q) = TicketReads(e, q)
      /\ GetFeedback(d, q) = GetFeedback(e, q)
      /\ PaymentReads(d, q) = PaymentReads(e, q)
      /\ GetCustomers(d, q) = GetCustomers(e, q)
      /\ GetUsage(d, q) = GetUsage(e, q)
      /\ GetKnowledgeBase(d, q) = GetKnowledgeBase(e, q)
      /\ GetRevenue(d, q) = GetRevenue(e, q)
      /\ ComputeKpis(d, q) = ComputeKpis(e, q)
  BY TicketsAlike, TicketFigures, FeedbackFigures, PaymentFigures, CustomerFigures,
     OtherFigures, RevenueFigures, IndicatorFigures
<1> QED
  BY <1>1, Zenon DEF AggregateReads

LEMMA ReportAnswer ==
  ASSUME NEW d, NEW e, NEW q, LookAlike(d, e, q)
  PROVE  ReportReads(d, q) = ReportReads(e, q)
<1>1. /\ TicketReads(d, q) = TicketReads(e, q)
      /\ GetFeedback(d, q) = GetFeedback(e, q)
      /\ PaymentReads(d, q) = PaymentReads(e, q)
      /\ GetCustomers(d, q) = GetCustomers(e, q)
      /\ ComputeKpis(d, q) = ComputeKpis(e, q)
  BY TicketsAlike, TicketFigures, FeedbackFigures, PaymentFigures, CustomerFigures,
     IndicatorFigures
<1>2. [c \in {k \in ReportCategories : Listable(k, q)} |-> DatasetRows(d, c, q)]
        = [c \in {k \in ReportCategories : Listable(k, q)} |-> DatasetRows(e, c, q)]
  BY DatasetFigures
<1> QED
  BY <1>1, <1>2, Zenon DEF ReportReads

LEMMA SearchAnswer ==
  ASSUME NEW d, NEW e, NEW q, LookAlike(d, e, q)
  PROVE  SearchReads(d, q) = SearchReads(e, q)
<1>1. \A entity \in Sweep : EntityRows(d, entity, q) = EntityRows(e, entity, q)
  BY TicketsAlike DEF EntityRows, Sweep, LookAlike, Alike
<1>2. [k \in Sweep |-> EntityRows(d, k, q)] = [k \in Sweep |-> EntityRows(e, k, q)]
  BY <1>1
<1>3. ListReports(d, q) = ListReports(e, q)
  <2>1. \A c : {r \in c.saved : \/ q.access.role = "PLATFORM_ADMIN"
                                \/ r.org = q.access.org} = OfOrg(c.saved, q.access.org)
    BY DEF LookAlike, ForPlatform, OfOrg
  <2>2. OfOrg(d.saved, q.access.org) = OfOrg(e.saved, q.access.org)
    BY DEF LookAlike, Alike
  <2> QED
    BY <2>1, <2>2, Zenon DEF ListReports
<1> QED
  BY <1>2, <1>3, Zenon DEF SearchReads

LEMMA ListingAnswer ==
  ASSUME NEW d, NEW e, NEW q, LookAlike(d, e, q), RowsBelong(d), RowsBelong(e)
  PROVE  ListingReads(d, q) = ListingReads(e, q)
<1>1. /\ TicketsFound(d, q) = TicketsFound(e, q)
      /\ SurveyAnalytics(d, q) = SurveyAnalytics(e, q)
      /\ PortalReads(d, q) = PortalReads(e, q)
  BY TicketList, SurveyFigures, PortalFigures
<1>2. ResponsesListed(d, q) = ResponsesListed(e, q)
  BY ResponseList, Zenon DEF ResponsesListed
<1> QED
  BY <1>1, <1>2, Zenon DEF ListingReads

\* Whatever staff of an organization ask, and whatever anybody but the platform
\* has listed, is answered from rows that look alike.
LEMMA AnswerFromOwnRows ==
  ASSUME NEW d, NEW e, NEW q, LookAlike(d, e, q), RowsBelong(d), RowsBelong(e),
         {"access", "filter"} \subseteq DOMAIN q,
         q.access.role \in Staff \/ q.kind \in ListingKinds
  PROVE  DashboardReads(d, q) = DashboardReads(e, q)
<1>1. /\ AggregateReads(d, q) = AggregateReads(e, q)
      /\ ReportReads(d, q) = ReportReads(e, q)
      /\ GetCharts(d, q, ChartTypes) = GetCharts(e, q, ChartTypes)
      /\ SearchReads(d, q) = SearchReads(e, q)
      /\ UsageReads(d, q) = UsageReads(e, q)
      /\ ListingReads(d, q) = ListingReads(e, q)
  BY AggregateAnswer, ReportAnswer, ChartFigures, SearchAnswer, UsageAnswer,
     ListingAnswer
<1>2. q.kind = "dashboard" => RoleReads(d, q) = RoleReads(e, q)
  BY OwnerAnswer, AgentAnswer DEF RoleReads, Staff, ListingKinds
<1> DEFINE Answers(role, aggregate, report, charts, search, usage, listing) ==
             CASE q.kind = "dashboard" -> role
               [] q.kind = "aggregate" -> aggregate
               [] q.kind = "report" -> report
               [] q.kind = "charts" -> charts
               [] q.kind = "search" -> search
               [] q.kind = "usage" -> usage
               [] q.kind \in ListingKinds \ {"usage"} -> listing
<1>3. \A c : DashboardReads(c, q) =
        Answers(RoleReads(c, q), AggregateReads(c, q), ReportReads(c, q),
                GetCharts(c, q, ChartTypes), SearchReads(c, q), UsageReads(c, q),
                ListingReads(c, q))
  BY DEF DashboardReads
<1>4. CASE q.kind = "dashboard"
  <2>1. \A c : DashboardReads(c, q) = RoleReads(c, q)
    BY <1>4 DEF DashboardReads, ListingKinds
  <2> QED
    BY <1>2, <1>4, <2>1
<1>5. CASE q.kind # "dashboard"
  BY <1>1, <1>3, <1>5
<1> QED
  BY <1>4, <1>5
-----------------------------------------------------------------------------
(* The counts of tickets. *)

\* The tickets an answer counts, and how it divides them: a customer is shown
\* resolved and closed tickets as one.
ForCustomer(q) == q.kind = "dashboard" /\ q.access.role = "CUSTOMER"

Asks(q) == IF q.kind = "dashboard" /\ q.access.role = "SUPPORT_AGENT" THEN Own(q) ELSE q

Selected(d, q) ==
  IF ForCustomer(q) THEN CreatedIn({t \in d.tickets : t.by = q.access.user}, q)
                    ELSE CreatedIn(TicketScope(d, Asks(q)), Asks(q))

Part(q, k) ==
  CASE k = "open" -> OpenStatuses
    [] k = "resolved" -> IF ForCustomer(q) THEN DoneStatuses ELSE {"RESOLVED"}
    [] k = "closed" -> IF ForCustomer(q) THEN {} ELSE {"CLOSED"}

Count(d, q, k) == IF k = "total" THEN Cardinality(Selected(d, q))
                                 ELSE InStatus(Selected(d, q), Part(q, k))

TellsTickets(q) == q.kind \in {"dashboard", "aggregate", "report"}

LEMMA CountsTold ==
  ASSUME NEW d, NEW q, q.kind \in QuestionKinds, q.access.role \in AccessRoles,
         TellsTickets(q)
  PROVE  /\ "tickets" \in DOMAIN DashboardReads(d, q)
         /\ Apart \subseteq DOMAIN DashboardReads(d, q).tickets
         /\ \A k \in Apart : DashboardReads(d, q).tickets[k] = Count(d, q, k)
<1>1. \A x : /\ TicketReads(d, x).total = Cardinality(CreatedIn(TicketScope(d, x), x))
             /\ TicketReads(d, x).open
                  = InStatus(CreatedIn(TicketScope(d, x), x), OpenStatuses)
             /\ TicketReads(d, x).resolved
                  = InStatus(CreatedIn(TicketScope(d, x), x), {"RESOLVED"})
             /\ TicketReads(d, x).closed
                  = InStatus(CreatedIn(TicketScope(d, x), x), {"CLOSED"})
             /\ Apart \subseteq DOMAIN TicketReads(d, x)
  BY DEF TicketReads, Apart
<1>2. /\ AggregateReads(d, q).tickets = TicketReads(d, q)
      /\ "tickets" \in DOMAIN AggregateReads(d, q)
  BY DEF AggregateReads
<1>3. /\ ReportReads(d, q).tickets = TicketReads(d, q)
      /\ "tickets" \in DOMAIN ReportReads(d, q)
  BY DEF ReportReads
<1>4. /\ PlatformReads(d, q).tickets = TicketReads(d, q)
      /\ "tickets" \in DOMAIN PlatformReads(d, q)
  BY Zenon DEF PlatformReads
<1>5. /\ TenantReads(d, q).tickets = TicketReads(d, q)
      /\ "tickets" \in DOMAIN TenantReads(d, q)
  BY Zenon DEF TenantReads
<1>6. /\ AgentReads(d, q).tickets = TicketReads(d, Own(q))
      /\ "tickets" \in DOMAIN AgentReads(d, q)
  BY DEF AgentReads
<1>7. ForCustomer(q) =>
        /\ "tickets" \in DOMAIN CustomerReads(d, q)
        /\ Apart \subseteq DOMAIN CustomerReads(d, q).tickets
        /\ CustomerReads(d, q).tickets.total = Cardinality(Selected(d, q))
        /\ CustomerReads(d, q).tickets.open = InStatus(Selected(d, q), OpenStatuses)
        /\ CustomerReads(d, q).tickets.resolved = InStatus(Selected(d, q), DoneStatuses)
        /\ CustomerReads(d, q).tickets.closed = 0
  BY DEF CustomerReads, Apart, Selected
<1>8. \A rows : InStatus(rows, {}) = 0
  <2>1. \A rows : {r \in rows : r.status \in {}} = {}
    OBVIOUS
  <2> QED
    BY <2>1, FS_EmptySet DEF InStatus
<1>9. CASE ForCustomer(q)
  <2>1. DashboardReads(d, q) = CustomerReads(d, q)
    BY <1>9 DEF DashboardReads, RoleReads, ForCustomer, ListingKinds
  <2> QED
    BY <1>7, <1>8, <1>9, <2>1 DEF Count, Part, Apart
<1>10. CASE ~ForCustomer(q)
  <2>1. /\ "tickets" \in DOMAIN DashboardReads(d, q)
        /\ DashboardReads(d, q).tickets = TicketReads(d, Asks(q))
    <3>1. CASE q.kind = "dashboard"
      <4>1. DashboardReads(d, q) = RoleReads(d, q)
        BY <3>1 DEF DashboardReads, ListingKinds
      <4> QED
        BY <1>4, <1>5, <1>6, <1>10, <3>1, <4>1
           DEF RoleReads, Asks, ForCustomer, AccessRoles, Staff
    <3>2. CASE q.kind = "aggregate"
      BY <1>2, <3>2 DEF DashboardReads, ListingKinds, Asks
    <3>3. CASE q.kind = "report"
      BY <1>3, <3>3 DEF DashboardReads, ListingKinds, Asks
    <3> QED
      BY <3>1, <3>2, <3>3 DEF TellsTickets
  <2>2. Selected(d, q) = CreatedIn(TicketScope(d, Asks(q)), Asks(q))
    BY <1>10 DEF Selected
  <2> QED
    BY <1>1, <1>10, <2>1, <2>2 DEF Count, Part, Apart
<1> QED
  BY <1>9, <1>10

LEMMA NoCountsTold ==
  ASSUME NEW d, NEW q, q.kind \in QuestionKinds, ~TellsTickets(q)
  PROVE  "tickets" \notin DOMAIN DashboardReads(d, q)
<1>1. /\ "tickets" \notin DOMAIN GetCharts(d, q, ChartTypes)
      /\ "tickets" \notin DOMAIN SearchReads(d, q)
  BY DEF GetCharts, SearchReads
<1>2. "tickets" \notin DOMAIN UsageReads(d, q)
  BY DEF UsageReads
<1>3. "tickets" \notin DOMAIN PortalReads(d, q)
  BY DEF PortalReads
<1>4. "tickets" \notin DOMAIN ResponsesListed(d, q)
  BY DEF ResponsesListed, Listed
<1>5. q.kind \in ListingKinds \ {"usage"} => "tickets" \notin DOMAIN ListingReads(d, q)
  BY <1>3 DEF ListingReads, ListingKinds
<1> QED
  BY <1>1, <1>2, <1>5 DEF DashboardReads, QuestionKinds, TellsTickets, ListingKinds

\* One element of a set goes, and perhaps another comes.
LEMMA OneGone ==
  ASSUME NEW S, IsFiniteSet(S), NEW t
  PROVE  /\ IsFiniteSet(S \ {t}) /\ Cardinality(S \ {t}) \in Nat
         /\ Cardinality(S \ {t}) = Cardinality(S) - (IF t \in S THEN 1 ELSE 0)
  BY FS_RemoveElement, FS_CardinalityType

LEMMA OneMoved ==
  ASSUME NEW S, IsFiniteSet(S), NEW t, NEW to
  PROVE  Cardinality((S \ {t}) \cup {to})
           = Cardinality(S) - (IF t \in S THEN 1 ELSE 0)
                            + (IF to \notin S \ {t} THEN 1 ELSE 0)
<1> DEFINE U == S \ {t}
<1>1. IsFiniteSet(U) /\ Cardinality(U) \in Nat
  BY OneGone
<1>2. Cardinality(U) = Cardinality(S) - (IF t \in S THEN 1 ELSE 0)
  BY OneGone
<1> HIDE DEF U
<1>3. Cardinality(U \cup {to})
        = IF to \in U THEN Cardinality(U) ELSE Cardinality(U) + 1
  BY <1>1, FS_AddElement
<1>4. Cardinality(U \cup {to}) = Cardinality(U) + (IF to \notin U THEN 1 ELSE 0)
  BY <1>1, <1>3
<1> QED
  BY <1>2, <1>4 DEF U

LEMMA DisjointUnion ==
  ASSUME NEW S, NEW T, IsFiniteSet(S), IsFiniteSet(T), S \cap T = {}
  PROVE  /\ IsFiniteSet(S \cup T)
         /\ Cardinality(S \cup T) = Cardinality(S) + Cardinality(T)
<1>1. /\ IsFiniteSet(S \cup T)
      /\ Cardinality(S \cup T)
           = Cardinality(S) + Cardinality(T) - Cardinality(S \cap T)
  BY FS_Union
<1>2. Cardinality(S \cap T) = 0
  BY FS_EmptySet
<1>3. Cardinality(S) \in Nat /\ Cardinality(T) \in Nat
  BY FS_CardinalityType
<1> QED
  BY <1>1, <1>2, <1>3

Counted == {"open", "resolved", "closed"}

\* The parts divide the tickets: every status is in one and only one.
LEMMA PartsDivide ==
  ASSUME NEW q
  PROVE  /\ Part(q, "open") \cap Part(q, "resolved") = {}
         /\ Part(q, "open") \cap Part(q, "closed") = {}
         /\ Part(q, "resolved") \cap Part(q, "closed") = {}
         /\ Part(q, "open") \cup Part(q, "resolved") \cup Part(q, "closed")
              = TicketStatuses
BY DEF Part, OpenStatuses, DoneStatuses, TicketStatuses

TicketsSound(d) ==
  IsFiniteSet(d.tickets) /\ \A t \in d.tickets : t.status \in TicketStatuses

LEMMA RowsTickets ==
  ASSUME NEW d, RowsStand(d)
  PROVE  TicketsSound(d) /\ RowsBelong(d) /\ Tables \subseteq DOMAIN d
<1>1. IsFiniteSet(d["tickets"])
  BY DEF RowsStand, Tables
<1> QED
  BY <1>1 DEF RowsStand, TicketsStand, TicketsSound

LEMMA SelectedTickets ==
  ASSUME NEW d, NEW q
  PROVE  Selected(d, q) \subseteq d.tickets
BY DEF Selected, CreatedIn, TicketScope, BaseScope

LEMMA CountsAddUp ==
  ASSUME NEW d, NEW q, TicketsSound(d)
  PROVE  /\ \A k \in Apart : Count(d, q, k) \in Nat
         /\ Count(d, q, "total")
              = Count(d, q, "open") + Count(d, q, "resolved") + Count(d, q, "closed")
<1> DEFINE R == Selected(d, q)
           In(k) == {r \in R : r.status \in Part(q, k)}
<1>1. IsFiniteSet(R)
  BY SelectedTickets, FS_Subset DEF TicketsSound
<1>2. \A k : IsFiniteSet(In(k)) /\ Cardinality(In(k)) \in Nat
  BY <1>1, FS_Subset, FS_CardinalityType
<1>3. /\ R = (In("open") \cup In("resolved")) \cup In("closed")
      /\ In("open") \cap In("resolved") = {}
      /\ (In("open") \cup In("resolved")) \cap In("closed") = {}
  BY PartsDivide, SelectedTickets DEF TicketsSound
<1>4. \A k \in Counted : Count(d, q, k) = Cardinality(In(k))
  BY DEF Count, Counted, InStatus
<1>5. Count(d, q, "total") = Cardinality(R)
  BY DEF Count
<1>6. Cardinality(R) \in Nat
  BY <1>1, FS_CardinalityType
<1> HIDE DEF R, In
<1>7. /\ IsFiniteSet(In("open") \cup In("resolved"))
      /\ Cardinality(In("open") \cup In("resolved"))
           = Cardinality(In("open")) + Cardinality(In("resolved"))
  BY <1>2, <1>3, DisjointUnion
<1>8. Cardinality(R) = Cardinality(In("open")) + Cardinality(In("resolved"))
                         + Cardinality(In("closed"))
  <2>1. Cardinality((In("open") \cup In("resolved")) \cup In("closed"))
          = Cardinality(In("open") \cup In("resolved")) + Cardinality(In("closed"))
    BY <1>2, <1>3, <1>7, DisjointUnion
  <2> QED
    BY <1>3, <1>7, <2>1
<1> QED
  BY <1>2, <1>4, <1>5, <1>6, <1>8 DEF Apart, Counted

\* Where one ticket moves, each part of the counts loses at most that one and
\* gains at most that one, and only one part does either.
Nudged(d, e, q) ==
  \E a, b \in [Counted -> 0..1] :
    /\ a["open"] + a["resolved"] + a["closed"] <= 1
    /\ b["open"] + b["resolved"] + b["closed"] <= 1
    /\ \A k \in Counted : Count(e, q, k) = Count(d, q, k) - a[k] + b[k]

LEMMA CountsMove ==
  ASSUME NEW d, NEW e, NEW q, NEW t, NEW to, TicketsSound(d), TicketsSound(e),
         e.tickets = (d.tickets \ {t}) \cup {to}
  PROVE  Nudged(d, e, q)
<1> DEFINE R == Selected(d, q)
           X == {r \in {to} : r \in Selected(e, q)}
           In(rows, k) == {r \in rows : r.status \in Part(q, k)}
           Out(k) == (IF t \in In(R, k) THEN 1 ELSE 0)
           New(k) == (IF In(X, k) # {} /\ to \notin In(R, k) \ {t} THEN 1 ELSE 0)
           a == [k \in Counted |-> Out(k)]
           b == [k \in Counted |-> New(k)]
<1>1. Selected(e, q) = (R \ {t}) \cup X
  BY DEF Selected, CreatedIn, TicketScope, BaseScope
<1>2. \A k : In(Selected(e, q), k) = (In(R, k) \ {t}) \cup In(X, k)
  BY <1>1
<1>3. \A k : IsFiniteSet(In(R, k)) /\ Cardinality(In(R, k)) \in Nat
  <2>1. IsFiniteSet(R)
    BY SelectedTickets, FS_Subset DEF TicketsSound
  <2> QED
    BY <2>1, FS_Subset, FS_CardinalityType
<1>4. \A k : In(X, k) = {} \/ In(X, k) = {to}
  OBVIOUS
<1>5. \A k \in Counted : Cardinality(In(Selected(e, q), k))
                           = Cardinality(In(R, k)) - Out(k) + New(k)
  <2> SUFFICES ASSUME NEW k \in Counted
               PROVE  Cardinality(In(Selected(e, q), k))
                        = Cardinality(In(R, k)) - Out(k) + New(k)
    OBVIOUS
  <2> DEFINE S == In(R, k)
             Y == In(X, k)
  <2>1. IsFiniteSet(S) /\ Cardinality(S) \in Nat
    BY <1>3
  <2>2. In(Selected(e, q), k) = (S \ {t}) \cup Y
    BY <1>2
  <2>3. Out(k) = IF t \in S THEN 1 ELSE 0
    OBVIOUS
  <2>4. New(k) = IF Y # {} /\ to \notin S \ {t} THEN 1 ELSE 0
    OBVIOUS
  <2>5. Y = {} \/ Y = {to}
    BY <1>4
  <2> HIDE DEF S, Y, In, Out, New, R, X
  <2>6. CASE Y = {}
    <3>1. In(Selected(e, q), k) = S \ {t}
      BY <2>2, <2>6
    <3> QED
      BY <2>1, <2>3, <2>4, <2>6, <3>1, OneGone DEF S
  <2>7. CASE Y = {to}
    <3>1. /\ In(Selected(e, q), k) = (S \ {t}) \cup {to}
          /\ New(k) = IF to \notin S \ {t} THEN 1 ELSE 0
      BY <2>2, <2>4, <2>7
    <3> QED
      BY <2>1, <2>3, <3>1, OneMoved DEF S
  <2> QED
    BY <2>5, <2>6, <2>7
<1>6. \A k \in Counted : /\ Count(e, q, k) = Cardinality(In(Selected(e, q), k))
                         /\ Count(d, q, k) = Cardinality(In(R, k))
  BY DEF Count, InStatus, Counted
<1>7. Out("open") + Out("resolved") + Out("closed") <= 1
  BY PartsDivide
<1>8. New("open") + New("resolved") + New("closed") <= 1
  BY PartsDivide
<1>9. a \in [Counted -> 0..1] /\ b \in [Counted -> 0..1]
  OBVIOUS
<1> HIDE DEF Out, New, In, R, X
<1>10. /\ a["open"] + a["resolved"] + a["closed"] <= 1
       /\ b["open"] + b["resolved"] + b["closed"] <= 1
  BY <1>7, <1>8 DEF Counted
<1>11. \A k \in Counted : Count(e, q, k) = Count(d, q, k) - a[k] + b[k]
  BY <1>5, <1>6
<1> HIDE DEF a, b
<1> QED
  BY <1>9, <1>10, <1>11 DEF Nudged
-----------------------------------------------------------------------------
(* The requests. *)

Held(s) == {s[i] : i \in DOMAIN s}

\* The last of the answers is the one the rows give now.
AnswersInv ==
  /\ asked \in Questions \cup {Nothing}
  /\ answers \in Seq(Held(answers))
  /\ changes \in 0..MaxChanges /\ Len(answers) <= changes + 1
  /\ asked = Nothing <=> answers = <<>>
  /\ asked # Nothing => answers[Len(answers)] = DashboardReads(db, asked)

DashboardInv == RowsStand(db) /\ AnswersInv

LEMMA AppendHeld ==
  ASSUME NEW s, s \in Seq(Held(s)), NEW x
  PROVE  /\ Append(s, x) \in Seq(Held(Append(s, x)))
         /\ Append(s, x) # <<>>
         /\ Len(Append(s, x)) = Len(s) + 1
         /\ Append(s, x)[Len(Append(s, x))] = x
<1> DEFINE t == Append(s, x)
<1>1. /\ Len(s) \in Nat /\ DOMAIN s = 1..Len(s)
      /\ t \in Seq(Held(s) \cup {x})
  BY SMT
<1>2. Len(t) = Len(s) + 1 /\ t[Len(t)] = x /\ DOMAIN t = 1..Len(t)
  BY <1>1, SMT
<1>3. \A i \in 1..Len(t) : t[i] \in Held(t)
  BY <1>2 DEF Held
<1> HIDE DEF t
<1>4. t \in Seq(Held(t))
  BY <1>1, <1>2, <1>3, SMT
<1>5. t # <<>>
  BY <1>1, <1>2, SMT
<1> QED
  BY <1>2, <1>4, <1>5 DEF t

\* A change that leaves the rows sound is answered anew.
LEMMA ChangeStep ==
  ASSUME AnswersInv, NEW rows, Changes(rows)
  PROVE  AnswersInv'
<1> DEFINE now == DashboardReads(rows, asked)
<1>1. /\ answers' = Append(answers, now) /\ asked' = asked /\ db' = rows
      /\ changes' = changes + 1 /\ changes < MaxChanges /\ asked # Nothing
  BY DEF Changes
<1> HIDE DEF now
<1>2. /\ answers' \in Seq(Held(answers')) /\ answers' # <<>>
      /\ Len(answers') = Len(answers) + 1 /\ answers'[Len(answers')] = now
  BY <1>1, AppendHeld DEF AnswersInv
<1>3. Len(answers) \in Nat
  BY DEF AnswersInv
<1>4. changes' \in 0..MaxChanges /\ Len(answers') <= changes' + 1
  BY <1>1, <1>2, <1>3, DashboardsAssumption DEF AnswersInv
<1>5. now = DashboardReads(db', asked')
  BY <1>1 DEF now
<1> QED
  BY <1>1, <1>2, <1>4, <1>5, Zenon DEF AnswersInv

\* Only the tickets and the payments change.
Settled == Tables \ {"tickets", "payments"}

FeedbackBelongs(d) ==
  \A r \in d.feedback \cup d.responses, t \in d.tickets : r.ticket = t.id => r.org = t.org

LEMMA OthersStand ==
  ASSUME NEW d, NEW e, RowsStand(d), DOMAIN e = DOMAIN d,
         \A table \in Settled : e[table] = d[table],
         IsFiniteSet(e.tickets), TicketsStand(e),
         IsFiniteSet(e.payments), PaymentsStand(e),
         FeedbackBelongs(e)
  PROVE  RowsStand(e)
<1>1. /\ e["users"] = d["users"] /\ e["files"] = d["files"] /\ e["usage"] = d["usage"]
      /\ e["articles"] = d["articles"] /\ e["categories"] = d["categories"]
      /\ e["subscriptions"] = d["subscriptions"] /\ e["plans"] = d["plans"]
      /\ e["feedback"] = d["feedback"] /\ e["responses"] = d["responses"]
  BY DEF Settled, Tables
<1>2. RowsBelong(e) /\ PlansBelong(e)
  BY <1>1 DEF RowsStand, RowsBelong, PlansBelong, FeedbackBelongs
<1>3. ASSUME NEW table \in Tables \ {"plans"}
      PROVE  IsFiniteSet(e[table])
  <2>1. CASE table \in Settled
    BY <2>1 DEF RowsStand
  <2>2. CASE table \notin Settled
    BY <2>2 DEF Settled
  <2> QED
    BY <2>1, <2>2
<1>4. IsFiniteSet(DOMAIN e.plans) /\ ValuesStand(e)
  BY <1>1 DEF RowsStand, ValuesStand
<1> QED
  BY <1>2, <1>3, <1>4 DEF RowsStand

\* A payment that succeeds says when.
LEMMA PaymentsMove ==
  ASSUME RowsStand(db), NEW p \in db.payments,
         db' = [db EXCEPT !.payments = (@ \ {p}) \cup
                  {[p EXCEPT !.status = "SUCCESSFUL", !.paid = p.created]}]
  PROVE  RowsStand(db') /\ db'.tickets = db.tickets
<1> DEFINE to == [p EXCEPT !.status = "SUCCESSFUL", !.paid = p.created]
<1>1. /\ DOMAIN db' = DOMAIN db /\ db'.tickets = db.tickets
      /\ db'.payments = (db.payments \ {p}) \cup {to}
      /\ db'.feedback = db.feedback /\ db'.responses = db.responses
      /\ \A table \in Settled : db'[table] = db[table]
  BY RowsTickets DEF Tables, Settled
<1>2. IsFiniteSet(db'.tickets) /\ TicketsStand(db')
  BY <1>1, RowsTickets DEF RowsStand, TicketsStand, TicketsSound
<1>3. IsFiniteSet(db'.payments)
  <2>1. IsFiniteSet(db["payments"])
    BY DEF RowsStand, Tables
  <2>2. IsFiniteSet(db.payments \ {p})
    BY <2>1, FS_RemoveElement
  <2> QED
    BY <1>1, <2>2, FS_AddElement
<1>4. PaymentsStand(db')
  <2>1. /\ DOMAIN to = DOMAIN p /\ to.amount = p.amount /\ to.created = p.created
        /\ to.paid = p.created
    BY DEF RowsStand, PaymentsStand
  <2> HIDE DEF to
  <2>2. \A s \in db'.payments : s = to \/ s \in db.payments
    BY <1>1
  <2> QED
    BY <2>1, <2>2 DEF RowsStand, PaymentsStand
<1>5. FeedbackBelongs(db')
  BY <1>1 DEF RowsStand, RowsBelong, FeedbackBelongs
<1> QED
  BY <1>1, <1>2, <1>3, <1>4, <1>5, OthersStand

\* A ticket that moves stays the ticket it is.
LEMMA TicketsMove ==
  ASSUME RowsStand(db), NEW t \in db.tickets, NEW to,
         db' = [db EXCEPT !.tickets = (@ \ {t}) \cup {to}],
         to.id = t.id, to.org = t.org, to.created = t.created, DOMAIN to = DOMAIN t,
         to.status \in TicketStatuses
  PROVE  RowsStand(db')
<1>1. /\ DOMAIN db' = DOMAIN db /\ db'.tickets = (db.tickets \ {t}) \cup {to}
      /\ db'.feedback = db.feedback /\ db'.responses = db.responses
      /\ db'.payments = db.payments
      /\ \A table \in Settled : db'[table] = db[table]
  BY RowsTickets DEF Tables, Settled
<1>2. IsFiniteSet(db'.tickets)
  <2>1. IsFiniteSet(db.tickets \ {t})
    BY RowsTickets, FS_RemoveElement DEF TicketsSound
  <2> QED
    BY <1>1, <2>1, FS_AddElement
<1>3. TicketsStand(db')
  BY <1>1 DEF RowsStand, TicketsStand
<1>4. FeedbackBelongs(db')
  BY <1>1 DEF RowsStand, RowsBelong, FeedbackBelongs
<1>5. IsFiniteSet(db'.payments) /\ PaymentsStand(db')
  <2>1. IsFiniteSet(db["payments"])
    BY DEF RowsStand, Tables
  <2> QED
    BY <1>1, <2>1 DEF RowsStand, PaymentsStand
<1> QED
  BY <1>1, <1>2, <1>3, <1>4, <1>5, OthersStand

LEMMA MoveStep ==
  ASSUME DashboardInv, NEW t \in db.tickets, NEW to, MoveTicket(t, to),
         to.id = t.id, to.org = t.org, to.created = t.created, DOMAIN to = DOMAIN t,
         to.status \in TicketStatuses
  PROVE  DashboardInv'
<1>1. db' = [db EXCEPT !.tickets = (@ \ {t}) \cup {to}]
  BY DEF MoveTicket, Changes
<1>2. RowsStand(db')
  BY <1>1, TicketsMove DEF DashboardInv
<1>3. AnswersInv'
  BY ChangeStep DEF MoveTicket, DashboardInv
<1> QED
  BY <1>2, <1>3 DEF DashboardInv

LEMMA DashboardInductive ==
  DashboardInv /\ [DashboardNext]_dashboardVars => DashboardInv'
<1> SUFFICES ASSUME DashboardInv, [DashboardNext]_dashboardVars
             PROVE  DashboardInv'
  OBVIOUS
<1>1. ASSUME NEW t \in db.tickets, NEW s \in {"OPEN", "REOPENED", "RESOLVED", "CLOSED"},
             SetTicketStatus(t, s)
      PROVE  DashboardInv'
  <2> DEFINE to == [t EXCEPT !.status = s,
                             !.resolved = IF s = "RESOLVED" THEN t.created + 1 ELSE @]
  <2>1. MoveTicket(t, to)
    BY <1>1 DEF SetTicketStatus
  <2>2. /\ to.id = t.id /\ to.org = t.org /\ to.created = t.created
        /\ DOMAIN to = DOMAIN t /\ t.status \in TicketStatuses
    BY DEF DashboardInv, RowsStand, TicketsStand
  <2>3. to.status \in TicketStatuses
    BY DEF DashboardInv, RowsStand, TicketsStand, TicketStatuses
  <2> QED
    BY <2>1, <2>2, <2>3, MoveStep
<1>2. ASSUME NEW t \in db.tickets, NEW agent, AssignTicket(t, agent)
      PROVE  DashboardInv'
  <2> DEFINE to == [t EXCEPT !.agent = agent]
  <2>1. MoveTicket(t, to)
    BY <1>2 DEF AssignTicket
  <2>2. /\ to.id = t.id /\ to.org = t.org /\ to.created = t.created
        /\ DOMAIN to = DOMAIN t /\ t.status \in TicketStatuses
    BY DEF DashboardInv, RowsStand, TicketsStand
  <2>3. to.status \in TicketStatuses
    BY <2>2
  <2> QED
    BY <2>1, <2>2, <2>3, MoveStep
<1>3. ASSUME NEW p \in db.payments, SettlePayment(p)
      PROVE  DashboardInv'
  <2> DEFINE rows == [db EXCEPT !.payments = (@ \ {p}) \cup
                        {[p EXCEPT !.status = "SUCCESSFUL", !.paid = p.created]}]
  <2>1. Changes(rows)
    BY <1>3 DEF SettlePayment
  <2>2. RowsStand(db')
    BY <2>1, PaymentsMove DEF Changes, DashboardInv
  <2> QED
    BY <2>1, <2>2, ChangeStep DEF DashboardInv
<1>4. ASSUME NEW q \in Questions, Ask(q)
      PROVE  DashboardInv'
  <2>1. q # Nothing
    BY QuestionsAsked DEF Nothing
  <2> DEFINE now == DashboardReads(db, q)
  <2>2. /\ asked' = q /\ db' = db /\ changes' = changes /\ answers' = <<now>>
    BY <1>4 DEF Ask
  <2>3. now = DashboardReads(db', asked')
    BY <2>2
  <2> HIDE DEF now
  <2>4. /\ answers' \in Seq(Held(answers')) /\ answers' # <<>>
        /\ Len(answers') = 1 /\ answers'[Len(answers')] = now
    BY <2>2 DEF Held
  <2>5. changes' \in 0..MaxChanges /\ Len(answers') <= changes' + 1
    BY <2>2, <2>4 DEF DashboardInv, AnswersInv
  <2>6. RowsStand(db')
    BY <2>2 DEF DashboardInv, RowsStand
  <2> QED
    BY <2>1, <2>2, <2>3, <2>4, <2>5, <2>6, Zenon DEF DashboardInv, AnswersInv
<1>5. ASSUME Answer
      PROVE  DashboardInv'
  <2>1. asked' = Nothing /\ answers' = <<>> /\ db' = db /\ changes' = changes
    BY <1>5 DEF Answer
  <2>2. answers' \in Seq(Held(answers')) /\ Len(answers') = 0
    BY <2>1
  <2>3. RowsStand(db')
    BY <2>1 DEF DashboardInv, RowsStand
  <2> QED
    BY <2>1, <2>2, <2>3 DEF DashboardInv, AnswersInv
<1>6. CASE UNCHANGED dashboardVars
  <2>1. asked' = asked /\ answers' = answers /\ db' = db /\ changes' = changes
    BY <1>6 DEF dashboardVars
  <2>2. RowsStand(db')
    BY <2>1 DEF DashboardInv, RowsStand
  <2> QED
    BY <2>1, <2>2, Zenon DEF DashboardInv, AnswersInv
<1> QED
  BY <1>1, <1>2, <1>3, <1>4, <1>5, <1>6 DEF DashboardNext

LEMMA DashboardInitially == DashboardInit => DashboardInv
<1> SUFFICES ASSUME DashboardInit
             PROVE  DashboardInv
  OBVIOUS
<1>1. RowsStand(db)
  BY DashboardsAssumption DEF DashboardInit, RowsStand
<1>2. answers \in Seq(Held(answers)) /\ Len(answers) = 0
  BY DEF DashboardInit
<1> QED
  BY <1>1, <1>2, DashboardsAssumption DEF DashboardInit, DashboardInv, AnswersInv

LEMMA DashboardAlways == DashboardSpec => []DashboardInv
  BY DashboardInitially, DashboardInductive, PTL DEF DashboardSpec

\* Every reachable state of a request for figures is well typed.
THEOREM DashboardTypeCorrect == DashboardSpec => []DashboardTypeOK
<1>1. DashboardInv => DashboardTypeOK
  <2> SUFFICES ASSUME DashboardInv
               PROVE  DashboardTypeOK
    OBVIOUS
  <2>1. Len(answers) \in Nat
    BY DEF DashboardInv, AnswersInv
  <2> QED
    BY <2>1, DashboardsAssumption DEF DashboardInv, AnswersInv, DashboardTypeOK
<1> QED
  BY <1>1, DashboardAlways, PTL

\* However many organizations share the tables, and whatever their rows are,
\* what one of them is shown is what its own rows give: each of the sixty reads
\* behind the dashboards, analytics, reports, searches, listings and the portal
\* keeps to its scope (resolveScope and the where clauses of the services).
THEOREM TenantsAreApart == DashboardSpec => []OnlyOwnRows
<1>1. DashboardInv => OnlyOwnRows
  <2> SUFFICES ASSUME DashboardInv, asked # Nothing,
                      asked.access.role \in Staff \/ asked.kind \in ListingKinds,
                      ~ForPlatform(asked)
               PROVE  answers[Len(answers)] = DashboardReads(OwnRows(db, asked), asked)
    BY DEF OnlyOwnRows
  <2> DEFINE own == OwnRows(db, asked)
  <2>1. /\ asked \in Questions
        /\ answers[Len(answers)] = DashboardReads(db, asked)
    BY DEF DashboardInv, AnswersInv
  <2>2. LookAlike(db, own, asked)
    BY OwnTables DEF DashboardInv, RowsStand
  <2>3. RowsBelong(db) /\ RowsBelong(own)
    BY DEF DashboardInv, RowsStand, RowsBelong, OwnRows, Mine, Tables
  <2> HIDE DEF own
  <2>4. DashboardReads(db, asked) = DashboardReads(own, asked)
    BY <2>1, <2>2, <2>3, AnswerFromOwnRows, QuestionsAsked
  <2> QED
    BY <2>1, <2>4 DEF own
<1> QED
  BY <1>1, DashboardAlways, PTL
-----------------------------------------------------------------------------
(* How far the counts of one answer may be apart.                          *)

Told(s, at, k) == s[at[k]].tickets[k]

Gap(s, at) ==
  Difference(Told(s, at, "total"),
             Told(s, at, "open") + Told(s, at, "resolved") + Told(s, at, "closed"))

Tells(f) ==
  /\ "tickets" \in DOMAIN f
  /\ Apart \subseteq DOMAIN f.tickets
  /\ \A k \in Apart : f.tickets[k] \in Nat

\* Whatever moments the four counts are taken from, they are out by no more
\* than the changes since the first of them.
DriftInv ==
  asked # Nothing =>
    /\ TellsTickets(asked) =>
         /\ \A i \in DOMAIN answers : Tells(answers[i])
         /\ \A at \in [Apart -> DOMAIN answers] : Gap(answers, at) <= Len(answers) - 1
    /\ ~TellsTickets(asked) => \A i \in DOMAIN answers : "tickets" \notin DOMAIN answers[i]

LEMMA AnswerTells ==
  ASSUME NEW d, NEW q \in Questions, TicketsSound(d), TellsTickets(q)
  PROVE  /\ Tells(DashboardReads(d, q))
         /\ \A k \in Apart : DashboardReads(d, q).tickets[k] = Count(d, q, k)
<1>1. q.kind \in QuestionKinds /\ q.access.role \in AccessRoles
  BY QuestionsAsked
<1>2. \A k \in Apart : Count(d, q, k) \in Nat
  BY CountsAddUp
<1>3. /\ "tickets" \in DOMAIN DashboardReads(d, q)
      /\ Apart \subseteq DOMAIN DashboardReads(d, q).tickets
      /\ \A k \in Apart : DashboardReads(d, q).tickets[k] = Count(d, q, k)
  BY <1>1, CountsTold
<1> QED
  BY <1>2, <1>3 DEF Tells

LEMMA ChangeDrifts ==
  ASSUME DashboardInv, DriftInv, NEW rows, Changes(rows),
         TicketsSound(rows), Nudged(db, rows, asked)
  PROVE  DriftInv'
<1> DEFINE now == DashboardReads(rows, asked)
           last == DashboardReads(db, asked)
           n == Len(answers)
<1>1. /\ asked' = asked /\ asked # Nothing /\ answers' = Append(answers, now)
      /\ asked \in Questions
  BY DEF Changes, DashboardInv, AnswersInv
<1>2. /\ answers[n] = last /\ n \in Nat /\ n > 0 /\ TicketsSound(db)
      /\ answers \in Seq(Held(answers))
  <2>1. answers \in Seq(Held(answers)) /\ answers # <<>> /\ TicketsSound(db)
    BY <1>1, RowsTickets DEF DashboardInv, AnswersInv
  <2> QED
    BY <1>1, <2>1 DEF DashboardInv, AnswersInv
<1> HIDE DEF now, last
<1>3. /\ DOMAIN answers = 1..n /\ DOMAIN answers' = 1..(n + 1) /\ Len(answers') = n + 1
      /\ answers'[n + 1] = now /\ \A i \in 1..n : answers'[i] = answers[i]
  BY <1>1, <1>2
<1> HIDE DEF n
<1>4. CASE ~TellsTickets(asked)
  <2>1. "tickets" \notin DOMAIN now
    BY <1>1, <1>4, NoCountsTold, QuestionsAsked DEF now
  <2>2. \A i \in 1..(n + 1) : i \in 1..n \/ i = n + 1
    BY <1>2
  <2>3. \A i \in DOMAIN answers' : "tickets" \notin DOMAIN answers'[i]
    BY <1>1, <1>3, <1>4, <2>1, <2>2 DEF DriftInv
  <2> QED
    BY <1>1, <1>4, <2>3 DEF DriftInv
<1>5. CASE TellsTickets(asked)
  <2>1. /\ Tells(now) /\ \A k \in Apart : now.tickets[k] = Count(rows, asked, k)
        /\ Tells(last) /\ \A k \in Apart : last.tickets[k] = Count(db, asked, k)
    BY <1>1, <1>2, <1>5, AnswerTells DEF now, last
  <2>2. \A i \in 1..(n + 1) : i \in 1..n \/ i = n + 1
    BY <1>2
  <2>3. \A i \in DOMAIN answers' : Tells(answers'[i])
    BY <1>1, <1>3, <1>5, <2>1, <2>2 DEF DriftInv
  <2>4. ASSUME NEW at \in [Apart -> DOMAIN answers']
        PROVE  Gap(answers', at) <= Len(answers') - 1
    <3> DEFINE was == [k \in Apart |-> IF at[k] = n + 1 THEN n ELSE at[k]]
               m(k) == Told(answers, was, k)
               w(k) == Told(answers', at, k)
               c(k) == Count(db, asked, k)
               e(k) == Count(rows, asked, k)
    <3>1. was \in [Apart -> DOMAIN answers]
      BY <1>2, <1>3, <2>2
    <3>2. \A k \in Apart : m(k) \in Nat /\ w(k) \in Nat
      BY <1>1, <1>3, <1>5, <2>3, <3>1 DEF DriftInv, Tells, Told
    <3>3. \A k \in Apart : w(k) = m(k) \/ (m(k) = c(k) /\ w(k) = e(k))
      <4> SUFFICES ASSUME NEW k \in Apart
                   PROVE  w(k) = m(k) \/ (m(k) = c(k) /\ w(k) = e(k))
        OBVIOUS
      <4>1. CASE at[k] = n + 1
        BY <1>2, <1>3, <2>1, <4>1 DEF Told
      <4>2. CASE at[k] # n + 1
        <5>1. at[k] \in 1..n /\ was[k] = at[k]
          BY <1>3, <2>2, <4>2
        <5> QED
          BY <1>3, <5>1 DEF Told
      <4> QED
        BY <4>1, <4>2
    <3>4. /\ \A k \in Apart : c(k) \in Nat /\ e(k) \in Nat
          /\ c("total") = c("open") + c("resolved") + c("closed")
          /\ e("total") = e("open") + e("resolved") + e("closed")
      BY <1>2, CountsAddUp
    <3>5. PICK a, b \in [Counted -> 0..1] :
            /\ a["open"] + a["resolved"] + a["closed"] <= 1
            /\ b["open"] + b["resolved"] + b["closed"] <= 1
            /\ \A k \in Counted : e(k) = c(k) - a[k] + b[k]
      BY DEF Nudged
    <3>6. Gap(answers, was) <= n - 1
      BY <1>1, <1>3, <1>5, <3>1 DEF DriftInv, n
    <3>7. Gap(answers, was) \in Int /\ Gap(answers', at) \in Int
      BY <3>2 DEF Gap, Difference, Apart
    <3>8. /\ Gap(answers', at)
               = Difference(w("total"), w("open") + w("resolved") + w("closed"))
          /\ Gap(answers, was)
               = Difference(m("total"), m("open") + m("resolved") + m("closed"))
      BY DEF Gap
    <3> HIDE DEF was, m, w, c, e
    <3>9. /\ {"total", "open", "resolved", "closed"} = Apart
          /\ {"open", "resolved", "closed"} = Counted
      BY DEF Apart, Counted
    <3>10. Gap(answers', at) <= Gap(answers, was) + 1
      <4>1. /\ "total" \in Apart /\ "open" \in Apart /\ "resolved" \in Apart
            /\ "closed" \in Apart /\ "open" \in Counted /\ "resolved" \in Counted
            /\ "closed" \in Counted
        BY <3>9
      <4>2. /\ a["open"] \in 0..1 /\ a["resolved"] \in 0..1 /\ a["closed"] \in 0..1
            /\ b["open"] \in 0..1 /\ b["resolved"] \in 0..1 /\ b["closed"] \in 0..1
        BY <4>1
      <4>3. \A k \in Counted : e(k) = c(k) - a[k] + b[k]
        BY <3>5, Zenon
      <4>4. /\ e("open") = c("open") - a["open"] + b["open"]
            /\ e("resolved") = c("resolved") - a["resolved"] + b["resolved"]
            /\ e("closed") = c("closed") - a["closed"] + b["closed"]
        BY <4>1, <4>3, Zenon
      <4>5. \A k \in Apart : /\ c(k) \in Nat /\ e(k) \in Nat /\ m(k) \in Nat /\ w(k) \in Nat
                             /\ w(k) = m(k) \/ (m(k) = c(k) /\ w(k) = e(k))
        BY <3>2, <3>3, <3>4, Zenon
      <4>6. /\ \/ w("total") = m("total")
               \/ m("total") = c("total") /\ w("total") = e("total")
            /\ \/ w("open") = m("open")
               \/ m("open") = c("open") /\ w("open") = e("open")
            /\ \/ w("resolved") = m("resolved")
               \/ m("resolved") = c("resolved") /\ w("resolved") = e("resolved")
            /\ \/ w("closed") = m("closed")
               \/ m("closed") = c("closed") /\ w("closed") = e("closed")
        BY <4>1, <4>5, Zenon
      <4>7. /\ c("total") \in Nat /\ c("open") \in Nat /\ c("resolved") \in Nat
            /\ c("closed") \in Nat /\ e("total") \in Nat /\ e("open") \in Nat
            /\ e("resolved") \in Nat /\ e("closed") \in Nat
        BY <4>1, <4>5, Zenon
      <4>8. /\ m("total") \in Nat /\ m("open") \in Nat /\ m("resolved") \in Nat
            /\ m("closed") \in Nat /\ w("total") \in Nat /\ w("open") \in Nat
            /\ w("resolved") \in Nat /\ w("closed") \in Nat
        BY <4>1, <4>5, Zenon
      <4>9. Difference(w("total"), w("open") + w("resolved") + w("closed"))
              <= Difference(m("total"), m("open") + m("resolved") + m("closed")) + 1
        BY <3>4, <3>5, <4>2, <4>4, <4>6, <4>7, <4>8 DEF Difference
      <4> QED
        BY <3>8, <4>9, Zenon
    <3> QED
      BY <1>2, <1>3, <3>6, <3>7, <3>10, SMT
  <2> QED
    BY <1>1, <1>5, <2>3, <2>4 DEF DriftInv
<1> QED
  BY <1>4, <1>5

\* The counts depend on nothing but the tickets.
LEMMA UnmovedNudge ==
  ASSUME NEW d, NEW e, NEW q, TicketsSound(d), e.tickets = d.tickets
  PROVE  Nudged(d, e, q)
<1> DEFINE none == [k \in Counted |-> 0]
<1>1. \A k : Count(e, q, k) = Count(d, q, k)
  <2>1. Selected(e, q) = Selected(d, q)
    BY DEF Selected, CreatedIn, TicketScope, BaseScope
  <2> QED
    BY <2>1 DEF Count
<1>2. \A k \in Counted : Count(d, q, k) \in Nat
  BY CountsAddUp DEF Counted, Apart
<1>3. none \in [Counted -> 0..1] /\ none["open"] + none["resolved"] + none["closed"] <= 1
  BY DEF Counted
<1>4. \A k \in Counted : Count(e, q, k) = Count(d, q, k) - none[k] + none[k]
  BY <1>1, <1>2
<1> HIDE DEF none
<1> QED
  BY <1>3, <1>4 DEF Nudged

LEMMA MoveDrifts ==
  ASSUME DashboardInv, DashboardInv', DriftInv, NEW t, NEW to, MoveTicket(t, to)
  PROVE  DriftInv'
<1> DEFINE rows == [db EXCEPT !.tickets = (@ \ {t}) \cup {to}]
<1>1. Changes(rows) /\ db' = rows
  BY DEF MoveTicket, Changes
<1>2. db'.tickets = (db.tickets \ {t}) \cup {to}
  BY <1>1 DEF DashboardInv, RowsStand, Tables
<1>3. TicketsSound(db) /\ TicketsSound(db')
  BY RowsTickets DEF DashboardInv
<1> HIDE DEF rows
<1>4. Nudged(db, db', asked)
  BY <1>2, <1>3, CountsMove
<1> QED
  BY <1>1, <1>3, <1>4, ChangeDrifts

LEMMA DriftInductive ==
  DashboardInv /\ DashboardInv' /\ DriftInv /\ [DashboardNext]_dashboardVars => DriftInv'
<1> SUFFICES ASSUME DashboardInv, DashboardInv', DriftInv, [DashboardNext]_dashboardVars
             PROVE  DriftInv'
  OBVIOUS
<1>1. ASSUME NEW t \in db.tickets, NEW s, SetTicketStatus(t, s)
      PROVE  DriftInv'
  BY <1>1, MoveDrifts DEF SetTicketStatus
<1>2. ASSUME NEW t \in db.tickets, NEW agent, AssignTicket(t, agent)
      PROVE  DriftInv'
  BY <1>2, MoveDrifts DEF AssignTicket
<1>3. ASSUME NEW p \in db.payments, SettlePayment(p)
      PROVE  DriftInv'
  <2> DEFINE rows == [db EXCEPT !.payments = (@ \ {p}) \cup
                        {[p EXCEPT !.status = "SUCCESSFUL", !.paid = p.created]}]
  <2>1. Changes(rows) /\ db' = rows
    BY <1>3 DEF SettlePayment, Changes
  <2>2. db'.tickets = db.tickets
    BY <2>1 DEF DashboardInv, RowsStand, Tables
  <2> HIDE DEF rows
  <2>3. TicketsSound(db) /\ TicketsSound(db')
    BY RowsTickets DEF DashboardInv
  <2>4. Nudged(db, db', asked)
    BY <2>2, <2>3, UnmovedNudge
  <2> QED
    BY <2>1, <2>3, <2>4, ChangeDrifts
<1>4. ASSUME NEW q \in Questions, Ask(q)
      PROVE  DriftInv'
  <2> DEFINE now == DashboardReads(db, q)
  <2>1. asked' = q /\ answers' = <<now>> /\ TicketsSound(db)
    BY <1>4, RowsTickets DEF Ask, DashboardInv
  <2>2. CASE ~TellsTickets(q)
    <3>1. "tickets" \notin DOMAIN now
      BY <2>2, NoCountsTold, QuestionsAsked
    <3> HIDE DEF now
    <3> QED
      BY <2>1, <2>2, <3>1 DEF DriftInv
  <2>3. CASE TellsTickets(q)
    <3>1. Tells(now) /\ \A k \in Apart : now.tickets[k] = Count(db, q, k)
      BY <2>1, <2>3, AnswerTells
    <3> HIDE DEF now
    <3>2. \A k \in Apart : now.tickets[k] \in Nat
      BY <3>1 DEF Tells
    <3>3. now.tickets["total"]
            = now.tickets["open"] + now.tickets["resolved"] + now.tickets["closed"]
      BY <2>1, <3>1, CountsAddUp DEF Apart
    <3>4. ASSUME NEW at \in [Apart -> DOMAIN answers']
          PROVE  Gap(answers', at) <= Len(answers') - 1
      <4>1. Len(answers') = 1 /\ \A k \in Apart : answers'[at[k]] = now
        BY <2>1
      <4>2. Gap(answers', at)
              = Difference(now.tickets["total"], now.tickets["open"]
                             + now.tickets["resolved"] + now.tickets["closed"])
        BY <4>1 DEF Gap, Told, Apart
      <4> QED
        BY <3>2, <3>3, <4>1, <4>2 DEF Difference, Apart
    <3>5. \A i \in DOMAIN answers' : Tells(answers'[i])
      BY <2>1, <3>1
    <3> QED
      BY <2>1, <2>3, <3>4, <3>5 DEF DriftInv
  <2> QED
    BY <2>2, <2>3
<1>5. ASSUME Answer
      PROVE  DriftInv'
  BY <1>5 DEF Answer, DriftInv
<1>6. CASE UNCHANGED dashboardVars
  <2>1. asked' = asked /\ answers' = answers
    BY <1>6 DEF dashboardVars
  <2> QED
    BY <2>1 DEF DriftInv, Gap, Told
<1> QED
  BY <1>1, <1>2, <1>3, <1>4, <1>5, <1>6 DEF DashboardNext

\* The counts of what was read are the counts of the figures that are shown.
LEMMA ShownDrifts ==
  ASSUME DriftInv, Answer
  PROVE  CountsDrift'
<1>1. PICK at \in [Apart -> DOMAIN answers], rest \in DOMAIN answers :
        shown' = [question |-> asked, overlapped |-> Len(answers) - 1,
                  figures |-> Mixed(at, answers[rest])]
  BY DEF Answer
<1> DEFINE f == answers[rest]
           g == [k \in DOMAIN f.tickets |-> IF k \in Apart THEN answers[at[k]].tickets[k]
                                                           ELSE f.tickets[k]]
<1>2. asked # Nothing
  BY DEF Answer
<1>3. CASE "tickets" \notin DOMAIN f
  <2>1. shown'.figures = f
    BY <1>1, <1>3 DEF Mixed, Has
  <2> HIDE DEF f
  <2> QED
    BY <1>3, <2>1 DEF CountsDrift, Has
<1>4. CASE "tickets" \in DOMAIN f
  <2>1. TellsTickets(asked)
    BY <1>2, <1>4 DEF DriftInv
  <2>2. Tells(f) /\ Gap(answers, at) <= Len(answers) - 1
    BY <1>2, <2>1 DEF DriftInv
  <2>3. shown'.figures = [f EXCEPT !.tickets = g] /\ shown'.overlapped = Len(answers) - 1
    BY <1>1, <1>4 DEF Mixed, Has
  <2>4. \A k \in Apart : g[k] = Told(answers, at, k)
    BY <2>2 DEF Tells, Told
  <2> HIDE DEF f, g
  <2>5. shown'.figures.tickets = g
    BY <1>4, <2>3
  <2>6. Gap(answers, at)
          = Difference(g["total"], g["open"] + g["resolved"] + g["closed"])
    BY <2>4 DEF Gap, Apart
  <2> QED
    BY <2>2, <2>3, <2>5, <2>6 DEF CountsDrift
<1> QED
  BY <1>3, <1>4

LEMMA DriftAlways == DashboardSpec => [](DriftInv /\ CountsDrift)
<1>1. DashboardInit => DriftInv /\ CountsDrift
  BY DEF DashboardInit, DriftInv, CountsDrift
<1>2. /\ DashboardInv /\ DashboardInv' /\ DriftInv /\ CountsDrift
      /\ [DashboardNext]_dashboardVars
      => DriftInv' /\ CountsDrift'
  <2> SUFFICES ASSUME DashboardInv, DashboardInv', DriftInv, CountsDrift,
                      [DashboardNext]_dashboardVars
               PROVE  DriftInv' /\ CountsDrift'
    OBVIOUS
  <2>1. DriftInv'
    BY DriftInductive
  <2>2. shown' = shown \/ Answer
    BY DEF DashboardNext, SetTicketStatus, AssignTicket, MoveTicket, SettlePayment,
           Changes, Ask, dashboardVars
  <2>3. shown' = shown => CountsDrift'
    BY DEF CountsDrift
  <2> QED
    BY <2>1, <2>2, <2>3, ShownDrifts
<1> QED
  BY <1>1, <1>2, DashboardAlways, PTL DEF DashboardSpec

\* What an answer tells of tickets adds up but for one ticket a change it
\* overlapped, whatever the rows and however the reads and the changes meet: the
\* statuses of getTickets and getCustomerDashboard divide the tickets.
THEOREM DriftIsBounded == DashboardSpec => []CountsDrift
  BY DriftAlways, PTL
=============================================================================
