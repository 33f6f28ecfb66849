------------------------------ MODULE Listings ------------------------------
(***************************************************************************)
(* What is listed and counted outside the dashboards: the search of        *)
(* tickets and of feedback, the analytics of feedback, what a tenant has   *)
(* used of its plan, and the customer's portal.  Each states for itself    *)
(* whose rows it looks at.                                                 *)
(*                                                                         *)
(* Left out: texts and the search in them, the filters handled as those    *)
(* here are, the orders but the newest first, and the averages of single   *)
(* questions.  Scores are whole numbers.                                   *)
(***************************************************************************)
EXTENDS Analytics

ForPlatform(q) == q.access.role = "PLATFORM_ADMIN"

OfOrg(rows, org) == {r \in rows : r.org = org}

\* A filter that is not given lets every row pass.
Passes(wanted, value) == wanted = None \/ wanted = value

\* Each end of a range may be given without the other.
Between(at, filter) ==
  /\ filter.from = None \/ filter.from <= at
  /\ filter.to = None \/ at <= filter.to

\* One page, and how many rows there are: two reads.
Listed(rows, At(_), q) ==
  LET limit == q.filter.limit
      Before(r) == {s \in rows : \/ At(s) > At(r)
                                 \/ At(s) = At(r) /\ s.id < r.id}
      total == Cardinality(rows)
  IN  [items |-> {r \in rows : Cardinality(Before(r)) \div limit = q.filter.page - 1},
       total |-> total,
       more  |-> q.filter.page < (total + limit - 1) \div limit]
-----------------------------------------------------------------------------
(* Tickets and feedback.                                                   *)

TicketsFound(db, q) ==
  {t \in IF ForPlatform(q) THEN db.tickets ELSE OfOrg(db.tickets, q.access.org) :
     /\ ~t.deleted
     /\ q.access.role = "CUSTOMER" => t.by = q.access.user
     /\ Passes(q.filter.status, t.status) /\ Passes(q.filter.priority, t.priority)
     /\ Passes(q.filter.agent, t.agent) /\ Passes(q.filter.customer, t.by)
     /\ Between(t.created, q.filter)}

\* The platform names at most one organization.
FeedbackScope(rows, q) ==
  IF ForPlatform(q)
  THEN {r \in rows : q.filter.orgs = {} \/ r.org \in q.filter.orgs}
  ELSE OfOrg(rows, q.access.org)

Answered(r) == r.at

ResponsesFound(db, q) ==
  {r \in FeedbackScope(db.responses, q) :
     /\ Passes(q.filter.form, r.form) /\ Passes(q.filter.customer, r.by)
     /\ q.filter.agent = None \/ \E t \in db.tickets : /\ t.id = r.ticket
                                                       /\ t.agent = q.filter.agent
     /\ Passes(q.filter.rating, r.overall)
     /\ Between(r.at, q.filter)}

ResponsesListed(db, q) == Listed(ResponsesFound(db, q), Answered, q)

\* What people who answered with nine or ten are more than those who answered
\* with six or less, in percent.
ComputeNps(rows) ==
  LET scored == {r \in rows : r.nps # None}
      Of(low, high) == Cardinality({r \in scored : low <= r.nps /\ r.nps <= high})
  IN  IF scored = {} THEN None
      ELSE Round(100 * (Of(9, 10) - Of(0, 6)), Cardinality(scored))

\* Only a form with an overall question gives a score.
Scored(rows) == {r \in rows : r.overall # None}

Score(r) == IF r.overall = None THEN 0 ELSE r.overall

\* A score on the scale to ten counts as the highest mark.
Mark(r) ==
  IF r.overall < 1 THEN 1 ELSE IF r.overall > 5 THEN 5 ELSE r.overall

RatingDistribution(rows) ==
  [s \in 1..5 |-> Cardinality({r \in Scored(rows) : Mark(r) = s})]

\* The average of a group counts the responses without a score, too.
Group(rows) ==
  [count |-> Cardinality(rows), average |-> AverageOf(Score, rows),
   nps |-> ComputeNps(rows)]

GroupBy(rows, Of(_)) ==
  [v \in {Of(r) : r \in rows} |-> Group({r \in rows : Of(r) = v})]

\* The responses by the day they came, the requests by the day they were made:
\* there may be more responses than requests.
SurveyAnalytics(db, q) ==
  LET rows == {r \in FeedbackScope(db.responses, q) :
                 Passes(q.filter.form, r.form) /\ Between(r.at, q.filter)}
      requests == {r \in FeedbackScope(db.requests, q) :
                     Passes(q.filter.form, r.form) /\ Between(r.created, q.filter)}
      n == Cardinality(requests)
      average == AverageOf(Score, Scored(rows))
      distribution == RatingDistribution(rows)
  IN  [responses |-> Cardinality(rows), requests |-> n,
       responseRate |-> Percent(Cardinality(rows), n),
       completionRate |-> Percent(InStatus(requests, {"COMPLETED"}), n),
       average |-> IF Scored(rows) = {} THEN None ELSE average,
       csat |-> Round(average, 5),
       nps |-> ComputeNps(rows),
       distribution |-> distribution,
       mostCommon |-> {s \in 1..5 : distribution[s] > 0},
       trends |-> GroupBy(rows, LAMBDA r : r.at \div q.filter.width),
       surveys |-> GroupBy(rows, LAMBDA r : r.form),
       organizations |-> IF ForPlatform(q) THEN GroupBy(rows, LAMBDA r : r.org)
                                           ELSE <<>>]
-----------------------------------------------------------------------------
(* What is used of a plan.                                                 *)

\* The month begins on its first at the present time of day.
CurrentUsage(db, q) ==
  LET org == q.access.org
      users == OfOrg(db.users, org)
      tickets == {t \in OfOrg(db.tickets, org) : ~t.deleted}
      Value(u) == u.value
  IN  [users |-> InStatus(users, {"ACTIVE"}),
       customers |-> Cardinality({u \in users : u.role = "CUSTOMER"}),
       agents |-> Cardinality({u \in users : u.role # "CUSTOMER"}),
       allTickets |-> Cardinality(tickets),
       tickets |-> Cardinality({t \in tickets : t.created >= q.month + q.clock}),
       forms |-> Cardinality(OfOrg(db.forms, org)),
       articles |-> Cardinality({a \in OfOrg(db.articles, org) : a.status # "ARCHIVED"}),
       responses |-> Cardinality(OfOrg(db.responses, org)),
       invitations |-> InStatus(OfOrg(db.invitations, org), {"PENDING"}),
       apiCalls |-> Total(Value, {u \in OfOrg(db.usage, org) :
                                    u.metric = "API_CALL" /\ u.start = q.month}),
       storage |-> Total(LAMBDA f : f.size, OfOrg(db.files, org))]

\* The limits the gate goes by; the free plan's are raised to a floor, which
\* is left out.
Entitled(db, q) ==
  {s \in OfOrg(db.subscriptions, q.access.org) : s.status \in {"ACTIVE", "TRIALING"}}

EntitledLimits(db, q) ==
  LET rows == Entitled(db, q)
  IN  IF rows = {} THEN db.plans["free"].limits
      ELSE db.plans[(CHOOSE s \in rows : TRUE).plan].limits

\* assertUnderLimit lets one more pass.
Grants(db, q, resource) ==
  CurrentUsage(db, q)[resource] + 1 <= EntitledLimits(db, q)[resource]

\* The overview finds the limit of the storage alone: the limits have other
\* names than what they limit.
UsageOverview(db, q) ==
  LET usage == CurrentUsage(db, q)
  IN  [k \in DOMAIN usage |->
         [current |-> usage[k],
          limit |-> IF k = "storage" THEN EntitledLimits(db, q)[k] ELSE 0]]
-----------------------------------------------------------------------------
(* The customer's portal.                                                  *)

\* Both figures from one read of the statuses.
TicketStats(db, q) ==
  LET rows == {t \in OfOrg(db.tickets, q.access.org) : t.by = q.access.user}
      counts == CountBy(rows, Status)
      Of(statuses) == SumFunctionOnSet(counts, statuses \cap DOMAIN counts)
  IN  [total |-> Of(DOMAIN counts), open |-> Of(OpenStatuses),
       resolved |-> Of({"RESOLVED"}), closed |-> Of({"CLOSED"}),
       byStatus |-> counts]

Readable(articles) ==
  {a \in articles : a.status = "PUBLISHED" /\ a.public}

PortalReads(db, q) ==
  LET own(rows) == OfOrg(rows, q.access.org)
      notices == {n \in own(db.notices) : n.user = q.access.user}
      articles == Readable(own(db.articles))
      Order(c) == -c.order
  IN  [recent |-> Newest({t \in own(db.tickets) : t.by = q.access.user}, Created, 5),
       ticketStats |-> TicketStats(db, q),
       notices |-> Newest(notices, Created, 5),
       unread |-> Cardinality({n \in notices : ~n.read}),
       surveys |-> Newest({f \in own(db.forms) : f.status = "ACTIVE" /\ f.public},
                          Created, 5),
       categories |->
         [c \in Newest({k \in own(db.categories) : k.active}, Order, 5) |->
            Cardinality({a \in Readable(db.articles) : a.category = c.id})],
       quickLinks |-> Newest(articles, LAMBDA a : a.views, 5)]
-----------------------------------------------------------------------------
ListingKinds == {"tickets", "responses", "survey", "usage", "portal"}

MayList(q) ==
  CASE q.kind \in {"responses", "survey"} -> ForPlatform(q) \/ q.access.org # None
    [] q.kind = "usage" -> q.access.org # None
    [] q.kind = "portal" -> q.access.role = "CUSTOMER"
    [] OTHER -> TRUE

ListingReads(db, q) ==
  CASE q.kind = "tickets" -> [found |-> Listed(TicketsFound(db, q), Created, q)]
    [] q.kind = "responses" -> [found |-> ResponsesListed(db, q)]
    [] q.kind = "survey" -> [survey |-> SurveyAnalytics(db, q)]
    [] q.kind = "portal" -> PortalReads(db, q)
=============================================================================
