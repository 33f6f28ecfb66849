---------------------------- MODULE MCDashboards ----------------------------
EXTENDS Dashboards, TLC

Ticket(n, agent, status, priority, created) ==
  [id |-> n, org |-> "o1", by |-> "u1", agent |-> agent, status |-> status,
   priority |-> priority, created |-> created,
   resolved |-> IF status \in {"RESOLVED", "REOPENED"} THEN created + 2 ELSE None,
   responded |-> IF status = "OPEN" THEN None ELSE created + 1,
   due |-> 4, invited |-> status = "CLOSED", answered |-> FALSE,
   deleted |-> status = "REOPENED"]

Reply(n, rating, recommends) ==
  [id |-> n, org |-> "o1", ticket |-> n, by |-> "u1", rating |-> rating,
   recommends |-> recommends, at |-> 3 + n]

Response(n, overall, nps) ==
  [id |-> n, org |-> "o1", ticket |-> n, by |-> "u1", overall |-> overall,
   nps |-> nps, form |-> IF n = 1 THEN "f1" ELSE "f2", at |-> 3 + n]

Payment(n, status, amount, created) ==
  [id |-> n, org |-> "o1", plan |-> "pro", status |-> status, amount |-> amount,
   created |-> created,
   paid |-> IF status = "SUCCESSFUL" THEN created + 1 ELSE None]

User(id, role, status) ==
  [id |-> id, org |-> "o1", role |-> role, status |-> status, created |-> 2]

Request(n, form, status) ==
  [id |-> n, org |-> "o1", form |-> form, by |-> "u1", status |-> status,
   created |-> 3]

Notice(n, read) ==
  [id |-> n, org |-> "o1", user |-> "u1", read |-> read, created |-> n]

Form(id, status) ==
  [id |-> id, org |-> "o1", status |-> status, public |-> TRUE, created |-> 1]

Article(n, status) ==
  [id |-> n, org |-> "o1", status |-> status, public |-> n = 1, category |-> "k1",
   views |-> 3, helpful |-> 2, notHelpful |-> 1, created |-> 3]

Limits(n) ==
  [k \in {"users", "customers", "agents", "tickets", "articles",
          "invitations", "storage", "apiCalls"} |-> n]

Abroad(row) == [row EXCEPT !.org = "o2"]

Base ==
  [tickets |-> {Ticket(1, "s1", "OPEN", "LOW", 2),
                Ticket(2, "s2", "RESOLVED", "HIGH", 5)},
   feedback |-> {Reply(1, 4, TRUE)},
   responses |-> {Response(1, 4, 8)},
   payments |-> {Payment(1, "SUCCESSFUL", 7, 1), Payment(2, "PENDING", 5, 5)},
   users |-> {User("u1", "CUSTOMER", "ACTIVE"), User("s1", "SUPPORT_AGENT", "ACTIVE"),
              User("s2", "SUPPORT_AGENT", "INACTIVE"),
              User("w1", "TENANT_OWNER", "ACTIVE"),
              Abroad(User("x1", "CUSTOMER", "ACTIVE")),
              Abroad(User("x2", "SUPPORT_AGENT", "ACTIVE"))},
   subscriptions |-> {[org |-> "o1", plan |-> "pro", status |-> "ACTIVE",
                       yearly |-> TRUE, leaving |-> FALSE],
                      [org |-> "o2", plan |-> "free", status |-> "TRIALING",
                       yearly |-> FALSE, leaving |-> FALSE]},
   orgs |-> {[id |-> "o1", status |-> "ACTIVE", created |-> 1],
             [id |-> "o2", status |-> "TRIAL", created |-> 6]},
   articles |-> {Article(1, "PUBLISHED")},
   requests |-> {Request(1, "f1", "COMPLETED"), Request(2, "f1", "PENDING")},
   forms |-> {Form("f1", "ACTIVE"), Form("f2", "ARCHIVED")},
   notices |-> {Notice(1, TRUE), Notice(2, FALSE)},
   categories |-> {[id |-> "k1", org |-> "o1", active |-> TRUE, order |-> 1]},
   saved |-> {[id |-> o, org |-> o, created |-> 4] : o \in {"o1", "o2"}},
   files |-> {[id |-> 1, org |-> "o1", size |-> 1]},
   usage |-> {[id |-> n, org |-> "o1", metric |-> "API_CALL", value |-> n,
               start |-> 4 * n - 2] : n \in 1..2},
   invitations |-> {[id |-> 1, org |-> "o1", status |-> "PENDING"]},
   plans |-> [p \in {"free", "pro"} |->
                [monthly |-> IF p = "pro" THEN 5 ELSE 0,
                 yearly |-> IF p = "pro" THEN 50 ELSE 0,
                 limits |-> Limits(IF p = "pro" THEN 2 ELSE 1)]]]

\* Where there is nothing yet, every rate divides by zero.
Fresh ==
  [table \in DOMAIN Base |-> IF table = "plans" THEN Base.plans ELSE {}]

\* A ticket in any status, replies with low and high ratings, responses without a
\* score or with one on the scale to ten, a second payment in any status that can
\* still change, and rows of another organization.
MCDatabases ==
  {Fresh}
  \cup
  {[Base EXCEPT !.tickets = {Ticket(1, "s1", s, "LOW", 2),
                             Ticket(2, "s2", "CLOSED", "HIGH", 6)}] :
     s \in {"OPEN", "IN_PROGRESS", "WAITING_FOR_CUSTOMER", "ON_HOLD", "ESCALATED",
            "REOPENED", "RESOLVED", "CLOSED"}}
  \cup
  {[Base EXCEPT !.feedback = {Reply(1, a, TRUE), Reply(2, b, c), Reply(3, b, FALSE)}] :
     a \in {1, 4}, b \in {2, 4}, c \in {TRUE, None}}
  \cup
  {[Base EXCEPT !.responses = {Response(1, a, 9), Response(2, b, None),
                               Response(3, b, 6)}] : a \in {1, 4}, b \in {10, None}}
  \cup
  {[Base EXCEPT !.payments = {Payment(1, "SUCCESSFUL", 7, 1), Payment(2, s, 5, c)}] :
     s \in {"FAILED", "PENDING"}, c \in {1, 7}}
  \cup
  {[Base EXCEPT !.tickets = @ \cup {Abroad(Ticket(3, "x2", "OPEN", "LOW", 6))},
                !.feedback = @ \cup {Abroad(Reply(3, 1, FALSE))},
                !.responses = @ \cup {Abroad(Response(3, 1, 2))},
                !.payments = @ \cup {Abroad(Payment(3, "SUCCESSFUL", 3, 6))},
                !.files = @ \cup {[id |-> 2, org |-> "o2", size |-> 5]},
                !.requests = @ \cup {Abroad(Request(3, "f3", "COMPLETED"))},
                !.forms = @ \cup {Abroad(Form("f3", "ACTIVE"))},
                !.notices = @ \cup {Abroad(Notice(3, FALSE))},
                !.articles = @ \cup {Article(2, "ARCHIVED"),
                                     Abroad([Article(3, "PUBLISHED")
                                             EXCEPT !.category = "k2", !.public = TRUE])},
                !.categories = @ \cup {[id |-> "k2", org |-> "o2", active |-> TRUE,
                                        order |-> 1]},
                !.usage = @ \cup {[id |-> 2, org |-> "o2", metric |-> "API_CALL",
                                   value |-> 7, start |-> 6]}]}

Filter == [orgs |-> {}, agent |-> None, customer |-> None, status |-> None,
           priority |-> None, rating |-> None, form |-> None,
           from |-> None, to |-> None,
           width |-> 3, page |-> 1, limit |-> 1]

Question(role, user, kind, filter) ==
  [access |-> AccessOf([id |-> user, role |-> role, org |-> "o1"], None),
   kind |-> kind, filter |-> filter, now |-> 8, month |-> 6, clock |-> 1, year |-> 3]

MCQuestions ==
  {Question("TENANT_OWNER", "w1", kind, filter) :
     kind \in {"dashboard", "aggregate"},
     filter \in {Filter, [Filter EXCEPT !.agent = "s2"],
                 [Filter EXCEPT !.from = 6, !.to = 3],
                 [Filter EXCEPT !.priority = "LOW", !.rating = 4, !.width = 1]}}
  \cup {Question("SUPPORT_AGENT", "s1", "dashboard", Filter),
        Question("TENANT_OWNER", "w1", "report", Filter),
        Question("TENANT_OWNER", "w1", "report",
                 [Filter EXCEPT !.status = "OPEN", !.rating = 4]),
        Question("CUSTOMER", "u1", "dashboard", Filter),
        Question("TENANT_OWNER", "w1", "charts", Filter),
        Question("TENANT_OWNER", "w1", "charts", [Filter EXCEPT !.orgs = {"o2"}]),
        Question("SUPPORT_AGENT", "s1", "search", Filter),
        Question("PLATFORM_ADMIN", "p1", "search", Filter),
        Question("CUSTOMER", "u1", "portal", Filter),
        Question("TENANT_OWNER", "w1", "usage", Filter),
        Question("TENANT_OWNER", "w1", "survey", [Filter EXCEPT !.form = "f1"]),
        Question("PLATFORM_ADMIN", "p1", "survey", [Filter EXCEPT !.from = 3]),
        Question("SUPPORT_AGENT", "s1", "tickets", [Filter EXCEPT !.page = 2]),
        Question("CUSTOMER", "u1", "tickets", [Filter EXCEPT !.status = "OPEN"]),
        Question("SUPPORT_AGENT", "s1", "responses", [Filter EXCEPT !.agent = "s1"]),
        Question("PLATFORM_ADMIN", "p1", "dashboard", Filter),
        Question("PLATFORM_ADMIN", "p1", "report", Filter),
        Question("PLATFORM_ADMIN", "p1", "aggregate",
                 [Filter EXCEPT !.orgs = {"o2"}])}
=============================================================================
