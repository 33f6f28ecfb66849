--------------------------- MODULE Subscriptions ---------------------------
(***************************************************************************)
(* The subscription of one organization: the commands of its admins, the   *)
(* activation a charged payment triggers, the two hourly jobs and the      *)
(* platform admin.  OrganizationSubscription.organizationId is unique, so  *)
(* tenants share no row and one of them is enough.                         *)
(*                                                                         *)
(* Every operation reads the row first, decides, and later overwrites it   *)
(* by id without looking again: a request in flight is the write it has    *)
(* still to do.  Requests and jobs of several server instances overlap.    *)
(*                                                                         *)
(* The billing interval and the dates are abstracted to one bit: whether   *)
(* the current period (of the trial, or paid) is over.  Payments is seen   *)
(* through its ledger: an order is open, charged, then unlocked.           *)
(***************************************************************************)
EXTENDS Naturals

CONSTANTS
  Plans,        \* the active plans
  Price,        \* the price of each plan
  Free,         \* the plan with code FREE, on which trials start
  NoPlan,
  Orders,       \* payments that checkouts may open
  NoOrder,
  Requests,     \* requests and jobs that can be in flight together
  MaxPeriods,   \* bound: period ends
  MaxFailures   \* bound: requests that die between two writes

ASSUME SubscriptionsAssumption ==
  /\ Free \in Plans /\ NoPlan \notin Plans
  /\ Price \in [Plans -> Nat] /\ Price[Free] = 0
  /\ NoOrder \notin Orders
  /\ MaxPeriods \in Nat /\ MaxFailures \in Nat

VARIABLES
  sub,        \* the OrganizationSubscription row
  org,        \* Organization.status, as billing writes it
  order,      \* the payments opened for this organization
  req,        \* the write each request in flight has still to do
  periods,    \* period ends so far
  failures    \* requests that died so far

vars == <<sub, org, order, req, periods, failures>>
-----------------------------------------------------------------------------
SubStatus == {"NONE", "TRIALING", "PENDING_PAYMENT", "ACTIVE", "CANCELLED",
              "EXPIRED", "SUSPENDED"}

Subscription == [status      : SubStatus,
                 plan        : Plans,
                 pending     : Plans \union {NoPlan},
                 cancelAtEnd : BOOLEAN,
                 periodOver  : BOOLEAN]

\* linked: the payment names the subscription row, which existed by then.
Order == [stage  : {"none", "open", "charged", "unlocked", "lost"},
          plan   : Plans,
          linked : BOOLEAN]

Ops == {"createTrial", "markTrial", "order", "firstOrder", "upgrade", "renew",
        "downgrade", "changePlan", "cancelAtEnd", "cancelNow", "resume", "reactivate",
        "activate", "expireTrial", "expire", "markActive"}

Request == [op    : Ops \union {"idle"},
            plan  : Plans \union {NoPlan},
            order : Orders \union {NoOrder}]

Idle == [op |-> "idle", plan |-> NoPlan, order |-> NoOrder]

TypeOK ==
  /\ sub \in Subscription
  /\ org \in {"ACTIVE", "TRIAL"}
  /\ order \in [Orders -> Order]
  /\ req \in [Requests -> Request]
  /\ periods \in 0 .. MaxPeriods
  /\ failures \in 0 .. MaxFailures

\* registerOrganization creates the organization without a subscription.
Init ==
  /\ sub = [status |-> "NONE", plan |-> Free, pending |-> NoPlan,
            cancelAtEnd |-> FALSE, periodOver |-> FALSE]
  /\ org = "ACTIVE"
  /\ order = [o \in Orders |->
               [stage |-> "none", plan |-> Free, linked |-> FALSE]]
  /\ req = [r \in Requests |-> Idle]
  /\ periods = 0
  /\ failures = 0

Exists == sub.status # "NONE"

\* What the feature gate grants: the row's plan while it is ACTIVE or
\* TRIALING, FREE otherwise.
Entitled == IF sub.status \in {"ACTIVE", "TRIALING"} THEN sub.plan ELSE Free

\* Request r has read what it needs and goes on to write op.
Begin(r, op, plan, o) ==
  /\ req[r].op = "idle"
  /\ req' = [req EXCEPT ![r] = [op |-> op, plan |-> plan, order |-> o]]
  /\ UNCHANGED <<sub, org, order, periods, failures>>

\* Request r does its write op, and then the next one; only an order still
\* needs the plan.
Writes(r, op, next) ==
  /\ req[r].op = op
  /\ req' = [req EXCEPT ![r] = IF next = "order" THEN [@ EXCEPT !.op = next]
                               ELSE [Idle EXCEPT !.op = next]]
  /\ UNCHANGED <<order, periods, failures>>
-----------------------------------------------------------------------------
(* What the commands and jobs read, and when they go on. *)

\* getCurrent: a tenant without a subscription gets a trial.
StartTrial(r) == ~Exists /\ Begin(r, "createTrial", Free, NoOrder)

\* POST /payments/checkout and upgrade share their write; upgrade refuses a
\* cheaper plan.  Without a row both go straight to the order.
Checkout(r, plan) ==
  Begin(r, IF Exists THEN "upgrade" ELSE "firstOrder", plan, NoOrder)

Upgrade(r, plan) ==
  /\ Exists => Price[plan] >= Price[sub.plan]
  /\ Checkout(r, plan)

Downgrade(r, plan, immediately) ==
  /\ Exists
  /\ Price[plan] <= Price[sub.plan]
  /\ Begin(r, IF immediately THEN "changePlan" ELSE "downgrade", plan, NoOrder)

Renew(r) ==
  /\ Exists
  /\ sub.plan # Free
  /\ Begin(r, "renew", sub.plan, NoOrder)

Cancel(r, atPeriodEnd) ==
  /\ Exists
  /\ sub.status # "CANCELLED"
  /\ Begin(r, IF atPeriodEnd THEN "cancelAtEnd" ELSE "cancelNow", NoPlan, NoOrder)

\* The grace path of resume does not look at the period.
InGrace ==
  /\ sub.cancelAtEnd
  /\ sub.status \in {"ACTIVE", "CANCELLED", "PENDING_PAYMENT"}

Resume(r) ==
  /\ Exists
  /\ IF InGrace THEN Begin(r, "resume", NoPlan, NoOrder)
     ELSE Begin(r, "reactivate", sub.plan, NoOrder)

\* The row a payment activates: the one it names, else the tenant's, which is
\* looked for among every status but SUSPENDED.
Activatable(o) == Exists /\ (order[o].linked \/ sub.status # "SUSPENDED")

\* Mutant of BeginActivation: the payment need not have succeeded.
BeginActivationUnpaid(r, o) ==
  /\ order[o].stage \in {"open", "charged"}
  /\ Activatable(o)
  /\ Begin(r, "activate", order[o].plan, o)

\* activateSubscriptionForPayment reads the row for a payment just recorded.
\* Overlapping webhooks may each begin it.
BeginActivation(r, o) ==
  /\ order[o].stage = "charged"
  /\ Activatable(o)
  /\ Begin(r, "activate", order[o].plan, o)

\* Without a row it logs the error and the payment is never looked at again.
LoseActivation(o) ==
  /\ order[o].stage = "charged"
  /\ ~Activatable(o)
  /\ order' = [order EXCEPT ![o].stage = "lost"]
  /\ UNCHANGED <<sub, org, req, periods, failures>>

\* expireDueTrials.
TrialDue == sub.status = "TRIALING" /\ sub.periodOver

ExpireDueTrials(r) == TrialDue /\ Begin(r, "expireTrial", Free, NoOrder)

\* processSubscriptionLifecycle, first query: pending changes that are due.
\* (PAST_DUE, which both queries also accept, is written nowhere.)
ChangeDue ==
  /\ sub.pending # NoPlan
  /\ sub.status = "ACTIVE"
  /\ sub.periodOver \/ sub.cancelAtEnd

ApplyDueChange(r) == ChangeDue /\ Begin(r, "changePlan", sub.pending, NoOrder)

\* Second query: cancelled subscriptions whose period is over.
ExpiryDue == sub.status = "ACTIVE" /\ sub.cancelAtEnd /\ sub.periodOver

ExpireDue(r) == ExpiryDue /\ Begin(r, "expire", Free, NoOrder)
-----------------------------------------------------------------------------
(* What they write. *)

\* Mutant of WriteCreateTrial: the row is not unique, so that a second create
\* restarts the trial.
WriteCreateTrialAgain(r) ==
  /\ Writes(r, "createTrial", "markTrial")
  /\ sub' = [status |-> "TRIALING", plan |-> Free, pending |-> NoPlan,
             cancelAtEnd |-> FALSE, periodOver |-> FALSE]
  /\ UNCHANGED org

\* The row is unique: of two trials started together the second create fails.
WriteCreateTrial(r) ==
  /\ Writes(r, "createTrial", IF Exists THEN "idle" ELSE "markTrial")
  /\ sub' = IF Exists THEN sub
            ELSE [status |-> "TRIALING", plan |-> Free, pending |-> NoPlan,
                  cancelAtEnd |-> FALSE, periodOver |-> FALSE]
  /\ UNCHANGED org

WriteMarkTrial(r) ==
  /\ Writes(r, "markTrial", "idle")
  /\ org' = "TRIAL"
  /\ UNCHANGED sub

WriteUpgrade(r) ==
  /\ Writes(r, "upgrade", "order")
  /\ sub' = [sub EXCEPT !.status = "PENDING_PAYMENT", !.pending = req[r].plan]
  /\ UNCHANGED org

WriteRenew(r) ==
  /\ Writes(r, "renew", "order")
  /\ sub' = [sub EXCEPT !.status = "PENDING_PAYMENT"]
  /\ UNCHANGED org

WriteReactivate(r) ==
  /\ Writes(r, "reactivate", "order")
  /\ sub' = [sub EXCEPT !.status = "PENDING_PAYMENT", !.cancelAtEnd = FALSE]
  /\ UNCHANGED org

\* initiateCheckout opens a payment for a plan that has a price.
WriteOrder(r, o) ==
  /\ req[r].op \in {"order", "firstOrder"}
  /\ Price[req[r].plan] > 0
  /\ order[o].stage = "none"
  /\ order' = [order EXCEPT ![o] = [stage |-> "open", plan |-> req[r].plan,
                                    linked |-> req[r].op = "order"]]
  /\ req' = [req EXCEPT ![r] = Idle]
  /\ UNCHANGED <<sub, org, periods, failures>>

\* It throws for a free plan, or because the gateway does; what was written
\* before stays.
OrderRefused(r) ==
  /\ Writes(r, "order", "idle") \/ Writes(r, "firstOrder", "idle")
  /\ UNCHANGED <<sub, org>>

WriteDowngrade(r) ==
  /\ Writes(r, "downgrade", "idle")
  /\ sub' = [sub EXCEPT !.pending = req[r].plan]
  /\ UNCHANGED org

\* Mutants of WriteChangePlan: it takes the pending plan it finds at the write;
\* the pending plan is left in the row.
WriteChangePlanToPending(r) ==
  /\ Writes(r, "changePlan", "idle")
  /\ sub' = [sub EXCEPT !.plan = sub.pending, !.pending = NoPlan]
  /\ UNCHANGED org

WriteChangePlanKeepsPending(r) ==
  /\ Writes(r, "changePlan", "idle")
  /\ sub' = [sub EXCEPT !.plan = req[r].plan]
  /\ UNCHANGED org

\* applyPlanChange, of an immediate downgrade or of the lifecycle job.
WriteChangePlan(r) ==
  /\ Writes(r, "changePlan", "idle")
  /\ sub' = [sub EXCEPT !.plan = req[r].plan, !.pending = NoPlan]
  /\ UNCHANGED org

WriteCancel(r, op, status) ==
  /\ Writes(r, op, "idle")
  /\ sub' = [sub EXCEPT !.status = status, !.cancelAtEnd = TRUE,
                        !.pending = NoPlan]
  /\ UNCHANGED org

WriteResume(r) ==
  /\ Writes(r, "resume", "idle")
  /\ sub' = [sub EXCEPT !.status = "ACTIVE", !.cancelAtEnd = FALSE]
  /\ UNCHANGED org

\* The pending plan is taken only if it is the one paid for, so either way
\* the row gets the plan of the payment.
WriteActivate(r) ==
  /\ req[r].op = "activate"
  /\ sub' = [status |-> "ACTIVE", plan |-> req[r].plan, pending |-> NoPlan,
             cancelAtEnd |-> FALSE, periodOver |-> FALSE]
  /\ order' = [order EXCEPT ![req[r].order].stage = "unlocked"]
  /\ req' = [req EXCEPT ![r] = [Idle EXCEPT !.op = "markActive"]]
  /\ UNCHANGED <<org, periods, failures>>

\* Mutant of WriteExpireTrial: the plan falls back, the trial goes on.
WriteExpireTrialKeepsStatus(r) ==
  /\ Writes(r, "expireTrial", "markActive")
  /\ sub' = [sub EXCEPT !.plan = Free]
  /\ UNCHANGED org

WriteExpireTrial(r) ==
  /\ Writes(r, "expireTrial", "markActive")
  /\ sub' = [sub EXCEPT !.status = "ACTIVE", !.plan = Free,
                        !.periodOver = FALSE]
  /\ UNCHANGED org

\* Mutants of WriteExpire: the cancellation stays in the expired row; only the
\* plan falls back.
WriteExpireKeepsFlag(r) ==
  /\ Writes(r, "expire", "markActive")
  /\ sub' = [sub EXCEPT !.status = "EXPIRED", !.plan = Free]
  /\ UNCHANGED org

WriteExpireKeepsStatus(r) ==
  /\ Writes(r, "expire", "markActive")
  /\ sub' = [sub EXCEPT !.plan = Free]
  /\ UNCHANGED org

WriteExpire(r) ==
  /\ Writes(r, "expire", "markActive")
  /\ sub' = [sub EXCEPT !.status = "EXPIRED", !.plan = Free,
                        !.cancelAtEnd = FALSE]
  /\ UNCHANGED org

WriteMarkActive(r) ==
  /\ Writes(r, "markActive", "idle")
  /\ org' = "ACTIVE"
  /\ UNCHANGED sub

\* The platform admin suspends the subscription, or "renews" it: the update
\* overwrites the status, and neither cancelAtPeriodEnd nor the period.
AdminSets(status) ==
  /\ Exists
  /\ sub' = [sub EXCEPT !.status = status]
  /\ UNCHANGED <<org, order, req, periods, failures>>
-----------------------------------------------------------------------------
(* The customer's bank, the calendar, and failures. *)

Charge(o) ==
  /\ order[o].stage = "open"
  /\ order' = [order EXCEPT ![o].stage = "charged"]
  /\ UNCHANGED <<sub, org, req, periods, failures>>

PeriodEnds ==
  /\ Exists /\ ~sub.periodOver
  /\ periods < MaxPeriods
  /\ periods' = periods + 1
  /\ sub' = [sub EXCEPT !.periodOver = TRUE]
  /\ UNCHANGED <<org, order, req, failures>>

\* A request dies between two writes.  Its payment is recorded by then, and
\* nobody activates it again.
Abort(r) ==
  /\ req[r].op # "idle"
  /\ failures < MaxFailures
  /\ failures' = failures + 1
  /\ req' = [req EXCEPT ![r] = Idle]
  /\ order' = [o \in Orders |->
                 IF req[r].op = "activate" /\ o = req[r].order
                    /\ order[o].stage = "charged"
                 THEN [order[o] EXCEPT !.stage = "lost"] ELSE order[o]]
  /\ UNCHANGED <<sub, org, periods>>
-----------------------------------------------------------------------------
Read(r) ==
  \/ StartTrial(r) \/ Renew(r) \/ Resume(r)
  \/ \E plan \in Plans : \/ Checkout(r, plan) \/ Upgrade(r, plan)
                         \/ \E now \in BOOLEAN : Downgrade(r, plan, now)
  \/ \E atPeriodEnd \in BOOLEAN : Cancel(r, atPeriodEnd)
  \/ \E o \in Orders : BeginActivation(r, o)
  \/ ExpireDueTrials(r) \/ ApplyDueChange(r) \/ ExpireDue(r)

Write(r) ==
  \/ WriteCreateTrial(r) \/ WriteMarkTrial(r)
  \/ WriteUpgrade(r) \/ WriteRenew(r) \/ WriteReactivate(r)
  \/ OrderRefused(r) \/ \E o \in Orders : WriteOrder(r, o)
  \/ WriteDowngrade(r) \/ WriteChangePlan(r)
  \/ WriteCancel(r, "cancelAtEnd", "ACTIVE")
  \/ WriteCancel(r, "cancelNow", "CANCELLED")
  \/ WriteResume(r) \/ WriteActivate(r)
  \/ WriteExpireTrial(r) \/ WriteExpire(r) \/ WriteMarkActive(r)

Next ==
  \/ \E r \in Requests : Read(r) \/ Write(r) \/ Abort(r)
  \/ \E o \in Orders : Charge(o) \/ LoseActivation(o)
  \/ AdminSets("SUSPENDED") \/ AdminSets("ACTIVE")
  \/ PeriodEnds

Spec == Init /\ [][Next]_vars

\* Requests finish, and the hourly jobs keep running: each time one finds the
\* row due it may overlap other requests, but it does come round again.
Fairness ==
  /\ \A r \in Requests : WF_vars(Write(r))
  /\ SF_vars(\E r \in Requests : ExpireDueTrials(r))
  /\ SF_vars(\E r \in Requests : ApplyDueChange(r))
  /\ SF_vars(\E r \in Requests : ExpireDue(r))

FairSpec == Spec /\ Fairness
-----------------------------------------------------------------------------
(* Properties. *)

\* The flags that resume and the expiry job decide by always fit the status,
\* however writes overlap: a CANCELLED row can be resumed, an EXPIRED or
\* TRIALING row is not one that was cancelled.
StatusFlags ==
  /\ sub.status = "CANCELLED" => sub.cancelAtEnd
  /\ sub.status \in {"EXPIRED", "TRIALING", "NONE"} => ~sub.cancelAtEnd

\* A tenant gets one trial: once it has ended, however it ended, no request
\* or job brings the subscription back to TRIALING.
TrialOnce ==
  [][sub.status \notin {"NONE", "TRIALING"}
       => sub'.status \notin {"NONE", "TRIALING"}]_vars

\* While the subscription is in its trial the organization says so too, once
\* the request that started it is through; only a request that died leaves
\* the two rows apart.
TrialOrgMarked ==
  /\ sub.status = "TRIALING"
  /\ \A r \in Requests : req[r].op # "markTrial"
  => org = "TRIAL" \/ failures > 0

\* The row's flags and the organization's status fit the subscription's
\* status, whatever overlaps (cancel, resume, startTrial and the jobs).
StatusIsConsistent == StatusFlags /\ TrialOrgMarked

\* Each order is unlocked at most once it is charged, and stays unlocked: the
\* ledger that Payments implements too.
LedgerStage ==
  [o \in Orders |-> CASE order[o].stage \in {"none", "open"} -> "unpaid"
                      [] order[o].stage = "unlocked" -> "unlocked"
                      [] OTHER -> "charged"]

Ledger == INSTANCE PaymentLedger WITH Payments <- Orders, stage <- LedgerStage

ImplementsLedger == Ledger!LedgerSpec

\* A trial that is over ends, a cancelled subscription whose period is over
\* expires, and a plan change that is due is applied (or the tenant does
\* something about it first).
TrialEnds == TrialDue ~> ~TrialDue
CancellationTakesEffect == ExpiryDue ~> ~ExpiryDue
DueChangeIsApplied == ChangeDue ~> ~ChangeDue
-----------------------------------------------------------------------------
(* Statements of the repository that the interleavings above refute. *)

\* subscription.service.ts:186: an upgrade takes effect once payment succeeds,
\* so nobody is entitled to a plan dearer than any they paid for.
EntitledToWhatIsPaid ==
  \/ Price[Entitled] = 0
  \/ \E o \in Orders : /\ order[o].stage = "unlocked"
                       /\ Price[order[o].plan] >= Price[Entitled]

\* subscription.service.ts:667: the hourly job expires subscriptions past
\* their current period and flags past-due status.
PaidPeriodOver == sub.status = "ACTIVE" /\ sub.plan # Free /\ sub.periodOver

PeriodEndIsNoticed == PaidPeriodOver ~> ~PaidPeriodOver
=============================================================================
