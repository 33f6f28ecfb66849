----------------------------- MODULE Catalogue -----------------------------
(***************************************************************************)
(* The plans that are for sale, while a tenant chooses among them: admins  *)
(* create, change, deactivate and remove plans; the tenant starts a trial, *)
(* chooses a plan for now or for the end of the period, pays, and is moved *)
(* by the jobs.  Every request reads the plan it is about long before it   *)
(* writes, and the foreign keys of the schema decide what a removal in     *)
(* between does.                                                           *)
(*                                                                         *)
(* Left out: limits, features and texts of a plan, and its type, which is  *)
(* unique like its code; the flags and dates of a subscription, which      *)
(* Subscriptions has; the steps of a payment, which Payments has.  The     *)
(* checks of unique columns made before a write refuse what the write      *)
(* would refuse, and are one with it.                                      *)
(***************************************************************************)
EXTENDS Integers, FiniteSets

CONSTANTS
  PlanIds,      \* ids of plans
  NoPlan,
  Codes,        \* codes of plans, each unique
  FreeCode,     \* the code FREE, by which the jobs find the free plan
  Tills,        \* requests and jobs in flight
  MaxSales      \* bound: requests begun

Prices == 0..1

PlanRow == [code : Codes, active : BOOLEAN, price : Prices]

ASSUME CatalogueAssumption ==
  /\ NoPlan \notin PlanIds \cup PlanRow
  /\ FreeCode \in Codes
  /\ MaxSales \in Nat

VARIABLES
  offer,        \* the SubscriptionPlan rows, NoPlan where there is none
  tenant,       \* the tenant's OrganizationSubscription row
  bill,         \* what Payment rows there are for each plan
  till,         \* what each request does next
  sales,        \* requests begun so far
  choice,       \* for the properties: the plan the tenant chose last
  overtaken     \* for the properties: a payment for another plan, or a
                \* change to one, cleared the choice

catalogueVars == <<offer, tenant, bill, till, sales, choice, overtaken>>

Standing == {"NONE", "TRIALING", "PENDING_PAYMENT", "ACTIVE", "CANCELLED", "EXPIRED"}

NoTenant == [status |-> "NONE", plan |-> NoPlan, pending |-> NoPlan]

Offered == {p \in PlanIds : offer[p] # NoPlan}

\* The seed: one plan for each code, all active, the free one without a price.
Seeded ==
  /\ Offered = PlanIds
  /\ \A p, q \in PlanIds : offer[p].code = offer[q].code => p = q
  /\ \A p \in PlanIds : /\ offer[p].active
                        /\ offer[p].price = IF offer[p].code = FreeCode THEN 0 ELSE 1

\* The seed may not have been run.
CatalogueInit ==
  /\ offer \in [PlanIds -> PlanRow \cup {NoPlan}]
  /\ Seeded \/ Offered = {}
  /\ tenant = NoTenant
  /\ bill = [p \in PlanIds |-> "none"]
  /\ till = [t \in Tills |-> [op |-> "closed"]]
  /\ sales = 0
  /\ choice = NoPlan /\ overtaken = FALSE
-----------------------------------------------------------------------------
Opens(t, request) ==
  /\ till[t].op = "closed" /\ sales < MaxSales
  /\ sales' = sales + 1
  /\ till' = [till EXCEPT ![t] = request]

Closes(t) == till' = [till EXCEPT ![t] = [op |-> "closed"]]

CodeFree(p, code) == \A q \in Offered \ {p} : offer[q].code # code
-----------------------------------------------------------------------------
(* The platform's admins, by either of the two services. *)

CreatePlan(p, row) ==
  /\ p \notin Offered /\ CodeFree(p, row.code)
  /\ sales < MaxSales /\ sales' = sales + 1
  /\ offer' = [offer EXCEPT ![p] = row]
  /\ UNCHANGED <<tenant, bill, till, choice, overtaken>>

\* deletePlan of the admin service is an update that deactivates.
UpdatePlan(p, row) ==
  /\ p \in Offered /\ CodeFree(p, row.code)
  /\ sales < MaxSales /\ sales' = sales + 1
  /\ offer' = [offer EXCEPT ![p] = row]
  /\ UNCHANGED <<tenant, bill, till, choice, overtaken>>

\* remove of the plan service looks for a subscription to the plan ...
ReadForRemove(t, p) ==
  /\ p \in Offered
  /\ Opens(t, [op |-> IF tenant.plan = p THEN "deactivate" ELSE "delete", plan |-> p])
  /\ UNCHANGED <<offer, tenant, bill, choice, overtaken>>

Deactivate(t) ==
  /\ till[t].op = "deactivate" /\ till[t].plan \in Offered
  /\ offer' = [offer EXCEPT ![till[t].plan].active = FALSE]
  /\ Closes(t)
  /\ UNCHANGED <<tenant, bill, sales, choice, overtaken>>

\* ... and deletes it unless a subscription or a payment names it by then.  A
\* choice that waits for it is set to null by its foreign key.
Delete(t) ==
  LET p == till[t].plan IN
  /\ till[t].op = "delete" /\ p \in Offered
  /\ tenant.plan # p /\ bill[p] = "none"
  /\ offer' = [offer EXCEPT ![p] = NoPlan]
  /\ tenant' = [tenant EXCEPT !.pending = IF @ = p THEN NoPlan ELSE @]
  /\ choice' = IF choice = p THEN NoPlan ELSE choice
  /\ Closes(t)
  /\ UNCHANGED <<bill, sales, overtaken>>
-----------------------------------------------------------------------------
(* The tenant. *)

\* createTrialSubscription: the first of the active plans.
ReadForTrial(t, p) ==
  /\ tenant.status = "NONE"
  /\ p \in Offered /\ offer[p].active
  /\ Opens(t, [op |-> "trial", plan |-> p])
  /\ UNCHANGED <<offer, tenant, bill, choice, overtaken>>

StartTrial(t) ==
  /\ till[t].op = "trial" /\ till[t].plan \in Offered
  /\ tenant.status = "NONE"
  /\ tenant' = [NoTenant EXCEPT !.status = "TRIALING", !.plan = till[t].plan]
  /\ Closes(t)
  /\ UNCHANGED <<offer, bill, sales, choice, overtaken>>

\* checkout and upgrade, which the first does not compare; a tenant without a
\* subscription goes on to pay at once.
ReadForUpgrade(t, p) ==
  /\ p \in Offered /\ offer[p].active
  /\ Opens(t, [op    |-> IF tenant.status = "NONE" THEN "checkout" ELSE "upgrade",
               plan  |-> p, price |-> offer[p].price])
  /\ UNCHANGED <<offer, tenant, bill, choice, overtaken>>

\* The payment is for the plan itself, which is not chosen again.  renew
\* refuses the free plan, resume does not.
ReadForRenewal(t) ==
  /\ tenant.status # "NONE"
  /\ Opens(t, [op |-> "renew", plan |-> tenant.plan, price |-> offer[tenant.plan].price])
  /\ UNCHANGED <<offer, tenant, bill, choice, overtaken>>

\* resume takes a cancellation back while the period runs, which is left open.
ReadForResume(t) ==
  /\ tenant.status \in {"ACTIVE", "CANCELLED", "PENDING_PAYMENT"}
  /\ Opens(t, [op |-> "resume"])
  /\ UNCHANGED <<offer, tenant, bill, choice, overtaken>>

\* At the period's end, or at once.
ReadForCancel(t, atPeriodEnd) ==
  /\ tenant.status \notin {"NONE", "CANCELLED"}
  /\ Opens(t, [op |-> "cancel", status |-> IF atPeriodEnd THEN "ACTIVE" ELSE "CANCELLED"])
  /\ UNCHANGED <<offer, tenant, bill, choice, overtaken>>

ReadForDowngrade(t, p, immediately) ==
  /\ tenant.status # "NONE"
  /\ p \in Offered /\ offer[p].active
  /\ offer[p].price <= offer[tenant.plan].price
  /\ Opens(t, [op |-> IF immediately THEN "change" ELSE "downgrade", plan |-> p])
  /\ UNCHANGED <<offer, tenant, bill, choice, overtaken>>

\* The foreign key refuses a plan that is gone.
Choose(t) ==
  /\ till[t].op \in {"upgrade", "downgrade"} /\ till[t].plan \in Offered
  /\ tenant' = [tenant EXCEPT !.pending = till[t].plan,
                              !.status  = IF till[t].op = "upgrade"
                                          THEN "PENDING_PAYMENT" ELSE @]
  /\ choice' = till[t].plan /\ overtaken' = FALSE
  /\ IF till[t].op = "upgrade"
     THEN till' = [till EXCEPT ![t].op = "checkout"] ELSE Closes(t)
  /\ UNCHANGED <<offer, bill, sales>>

AwaitRenewal(t) ==
  /\ till[t].op = "renew"
  /\ tenant' = [tenant EXCEPT !.status = "PENDING_PAYMENT"]
  /\ till' = [till EXCEPT ![t].op = "checkout"]
  /\ UNCHANGED <<offer, bill, sales, choice, overtaken>>

\* The amount is the price that was read.  Bound: one open payment for a plan.
OpenPayment(t) ==
  /\ till[t].op = "checkout" /\ till[t].price > 0 /\ till[t].plan \in Offered
  /\ bill' = [bill EXCEPT ![till[t].plan] = "open"]
  /\ Closes(t)
  /\ UNCHANGED <<offer, tenant, sales, choice, overtaken>>

Cancel(t) ==
  /\ till[t].op = "cancel"
  /\ tenant' = [tenant EXCEPT !.status = till[t].status, !.pending = NoPlan]
  /\ choice' = NoPlan
  /\ Closes(t)
  /\ UNCHANGED <<offer, bill, sales, overtaken>>

Resume(t) ==
  /\ till[t].op = "resume"
  /\ tenant' = [tenant EXCEPT !.status = "ACTIVE"]
  /\ Closes(t)
  /\ UNCHANGED <<offer, bill, sales, choice, overtaken>>
-----------------------------------------------------------------------------
(* What payments and jobs make of it. *)

ReadForActivation(t, p) ==
  /\ bill[p] = "open"
  /\ bill' = [bill EXCEPT ![p] = "settled"]
  /\ IF tenant.status = "NONE" THEN UNCHANGED <<till, sales>>
     ELSE Opens(t, [op |-> "activate", plan |-> p])
  /\ UNCHANGED <<offer, tenant, choice, overtaken>>

\* The jobs take what they read when they selected the row.
ReadDueChange(t) ==
  /\ tenant.status = "ACTIVE" /\ tenant.pending # NoPlan
  /\ Opens(t, [op |-> "change", plan |-> tenant.pending])
  /\ UNCHANGED <<offer, tenant, bill, choice, overtaken>>

\* activateSubscriptionForPayment and applyPlanChange give the tenant the plan
\* and clear the choice, whichever it is by now.
Serve(t) ==
  LET p == till[t].plan IN
  /\ till[t].op \in {"activate", "change"} /\ p \in Offered
  /\ tenant' = [status  |-> IF till[t].op = "activate" THEN "ACTIVE" ELSE tenant.status,
                plan    |-> p,
                pending |-> NoPlan]
  /\ choice' = IF choice = p THEN NoPlan ELSE choice
  /\ overtaken' = (overtaken \/ choice \notin {p, NoPlan})
  /\ Closes(t)
  /\ UNCHANGED <<offer, bill, sales>>

\* The free plan, if there is one, for a trial or a period that ended; when
\* they end is left open.
ReadForExpiry(t) ==
  /\ tenant.status \in {"TRIALING", "ACTIVE"}
  /\ LET free == {p \in Offered : offer[p].code = FreeCode}
     IN \E p \in IF free = {} THEN {NoPlan} ELSE free :
          Opens(t, [op |-> IF tenant.status = "TRIALING" THEN "end trial" ELSE "expire",
                    plan |-> p])
  /\ UNCHANGED <<offer, tenant, bill, choice, overtaken>>

\* Mutant of Expire: a choice is cleared, as the other plan changes do.
ExpireAndForget(t) ==
  LET p == till[t].plan IN
  /\ till[t].op \in {"end trial", "expire"} /\ p \in Offered \cup {NoPlan}
  /\ tenant' = [status  |-> IF till[t].op = "end trial" /\ p # NoPlan
                            THEN "ACTIVE" ELSE "EXPIRED",
                plan    |-> IF p = NoPlan THEN tenant.plan ELSE p,
                pending |-> NoPlan]
  /\ Closes(t)
  /\ UNCHANGED <<offer, bill, sales, choice, overtaken>>

\* A choice goes on waiting.
Expire(t) ==
  LET p == till[t].plan IN
  /\ till[t].op \in {"end trial", "expire"} /\ p \in Offered \cup {NoPlan}
  /\ tenant' = [tenant EXCEPT
       !.status = IF till[t].op = "end trial" /\ p # NoPlan THEN "ACTIVE" ELSE "EXPIRED",
       !.plan   = IF p = NoPlan THEN @ ELSE p]
  /\ Closes(t)
  /\ UNCHANGED <<offer, bill, sales, choice, overtaken>>

\* A write that is refused, a price that is none, or a death.
Refuse(t) ==
  /\ till[t].op # "closed"
  /\ Closes(t)
  /\ UNCHANGED <<offer, tenant, bill, sales, choice, overtaken>>
-----------------------------------------------------------------------------
CatalogueNext ==
  \/ \E p \in PlanIds, row \in PlanRow : CreatePlan(p, row) \/ UpdatePlan(p, row)
  \/ \E t \in Tills :
       \/ \E p \in PlanIds :
            \/ ReadForRemove(t, p) \/ ReadForTrial(t, p) \/ ReadForUpgrade(t, p)
            \/ ReadForActivation(t, p)
            \/ \E immediately \in BOOLEAN : ReadForDowngrade(t, p, immediately)
       \/ \E atPeriodEnd \in BOOLEAN : ReadForCancel(t, atPeriodEnd)
       \/ ReadForRenewal(t) \/ ReadForResume(t) \/ ReadDueChange(t) \/ ReadForExpiry(t)
       \/ Deactivate(t) \/ Delete(t) \/ StartTrial(t) \/ Choose(t)
       \/ AwaitRenewal(t) \/ OpenPayment(t) \/ Cancel(t) \/ Resume(t)
       \/ Serve(t) \/ Expire(t) \/ Refuse(t)

CatalogueSpec == CatalogueInit /\ [][CatalogueNext]_catalogueVars
-----------------------------------------------------------------------------
(* Properties. *)

CatalogueTypeOK ==
  /\ offer \in [PlanIds -> PlanRow \cup {NoPlan}]
  /\ tenant \in [status : Standing, plan : PlanIds \cup {NoPlan},
                 pending : PlanIds \cup {NoPlan}]
  /\ bill \in [PlanIds -> {"none", "open", "settled"}]
  /\ sales \in 0..MaxSales
  /\ choice \in PlanIds \cup {NoPlan}
  /\ overtaken \in BOOLEAN

\* What a tenant has, has paid for or is paying for stays in the catalogue:
\* removal looks for subscriptions only, and long before it deletes.
HistoryStands ==
  /\ tenant.status # "NONE" => tenant.plan \in Offered
  /\ \A p \in PlanIds : bill[p] # "none" => p \in Offered

\* What the tenant chose last waits until the tenant gets it or cancels,
\* unless its plan is removed from the catalogue, or a payment for, or a
\* change to, another plan clears it; no expiry does.
ChoiceWaits ==
  choice # NoPlan /\ ~overtaken => tenant.pending = choice

\* Editing the catalogue takes nothing from tenants but what nobody has paid
\* for yet (remove, activateSubscriptionForPayment, applyPlanChange).
PlansKept == HistoryStands /\ ChoiceWaits
=============================================================================
