------------------------ MODULE SubscriptionsProofs ------------------------
(***************************************************************************)
(* Proofs about Subscriptions, for any plans and prices, any payments, and *)
(* any number of requests and jobs in flight.                              *)
(***************************************************************************)
EXTENDS Subscriptions, TLAPS

\* The writes that put a plan into the row or into an order.
PlanOps == {"upgrade", "renew", "reactivate", "order", "firstOrder",
            "downgrade", "changePlan", "activate"}

\* What a request in flight carries: the plan it has chosen, and for an
\* activation the payment, which was charged and never becomes unpaid again.
Carries(r) ==
  /\ req[r].op \in PlanOps => req[r].plan \in Plans
  /\ req[r].op = "activate" =>
       /\ req[r].order \in Orders
       /\ order[req[r].order].stage \in {"charged", "unlocked", "lost"}

\* What it knows of the row: it exists once somebody has written to it, and a
\* request that goes on to mark the organization active has ended the trial.
Knows(r) ==
  /\ req[r].op \notin {"idle", "createTrial", "firstOrder"} => Exists
  /\ req[r].op = "markActive" => sub.status # "TRIALING"

SubInv ==
  /\ TypeOK
  /\ \A r \in Requests : Carries(r) /\ Knows(r)
  /\ StatusFlags
  /\ TrialOrgMarked

\* What a read needs so that the request it starts carries and knows what the
\* invariant says.
LEMMA BeginStep ==
  ASSUME SubInv, NEW r \in Requests, NEW op \in Ops,
         NEW plan \in Plans \union {NoPlan}, NEW o \in Orders \union {NoOrder},
         Begin(r, op, plan, o),
         op \in PlanOps => plan \in Plans,
         op = "activate" =>
           o \in Orders /\ order[o].stage \in {"charged", "unlocked", "lost"},
         op \notin {"createTrial", "firstOrder"} => Exists,
         op \notin {"markTrial", "markActive"}
  PROVE  SubInv'
<1> DEFINE new == [op |-> op, plan |-> plan, order |-> o]
<1>1. new \in Request
  BY DEF Request
<1>2. /\ req' = [req EXCEPT ![r] = new]
      /\ UNCHANGED <<sub, org, order, periods, failures>>
      /\ req[r].op = "idle"
  BY DEF Begin
<1>3. TypeOK'
  BY <1>1, <1>2 DEF SubInv, TypeOK
<1>4. /\ req'[r] = new
      /\ \A d \in Requests \ {r} : req'[d] = req[d]
  BY <1>2 DEF SubInv, TypeOK
<1>5. \A d \in Requests : Carries(d)'
  BY <1>2, <1>4 DEF SubInv, Carries
<1>6. \A d \in Requests : Knows(d)'
  BY <1>2, <1>4 DEF SubInv, Knows, Exists
<1>7. StatusFlags' /\ TrialOrgMarked'
  BY <1>2, <1>4 DEF SubInv, StatusFlags, TrialOrgMarked
<1> QED
  BY <1>3, <1>5, <1>6, <1>7 DEF SubInv

\* Every read is of that kind.
LEMMA ReadStep ==
  ASSUME SubInv, NEW r \in Requests, Read(r)
  PROVE  SubInv'
<1> USE SubscriptionsAssumption
<1>0. TypeOK /\ sub \in Subscription
  BY DEF SubInv, TypeOK
<1>1. CASE StartTrial(r)
  BY <1>1, BeginStep DEF StartTrial, Ops, PlanOps
<1>2. CASE Renew(r)
  BY <1>0, <1>2, BeginStep DEF Renew, Ops, PlanOps, Subscription
<1>3. CASE Resume(r)
  BY <1>0, <1>3, BeginStep DEF Resume, Ops, PlanOps, Subscription
<1>4. ASSUME NEW plan \in Plans, Checkout(r, plan) \/ Upgrade(r, plan)
      PROVE  SubInv'
  BY <1>4, BeginStep DEF Upgrade, Checkout, Ops, PlanOps
<1>5. ASSUME NEW plan \in Plans, NEW now \in BOOLEAN, Downgrade(r, plan, now)
      PROVE  SubInv'
  BY <1>5, BeginStep DEF Downgrade, Ops, PlanOps
<1>6. ASSUME NEW atPeriodEnd \in BOOLEAN, Cancel(r, atPeriodEnd)
      PROVE  SubInv'
  BY <1>6, BeginStep DEF Cancel, Ops, PlanOps
<1>7. ASSUME NEW o \in Orders, BeginActivation(r, o)
      PROVE  SubInv'
  <2>1. order[o].plan \in Plans
    BY <1>0 DEF TypeOK, Order
  <2> QED
    BY <1>7, <2>1, BeginStep DEF BeginActivation, Activatable, Ops, PlanOps
<1>8. CASE ExpireDueTrials(r)
  BY <1>8, BeginStep DEF ExpireDueTrials, TrialDue, Exists, Ops, PlanOps
<1>9. CASE ApplyDueChange(r)
  BY <1>0, <1>9, BeginStep
     DEF ApplyDueChange, ChangeDue, Exists, Subscription, Ops, PlanOps
<1>10. CASE ExpireDue(r)
  BY <1>10, BeginStep DEF ExpireDue, ExpiryDue, Exists, Ops, PlanOps
<1> QED
  BY <1>1, <1>2, <1>3, <1>4, <1>5, <1>6, <1>7, <1>8, <1>9, <1>10 DEF Read

\* A row that exists stays, and a trial that has ended stays ended.
LEMMA StatusStep ==
  ASSUME SubInv, [Next]_vars
  PROVE  /\ Exists => Exists'
         /\ sub.status \notin {"NONE", "TRIALING"}
              => sub'.status \notin {"NONE", "TRIALING"}
<1> DEFINE Good == /\ Exists => Exists'
                   /\ sub.status \notin {"NONE", "TRIALING"}
                        => sub'.status \notin {"NONE", "TRIALING"}
<1>0. sub \in Subscription
  BY DEF SubInv, TypeOK
<1>1. CASE UNCHANGED sub
  BY <1>1 DEF Exists
<1>2. ASSUME NEW r \in Requests, Read(r)
      PROVE  UNCHANGED sub
  BY <1>2 DEF Read, StartTrial, Renew, Resume, Checkout, Upgrade, Downgrade,
              Cancel, BeginActivation, ExpireDueTrials, ApplyDueChange,
              ExpireDue, Begin
<1>3. ASSUME NEW r \in Requests, Write(r)
      PROVE  Good
  <2>1. CASE WriteCreateTrial(r)
    BY <1>0, <2>1 DEF WriteCreateTrial, Exists, Subscription
  <2>2. CASE \/ WriteMarkTrial(r) \/ WriteMarkActive(r)
             \/ OrderRefused(r) \/ \E o \in Orders : WriteOrder(r, o)
    BY <1>1, <2>2 DEF WriteMarkTrial, WriteMarkActive, OrderRefused, WriteOrder
  <2>3. CASE WriteUpgrade(r) \/ WriteRenew(r) \/ WriteReactivate(r)
    BY <1>0, <2>3
       DEF WriteUpgrade, WriteRenew, WriteReactivate, Exists, Subscription
  <2>4. CASE WriteDowngrade(r) \/ WriteChangePlan(r)
    BY <1>0, <2>4 DEF WriteDowngrade, WriteChangePlan, Exists, Subscription
  <2>5. CASE \/ WriteCancel(r, "cancelAtEnd", "ACTIVE")
             \/ WriteCancel(r, "cancelNow", "CANCELLED")
    BY <1>0, <2>5 DEF WriteCancel, Exists, Subscription
  <2>6. CASE WriteResume(r)
    BY <1>0, <2>6 DEF WriteResume, Exists, Subscription
  <2>7. CASE WriteActivate(r)
    <3>1. sub'.status = "ACTIVE"
      BY <2>7 DEF WriteActivate
    <3> QED
      BY <3>1 DEF Exists
  <2>8. CASE WriteExpireTrial(r) \/ WriteExpire(r)
    BY <1>0, <2>8 DEF WriteExpireTrial, WriteExpire, Exists, Subscription
  <2> QED
    BY <1>3, <2>1, <2>2, <2>3, <2>4, <2>5, <2>6, <2>7, <2>8 DEF Write
<1>4. ASSUME NEW r \in Requests, Abort(r)
      PROVE  UNCHANGED sub
  BY <1>4 DEF Abort
<1>5. ASSUME NEW o \in Orders, Charge(o) \/ LoseActivation(o)
      PROVE  UNCHANGED sub
  BY <1>5 DEF Charge, LoseActivation
<1>6. CASE AdminSets("SUSPENDED") \/ AdminSets("ACTIVE")
  <2>1. sub'.status \in {"SUSPENDED", "ACTIVE"}
    BY <1>0, <1>6 DEF AdminSets, Subscription
  <2> QED
    BY <2>1 DEF Exists
<1>7. CASE PeriodEnds
  BY <1>0, <1>7 DEF PeriodEnds, Exists, Subscription
<1>8. CASE UNCHANGED vars
  BY <1>8 DEF vars, Exists
<1> QED
  BY <1>1, <1>2, <1>3, <1>4, <1>5, <1>6, <1>7, <1>8 DEF Next

\* What a write leaves of the request: it is done, or it goes on to an order of
\* the plan it has chosen, or to mark the organization.
Goes(r, next) ==
  /\ req' = [req EXCEPT ![r] = IF next = "order" THEN [@ EXCEPT !.op = next]
                               ELSE [Idle EXCEPT !.op = next]]
  /\ UNCHANGED <<order, periods, failures>>

\* The part of the invariant about requests survives every such write.
LEMMA GoesStep ==
  ASSUME SubInv, NEW r \in Requests,
         NEW next \in {"idle", "order", "markTrial", "markActive"},
         Goes(r, next),
         next = "order" => req[r].op \in PlanOps,
         sub' \in Subscription, org' \in {"ACTIVE", "TRIAL"},
         Exists => Exists',
         sub.status \notin {"NONE", "TRIALING"}
           => sub'.status \notin {"NONE", "TRIALING"},
         next # "idle" => Exists',
         next = "markActive" => sub'.status # "TRIALING"
  PROVE  /\ TypeOK'
         /\ \A d \in Requests : Carries(d)' /\ Knows(d)'
         /\ req'[r].op = next
         /\ \A d \in Requests \ {r} : req'[d] = req[d]
<1>0. /\ req \in [Requests -> Request]
      /\ Carries(r)
  BY DEF SubInv, TypeOK
<1>1. req'[r] = IF next = "order" THEN [req[r] EXCEPT !.op = "order"]
                ELSE [op |-> next, plan |-> NoPlan, order |-> NoOrder]
  BY <1>0 DEF Goes, Idle
<1>2. req'[r] \in Request
  BY <1>0, <1>1 DEF Request, Ops
<1>3. req'[r].op = next
  BY <1>0, <1>1 DEF Request
<1>4. \A d \in Requests \ {r} : req'[d] = req[d]
  BY <1>0 DEF Goes
<1>5. req' \in [Requests -> Request]
  BY <1>0, <1>2, <1>4 DEF Goes
<1>6. TypeOK'
  BY <1>5 DEF Goes, SubInv, TypeOK
<1>7. Carries(r)'
  <2>1. CASE next = "order"
    <3>1. req'[r].plan = req[r].plan
      BY <1>0, <1>1, <2>1 DEF Request
    <3> QED
      BY <1>0, <1>3, <2>1, <3>1 DEF Carries
  <2>2. CASE next # "order"
    BY <1>3, <2>2 DEF Carries, PlanOps
  <2> QED
    BY <2>1, <2>2
<1>8. Knows(r)'
  BY <1>3 DEF Knows
<1>9. ASSUME NEW d \in Requests \ {r}
      PROVE  Carries(d)' /\ Knows(d)'
  <2>1. Carries(d) /\ Knows(d) /\ req'[d] = req[d] /\ order' = order
    BY <1>4 DEF SubInv, Goes
  <2>2. Carries(d)'
    BY <2>1 DEF Carries
  <2>3. Knows(d)'
    BY <2>1 DEF Knows, Exists
  <2> QED
    BY <2>2, <2>3
<1> QED
  BY <1>3, <1>4, <1>6, <1>7, <1>8, <1>9

\* A write of request r that does not touch the organization keeps the whole
\* invariant, when the flags it leaves fit and no trial starts.
LEMMA RowStep ==
  ASSUME SubInv, [Next]_vars, NEW r \in Requests,
         NEW op \in Ops \ {"markTrial", "markActive"},
         NEW next \in {"idle", "order", "markActive"},
         Writes(r, op, next), UNCHANGED org,
         next = "order" => op \in PlanOps,
         sub' \in Subscription,
         next # "idle" => Exists',
         next = "markActive" => sub'.status # "TRIALING",
         StatusFlags',
         sub'.status = "TRIALING" => sub.status = "TRIALING"
  PROVE  SubInv'
<1>1. Goes(r, next) /\ req[r].op = op
  BY DEF Writes, Goes
<1>2. org' \in {"ACTIVE", "TRIAL"}
  BY DEF SubInv, TypeOK
<1>3. /\ TypeOK'
      /\ \A d \in Requests : Carries(d)' /\ Knows(d)'
      /\ \A d \in Requests \ {r} : req'[d] = req[d]
  BY <1>1, <1>2, GoesStep, StatusStep
<1>4. TrialOrgMarked'
  BY <1>1, <1>3 DEF SubInv, TrialOrgMarked, Goes
<1> QED
  BY <1>3, <1>4 DEF SubInv

\* Every write keeps the invariant.
LEMMA WriteStep ==
  ASSUME SubInv, [Next]_vars, NEW r \in Requests, Write(r)
  PROVE  SubInv'
<1> USE SubscriptionsAssumption
<1>0. /\ TypeOK /\ sub \in Subscription /\ req[r] \in Request
      /\ org \in {"ACTIVE", "TRIAL"}
      /\ Carries(r) /\ Knows(r) /\ StatusFlags
  BY DEF SubInv, TypeOK
<1>1. CASE WriteCreateTrial(r)
  <2>1. CASE Exists
    <3>1. Writes(r, "createTrial", "idle") /\ UNCHANGED <<sub, org>>
      BY <1>1, <2>1 DEF WriteCreateTrial
    <3> QED
      BY <1>0, <3>1, RowStep DEF Ops, StatusFlags
  <2>2. CASE ~Exists
    <3>1. /\ Writes(r, "createTrial", "markTrial") /\ UNCHANGED org
          /\ sub' = [status |-> "TRIALING", plan |-> Free, pending |-> NoPlan,
                     cancelAtEnd |-> FALSE, periodOver |-> FALSE]
      BY <1>1, <2>2 DEF WriteCreateTrial
    <3>2. /\ sub' \in Subscription /\ Exists'
          /\ sub.status \in {"NONE", "TRIALING"} /\ Goes(r, "markTrial")
      BY <2>2, <3>1 DEF Subscription, SubStatus, Exists, Writes, Goes
    <3>3. /\ TypeOK' /\ req'[r].op = "markTrial"
          /\ \A d \in Requests : Carries(d)' /\ Knows(d)'
      BY <1>0, <3>1, <3>2, GoesStep
    <3>4. StatusFlags' /\ TrialOrgMarked'
      BY <3>1, <3>3 DEF StatusFlags, TrialOrgMarked
    <3> QED
      BY <3>3, <3>4 DEF SubInv
  <2> QED
    BY <2>1, <2>2
<1>2. CASE WriteMarkTrial(r)
  <2>1. /\ req[r].op = "markTrial" /\ Goes(r, "idle")
        /\ org' = "TRIAL" /\ UNCHANGED sub
    BY <1>2 DEF WriteMarkTrial, Writes, Goes
  <2>2. TypeOK' /\ \A d \in Requests : Carries(d)' /\ Knows(d)'
    BY <1>0, <2>1, GoesStep DEF Exists
  <2>3. StatusFlags' /\ TrialOrgMarked'
    BY <1>0, <2>1 DEF StatusFlags, TrialOrgMarked
  <2> QED
    BY <2>2, <2>3 DEF SubInv
<1>3. CASE WriteUpgrade(r)
  <2>1. /\ req[r].plan \in Plans /\ Writes(r, "upgrade", "order") /\ UNCHANGED org
        /\ sub' = [sub EXCEPT !.status = "PENDING_PAYMENT", !.pending = req[r].plan]
    BY <1>0, <1>3 DEF WriteUpgrade, Writes, Carries, PlanOps
  <2>2. sub' \in Subscription /\ sub'.status = "PENDING_PAYMENT"
    BY <1>0, <2>1 DEF Subscription, SubStatus
  <2>3. StatusFlags' /\ Exists'
    BY <2>2 DEF StatusFlags, Exists
  <2> QED
    BY <2>1, <2>2, <2>3, RowStep DEF Ops, PlanOps
<1>4. CASE WriteRenew(r)
  <2>1. /\ Writes(r, "renew", "order") /\ UNCHANGED org
        /\ sub' = [sub EXCEPT !.status = "PENDING_PAYMENT"]
    BY <1>4 DEF WriteRenew
  <2>2. sub' \in Subscription /\ sub'.status = "PENDING_PAYMENT"
    BY <1>0, <2>1 DEF Subscription, SubStatus
  <2>3. StatusFlags' /\ Exists'
    BY <2>2 DEF StatusFlags, Exists
  <2> QED
    BY <2>1, <2>2, <2>3, RowStep DEF Ops, PlanOps
<1>5. CASE WriteReactivate(r)
  <2>1. /\ Writes(r, "reactivate", "order") /\ UNCHANGED org
        /\ sub' = [sub EXCEPT !.status = "PENDING_PAYMENT", !.cancelAtEnd = FALSE]
    BY <1>5 DEF WriteReactivate
  <2>2. sub' \in Subscription /\ sub'.status = "PENDING_PAYMENT"
    BY <1>0, <2>1 DEF Subscription, SubStatus
  <2>3. StatusFlags' /\ Exists'
    BY <2>2 DEF StatusFlags, Exists
  <2> QED
    BY <2>1, <2>2, <2>3, RowStep DEF Ops, PlanOps
<1>6. ASSUME NEW o \in Orders, WriteOrder(r, o)
      PROVE  SubInv'
  <2>1. /\ req[r].plan \in Plans
        /\ UNCHANGED <<sub, org, periods, failures>>
        /\ req[r].op \in {"order", "firstOrder"}
    BY <1>0, <1>6 DEF WriteOrder, Carries, PlanOps
  <2>2. /\ order' = [order EXCEPT ![o] = [stage |-> "open", plan |-> req[r].plan,
                                          linked |-> req[r].op = "order"]]
        /\ order[o].stage = "none"
        /\ req' = [req EXCEPT ![r] = Idle]
    BY <1>6 DEF WriteOrder
  <2>3. order' \in [Orders -> Order]
    BY <1>0, <2>1, <2>2 DEF TypeOK, Order
  <2>4. req' \in [Requests -> Request]
    BY <1>0, <2>2 DEF TypeOK, Request, Idle
  <2>5. TypeOK'
    BY <1>0, <2>1, <2>3, <2>4 DEF TypeOK
  <2>6. /\ req'[r] = Idle
        /\ \A d \in Requests \ {r} : req'[d] = req[d]
        /\ \A p \in Orders \ {o} : order'[p] = order[p]
    BY <1>0, <2>2 DEF TypeOK
  <2>7. \A d \in Requests : Carries(d)' /\ Knows(d)'
    <3>1. Carries(r)' /\ Knows(r)'
      BY <2>6 DEF Carries, Knows, Idle, PlanOps
    <3>2. ASSUME NEW d \in Requests \ {r}
          PROVE  Carries(d)' /\ Knows(d)'
      <4>1. Carries(d) /\ Knows(d)
        BY DEF SubInv
      <4>2. Carries(d)'
        BY <2>2, <2>6, <4>1 DEF Carries
      <4>3. Knows(d)'
        BY <2>1, <2>6, <4>1 DEF Knows, Exists
      <4> QED
        BY <4>2, <4>3
    <3> QED
      BY <3>1, <3>2
  <2>8. StatusFlags' /\ TrialOrgMarked'
    BY <2>1, <2>6 DEF SubInv, StatusFlags, TrialOrgMarked
  <2> QED
    BY <2>5, <2>7, <2>8 DEF SubInv
<1>7. CASE OrderRefused(r)
  BY <1>0, <1>7, RowStep DEF OrderRefused, Ops, StatusFlags
<1>8. CASE WriteDowngrade(r)
  <2>1. /\ req[r].plan \in Plans /\ Writes(r, "downgrade", "idle") /\ UNCHANGED org
        /\ sub' = [sub EXCEPT !.pending = req[r].plan]
    BY <1>0, <1>8 DEF WriteDowngrade, Writes, Carries, PlanOps
  <2>2. /\ sub' \in Subscription /\ sub'.status = sub.status
        /\ sub'.cancelAtEnd = sub.cancelAtEnd
    BY <1>0, <2>1 DEF Subscription
  <2> QED
    BY <1>0, <2>1, <2>2, RowStep DEF Ops, StatusFlags
<1>9. CASE WriteChangePlan(r)
  <2>1. /\ req[r].plan \in Plans /\ Writes(r, "changePlan", "idle") /\ UNCHANGED org
        /\ sub' = [sub EXCEPT !.plan = req[r].plan, !.pending = NoPlan]
    BY <1>0, <1>9 DEF WriteChangePlan, Writes, Carries, PlanOps
  <2>2. /\ sub' \in Subscription /\ sub'.status = sub.status
        /\ sub'.cancelAtEnd = sub.cancelAtEnd
    BY <1>0, <2>1 DEF Subscription
  <2> QED
    BY <1>0, <2>1, <2>2, RowStep DEF Ops, StatusFlags
<1>10. ASSUME NEW op \in {"cancelAtEnd", "cancelNow"},
              NEW status \in {"ACTIVE", "CANCELLED"}, WriteCancel(r, op, status)
       PROVE  SubInv'
  <2>1. /\ Writes(r, op, "idle") /\ UNCHANGED org
        /\ sub' = [sub EXCEPT !.status = status, !.cancelAtEnd = TRUE,
                              !.pending = NoPlan]
    BY <1>10 DEF WriteCancel
  <2>2. sub' \in Subscription /\ sub'.status = status /\ sub'.cancelAtEnd = TRUE
    BY <1>0, <2>1 DEF Subscription, SubStatus
  <2>3. StatusFlags'
    BY <2>2 DEF StatusFlags
  <2> QED
    BY <2>1, <2>2, <2>3, RowStep DEF Ops
<1>11. CASE WriteResume(r)
  <2>1. /\ Writes(r, "resume", "idle") /\ UNCHANGED org
        /\ sub' = [sub EXCEPT !.status = "ACTIVE", !.cancelAtEnd = FALSE]
    BY <1>11 DEF WriteResume
  <2>2. sub' \in Subscription /\ sub'.status = "ACTIVE"
    BY <1>0, <2>1 DEF Subscription, SubStatus
  <2>3. StatusFlags'
    BY <2>2 DEF StatusFlags
  <2> QED
    BY <2>1, <2>2, <2>3, RowStep DEF Ops
<1>12. CASE WriteActivate(r)
  <2> DEFINE o == req[r].order
  <2>1. /\ req[r].plan \in Plans /\ o \in Orders
        /\ order[o].stage \in {"charged", "unlocked", "lost"}
    BY <1>0, <1>12 DEF WriteActivate, Carries, PlanOps
  <2>2. /\ sub' = [status |-> "ACTIVE", plan |-> req[r].plan, pending |-> NoPlan,
                   cancelAtEnd |-> FALSE, periodOver |-> FALSE]
        /\ order' = [order EXCEPT ![o].stage = "unlocked"]
        /\ req' = [req EXCEPT ![r] = [Idle EXCEPT !.op = "markActive"]]
        /\ UNCHANGED <<org, periods, failures>>
    BY <1>12 DEF WriteActivate
  <2>3. sub' \in Subscription /\ sub'.status = "ACTIVE"
    BY <2>1, <2>2 DEF Subscription, SubStatus
  <2>4. order' \in [Orders -> Order]
    BY <1>0, <2>1, <2>2 DEF TypeOK, Order
  <2>5. /\ order'[o].stage = "unlocked"
        /\ \A p \in Orders \ {o} : order'[p] = order[p]
    BY <1>0, <2>1, <2>2 DEF TypeOK, Order
  <2>6. /\ req'[r] = [op |-> "markActive", plan |-> NoPlan, order |-> NoOrder]
        /\ \A d \in Requests \ {r} : req'[d] = req[d]
    BY <1>0, <2>2 DEF TypeOK, Idle
  <2>7. req' \in [Requests -> Request]
    <3>1. [Idle EXCEPT !.op = "markActive"] \in Request
      BY DEF Idle, Request, Ops
    <3> QED
      BY <1>0, <2>2, <3>1 DEF TypeOK
  <2>8. TypeOK'
    BY <1>0, <2>2, <2>3, <2>4, <2>7 DEF TypeOK
  <2>9. \A d \in Requests : Carries(d)' /\ Knows(d)'
    <3>1. Carries(r)' /\ Knows(r)'
      BY <2>3, <2>6 DEF Carries, Knows, Exists, PlanOps
    <3>2. ASSUME NEW d \in Requests \ {r}
          PROVE  Carries(d)' /\ Knows(d)'
      <4>1. Carries(d) /\ Knows(d)
        BY DEF SubInv
      <4>2. Carries(d)'
        BY <2>5, <2>6, <4>1 DEF Carries
      <4>3. Knows(d)'
        BY <2>3, <2>6, <4>1 DEF Knows, Exists
      <4> QED
        BY <4>2, <4>3
    <3> QED
      BY <3>1, <3>2
  <2>10. StatusFlags' /\ TrialOrgMarked'
    BY <2>3 DEF StatusFlags, TrialOrgMarked
  <2> QED
    BY <2>8, <2>9, <2>10 DEF SubInv
<1>13. CASE WriteExpireTrial(r)
  <2>1. /\ Writes(r, "expireTrial", "markActive") /\ UNCHANGED org
        /\ sub' = [sub EXCEPT !.status = "ACTIVE", !.plan = Free, !.periodOver = FALSE]
    BY <1>13 DEF WriteExpireTrial
  <2>2. sub' \in Subscription /\ sub'.status = "ACTIVE"
    BY <1>0, <2>1 DEF Subscription, SubStatus
  <2>3. StatusFlags' /\ Exists'
    BY <2>2 DEF StatusFlags, Exists
  <2> QED
    BY <2>1, <2>2, <2>3, RowStep DEF Ops
<1>14. CASE WriteExpire(r)
  <2>1. /\ Writes(r, "expire", "markActive") /\ UNCHANGED org
        /\ sub' = [sub EXCEPT !.status = "EXPIRED", !.plan = Free,
                              !.cancelAtEnd = FALSE]
    BY <1>14 DEF WriteExpire
  <2>2. sub' \in Subscription /\ sub'.status = "EXPIRED" /\ sub'.cancelAtEnd = FALSE
    BY <1>0, <2>1 DEF Subscription, SubStatus
  <2>3. StatusFlags' /\ Exists'
    BY <2>2 DEF StatusFlags, Exists
  <2> QED
    BY <2>1, <2>2, <2>3, RowStep DEF Ops
<1>15. CASE WriteMarkActive(r)
  <2>1. /\ Goes(r, "idle") /\ org' = "ACTIVE" /\ UNCHANGED sub
        /\ sub.status # "TRIALING"
    BY <1>0, <1>15 DEF WriteMarkActive, Writes, Goes, Knows
  <2>2. TypeOK' /\ \A d \in Requests : Carries(d)' /\ Knows(d)'
    BY <1>0, <2>1, GoesStep DEF Exists
  <2>3. StatusFlags' /\ TrialOrgMarked'
    BY <1>0, <2>1 DEF StatusFlags, TrialOrgMarked
  <2> QED
    BY <2>2, <2>3 DEF SubInv
<1> QED
  BY <1>1, <1>2, <1>3, <1>4, <1>5, <1>6, <1>7, <1>8, <1>9, <1>10, <1>11, <1>12,
     <1>13, <1>14, <1>15 DEF Write

\* An order moves on, to a stage that an activation in flight may find; the
\* requests and the rows stay as they are.
LEMMA OrderStep ==
  ASSUME SubInv, NEW o \in Orders, NEW stage \in {"charged", "lost"},
         order' = [order EXCEPT ![o].stage = stage],
         UNCHANGED <<sub, org, req, periods, failures>>
  PROVE  SubInv'
<1>1. /\ order' \in [Orders -> Order]
      /\ order'[o].stage = stage
      /\ \A p \in Orders \ {o} : order'[p] = order[p]
  BY DEF SubInv, TypeOK, Order
<1>2. TypeOK'
  BY <1>1 DEF SubInv, TypeOK
<1>3. \A r \in Requests : Carries(r)'
  BY <1>1 DEF SubInv, Carries
<1>4. \A r \in Requests : Knows(r)'
  BY DEF SubInv, Knows, Exists
<1>5. StatusFlags' /\ TrialOrgMarked'
  BY DEF SubInv, StatusFlags, TrialOrgMarked
<1> QED
  BY <1>2, <1>3, <1>4, <1>5 DEF SubInv

\* The row changes under requests in flight, whose orders stay as they are.
LEMMA AdminStep ==
  ASSUME SubInv, [Next]_vars, sub' \in Subscription,
         periods' \in 0 .. MaxPeriods,
         UNCHANGED <<org, order, req, failures>>,
         StatusFlags',
         sub'.status = "TRIALING" => sub.status = "TRIALING"
  PROVE  SubInv'
<1>1. TypeOK'
  BY DEF SubInv, TypeOK
<1>2. \A r \in Requests : Carries(r)'
  BY DEF SubInv, Carries
<1>3. \A r \in Requests : Knows(r)'
  BY StatusStep DEF SubInv, Knows
<1>4. TrialOrgMarked'
  BY DEF SubInv, TrialOrgMarked
<1> QED
  BY <1>1, <1>2, <1>3, <1>4 DEF SubInv

\* A request that dies leaves the rows as they are, and is counted.
LEMMA AbortStep ==
  ASSUME SubInv, NEW r \in Requests, Abort(r)
  PROVE  SubInv'
<1>0. TypeOK
  BY DEF SubInv
<1>1. /\ req' = [req EXCEPT ![r] = Idle]
      /\ UNCHANGED <<sub, org, periods>>
      /\ failures' = failures + 1 /\ failures < MaxFailures
  BY DEF Abort
<1>2. \A o \in Orders :
        \/ order'[o] = order[o]
        \/ order[o].stage = "charged" /\ order'[o] = [order[o] EXCEPT !.stage = "lost"]
  BY DEF Abort
<1>3. order' \in [Orders -> Order]
  <2>1. \A o \in Orders : order[o] \in Order
    BY <1>0 DEF TypeOK
  <2>2. \A o \in Orders : [order[o] EXCEPT !.stage = "lost"] \in Order
    BY <2>1 DEF Order
  <2>3. \A o \in Orders : order'[o] \in Order
    BY <1>2, <2>1, <2>2
  <2> QED
    BY <2>3 DEF Abort
<1>4. /\ req' \in [Requests -> Request]
      /\ req'[r] = Idle
      /\ \A d \in Requests \ {r} : req'[d] = req[d]
  BY <1>0, <1>1 DEF TypeOK, Request, Idle
<1>5. failures' \in 0 .. MaxFailures /\ failures' > 0
  BY <1>0, <1>1, SubscriptionsAssumption DEF TypeOK
<1>6. TypeOK'
  BY <1>0, <1>1, <1>3, <1>4, <1>5 DEF TypeOK
<1>7. ASSUME NEW d \in Requests
      PROVE  Carries(d)' /\ Knows(d)'
  <2>1. CASE d = r
    BY <1>4, <2>1 DEF Carries, Knows, Idle, PlanOps
  <2>2. CASE d # r
    <3>1. Carries(d) /\ Knows(d) /\ req'[d] = req[d]
      BY <1>4, <2>2 DEF SubInv
    <3>2. \A o \in Orders : order'[o].stage \in {order[o].stage, "lost"}
      BY <1>0, <1>2 DEF TypeOK, Order
    <3>3. Carries(d)'
      BY <3>1, <3>2 DEF Carries
    <3>4. Knows(d)'
      BY <1>1, <3>1 DEF Knows, Exists
    <3> QED
      BY <3>3, <3>4
  <2> QED
    BY <2>1, <2>2
<1>8. StatusFlags' /\ TrialOrgMarked'
  BY <1>1, <1>5 DEF SubInv, StatusFlags, TrialOrgMarked
<1> QED
  BY <1>6, <1>7, <1>8 DEF SubInv

\* The invariant is inductive.
LEMMA SubInductive == SubInv /\ [Next]_vars => SubInv'
<1> SUFFICES ASSUME SubInv, [Next]_vars
             PROVE  SubInv'
  OBVIOUS
<1>0. sub \in Subscription /\ periods \in 0 .. MaxPeriods /\ StatusFlags
  BY DEF SubInv, TypeOK
<1>1. ASSUME NEW r \in Requests, Read(r) \/ Write(r) \/ Abort(r)
      PROVE  SubInv'
  BY <1>1, ReadStep, WriteStep, AbortStep
<1>2. ASSUME NEW o \in Orders, Charge(o) \/ LoseActivation(o)
      PROVE  SubInv'
  BY <1>2, OrderStep DEF Charge, LoseActivation
<1>3. ASSUME NEW status \in {"SUSPENDED", "ACTIVE"}, AdminSets(status)
      PROVE  SubInv'
  <2>1. /\ sub' = [sub EXCEPT !.status = status]
        /\ UNCHANGED <<org, order, req, periods, failures>>
    BY <1>3 DEF AdminSets
  <2>2. sub' \in Subscription /\ sub'.status = status
    BY <1>0, <2>1 DEF Subscription, SubStatus
  <2>3. StatusFlags'
    BY <2>2 DEF StatusFlags
  <2> QED
    BY <1>0, <2>1, <2>2, <2>3, AdminStep
<1>4. CASE PeriodEnds
  <2>1. /\ sub' = [sub EXCEPT !.periodOver = TRUE]
        /\ periods < MaxPeriods /\ periods' = periods + 1
        /\ UNCHANGED <<org, order, req, failures>>
    BY <1>4 DEF PeriodEnds
  <2>2. /\ sub' \in Subscription /\ sub'.status = sub.status
        /\ sub'.cancelAtEnd = sub.cancelAtEnd
    BY <1>0, <2>1 DEF Subscription
  <2>3. periods' \in 0 .. MaxPeriods
    BY <1>0, <2>1, SubscriptionsAssumption
  <2>4. StatusFlags'
    BY <1>0, <2>2 DEF StatusFlags
  <2> QED
    BY <2>1, <2>2, <2>3, <2>4, AdminStep
<1>5. CASE UNCHANGED vars
  <2>1. UNCHANGED <<sub, org, order, req, periods, failures>>
    BY <1>5 DEF vars
  <2> QED
    BY <1>0, <2>1, AdminStep DEF StatusFlags
<1> QED
  BY <1>1, <1>2, <1>3, <1>4, <1>5 DEF Next

LEMMA SubInitially == Init => SubInv
<1> SUFFICES ASSUME Init
             PROVE  SubInv
  OBVIOUS
<1>1. TypeOK
  BY SubscriptionsAssumption
     DEF Init, TypeOK, Subscription, SubStatus, Order, Request, Idle
<1>2. \A r \in Requests : Carries(r) /\ Knows(r)
  BY DEF Init, Idle, Carries, Knows, PlanOps
<1>3. StatusFlags /\ TrialOrgMarked
  BY DEF Init, StatusFlags, TrialOrgMarked
<1> QED
  BY <1>1, <1>2, <1>3 DEF SubInv

LEMMA SubAlways == Spec => []SubInv
BY SubInitially, SubInductive, PTL DEF Spec

\* Every reachable state of the subscription, its orders and the requests in
\* flight is well typed.
THEOREM SubscriptionTypeCorrect == Spec => []TypeOK
<1>1. SubInv => TypeOK
  BY DEF SubInv
<1> QED
  BY <1>1, SubAlways, PTL

\* The cancellation flag and the organization's status always fit the
\* subscription's status, whatever commands, activations and jobs overlap.
THEOREM StatusConsistent == Spec => []StatusIsConsistent
<1>1. SubInv => StatusIsConsistent
  BY DEF SubInv, StatusIsConsistent
<1> QED
  BY <1>1, SubAlways, PTL

\* A trial that has ended never starts again, however it ended.
THEOREM OneTrial == Spec => TrialOnce
<1>1. SubInv /\ [Next]_vars
        => [sub.status \notin {"NONE", "TRIALING"}
              => sub'.status \notin {"NONE", "TRIALING"}]_vars
  BY StatusStep
<1> QED
  BY <1>1, SubAlways, PTL DEF Spec, TrialOnce
-----------------------------------------------------------------------------
(* The ledger. *)

\* A step that moves the stage of one order, or of none, moves the ledger by
\* one step or leaves it alone.
LEMMA LedgerStep ==
  ASSUME NEW o \in Orders,
         \A p \in Orders \ {o} : LedgerStage'[p] = LedgerStage[p],
         \/ LedgerStage'[o] = LedgerStage[o]
         \/ LedgerStage[o] = "unpaid" /\ LedgerStage'[o] = "charged"
         \/ LedgerStage[o] = "charged" /\ LedgerStage'[o] = "unlocked"
  PROVE  [Ledger!LedgerNext]_LedgerStage
<1>1. CASE LedgerStage'[o] = LedgerStage[o]
  <2>1. LedgerStage' = LedgerStage
    BY <1>1 DEF LedgerStage
  <2> QED
    BY <2>1
<1>2. ASSUME NEW from, NEW to, LedgerStage[o] = from, LedgerStage'[o] = to
      PROVE  LedgerStage' = [LedgerStage EXCEPT ![o] = to]
  BY <1>2 DEF LedgerStage
<1> QED
  BY <1>1, <1>2 DEF Ledger!LedgerNext, Ledger!Charge, Ledger!Unlock, Ledger!Advance

\* The ledger sees nothing of a step that leaves the orders alone, or opens
\* or loses one.
LEMMA LedgerStutter ==
  ASSUME \A o \in Orders : LedgerStage'[o] = LedgerStage[o]
  PROVE  [Ledger!LedgerNext]_LedgerStage
<1>1. LedgerStage' = LedgerStage
  BY DEF LedgerStage
<1> QED
  BY <1>1

\* Every step of the subscription is a step of the ledger, or none.
LEMMA LedgerNextStep ==
  ASSUME SubInv, [Next]_vars
  PROVE  [Ledger!LedgerNext]_LedgerStage
<1> DEFINE Good == [Ledger!LedgerNext]_LedgerStage
<1>0. order \in [Orders -> Order]
  BY DEF SubInv, TypeOK
<1>1. CASE UNCHANGED order
  BY <1>1, LedgerStutter DEF LedgerStage
<1>2. ASSUME NEW r \in Requests, Read(r)
      PROVE  UNCHANGED order
  BY <1>2 DEF Read, StartTrial, Renew, Resume, Checkout, Upgrade, Downgrade,
              Cancel, BeginActivation, ExpireDueTrials, ApplyDueChange,
              ExpireDue, Begin
<1>3. ASSUME NEW r \in Requests, NEW o \in Orders, WriteOrder(r, o)
      PROVE  Good
  <2>1. /\ order[o].stage = "none" /\ order'[o].stage = "open"
        /\ \A p \in Orders \ {o} : order'[p] = order[p]
    BY <1>0, <1>3 DEF WriteOrder
  <2>2. \A p \in Orders : LedgerStage'[p] = LedgerStage[p]
    BY <2>1 DEF LedgerStage
  <2> QED
    BY <2>2, LedgerStutter
<1>4. ASSUME NEW r \in Requests, WriteActivate(r)
      PROVE  Good
  <2> DEFINE o == req[r].order
  <2>1. o \in Orders /\ order[o].stage \in {"charged", "unlocked", "lost"}
    BY <1>4 DEF WriteActivate, SubInv, Carries
  <2>2. /\ order'[o].stage = "unlocked"
        /\ \A p \in Orders \ {o} : order'[p] = order[p]
    BY <1>0, <1>4, <2>1 DEF WriteActivate, Order
  <2>3. /\ LedgerStage[o] \in {"charged", "unlocked"}
        /\ LedgerStage'[o] = "unlocked"
        /\ \A p \in Orders \ {o} : LedgerStage'[p] = LedgerStage[p]
    BY <2>1, <2>2 DEF LedgerStage
  <2> QED
    BY <2>1, <2>3, LedgerStep
<1>5. ASSUME NEW r \in Requests, Write(r),
             \A o \in Orders : ~WriteOrder(r, o), ~WriteActivate(r)
      PROVE  UNCHANGED order
  BY <1>5 DEF Write, WriteCreateTrial, WriteMarkTrial, WriteUpgrade, WriteRenew,
              WriteReactivate, OrderRefused, WriteDowngrade, WriteChangePlan,
              WriteCancel, WriteResume, WriteExpireTrial, WriteExpire,
              WriteMarkActive, Writes
<1>6. ASSUME NEW r \in Requests, Abort(r)
      PROVE  Good
  <2>1. \A o \in Orders :
          \/ order'[o] = order[o]
          \/ order[o].stage = "charged" /\ order'[o].stage = "lost"
    BY <1>0, <1>6 DEF Abort, Order
  <2>2. \A o \in Orders : LedgerStage'[o] = LedgerStage[o]
    BY <2>1 DEF LedgerStage
  <2> QED
    BY <2>2, LedgerStutter
<1>7. ASSUME NEW o \in Orders, Charge(o)
      PROVE  Good
  <2>1. /\ order[o].stage = "open" /\ order'[o].stage = "charged"
        /\ \A p \in Orders \ {o} : order'[p] = order[p]
    BY <1>0, <1>7 DEF Charge, Order
  <2>2. /\ LedgerStage[o] = "unpaid" /\ LedgerStage'[o] = "charged"
        /\ \A p \in Orders \ {o} : LedgerStage'[p] = LedgerStage[p]
    BY <2>1 DEF LedgerStage
  <2> QED
    BY <2>2, LedgerStep
<1>8. ASSUME NEW o \in Orders, LoseActivation(o)
      PROVE  Good
  <2>1. /\ order[o].stage = "charged" /\ order'[o].stage = "lost"
        /\ \A p \in Orders \ {o} : order'[p] = order[p]
    BY <1>0, <1>8 DEF LoseActivation, Order
  <2>2. \A p \in Orders : LedgerStage'[p] = LedgerStage[p]
    BY <2>1 DEF LedgerStage
  <2> QED
    BY <2>2, LedgerStutter
<1>9. CASE AdminSets("SUSPENDED") \/ AdminSets("ACTIVE") \/ PeriodEnds \/ UNCHANGED vars
  BY <1>1, <1>9 DEF AdminSets, PeriodEnds, vars
<1> QED
  BY <1>1, <1>2, <1>3, <1>4, <1>5, <1>6, <1>7, <1>8, <1>9 DEF Next

\* Whatever requests and jobs overlap or die, an order is charged before it
\* unlocks the subscription, and what it has unlocked stays unlocked.
THEOREM LedgerRefinement == Spec => ImplementsLedger
<1>1. Init => Ledger!LedgerInit
  BY DEF Init, Ledger!LedgerInit, LedgerStage
<1>2. SubInv /\ [Next]_vars => [Ledger!LedgerNext]_LedgerStage
  BY LedgerNextStep
<1> QED
  BY <1>1, <1>2, SubAlways, PTL DEF Spec, ImplementsLedger, Ledger!LedgerSpec
=============================================================================
