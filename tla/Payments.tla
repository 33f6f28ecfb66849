------------------------------ MODULE Payments ------------------------------
(***************************************************************************)
(* The payment rows and the requests that move them: checkout, the gateway *)
(* webhook and the verify endpoint.  payment.service.ts and                *)
(* webhook.service.ts hold no transaction: every awaited database write is *)
(* a step of its own, and a request decides on the row it read when it     *)
(* began, not on the row it then overwrites.                               *)
(*                                                                         *)
(* A handler is one request in flight, on any instance of the server.  The *)
(* gateway is external: it settles an open session once, may refund a      *)
(* successful one, and may deliver each of its events late, out of order   *)
(* and any number of times.                                                *)
(***************************************************************************)
EXTENDS Naturals, FiniteSets

CONSTANTS
  Payments,     \* payment references: each checkout draws a fresh one
  Handlers,     \* requests that can be in flight at the same time
  NoPayment,    \* the payment of an idle handler
  MaxFailures   \* bound: requests that die between two of their steps

ASSUME PaymentsAssumption ==
  /\ NoPayment \notin Payments
  /\ IsFiniteSet(Handlers)
  /\ MaxFailures \in Nat

VARIABLES
  payment,        \* Payment.status, "NONE" when there is no row
  transactionId,  \* whether Payment.providerTransactionId is set
  invoice,        \* payments that have an Invoice row
  activated,      \* how often the payment (re)activated the subscription
  gateway,        \* the gateway's own record of the session
  job,            \* the requests in flight
  failures        \* requests that died so far

vars == <<payment, transactionId, invoice, activated, gateway, job, failures>>
-----------------------------------------------------------------------------
Terminal == {"SUCCESSFUL", "FAILED", "CANCELLED", "REFUNDED", "EXPIRED"}

PaymentStatus == {"NONE", "INITIATED"} \union Terminal

Outcomes == {"successful", "failed", "cancelled", "expired"}

Events == Outcomes \union {"refunded"}

GatewayStatus == {"absent", "pending"} \union Events

BusyJob == [pc    : {"session", "saveId", "verifying", "apply", "activate",
                     "invoice"},
            pay   : Payments,
            event : Events \union {"none"},
            txid  : BOOLEAN]

Idle == [pc |-> "idle", pay |-> NoPayment, event |-> "none", txid |-> FALSE]

Job == BusyJob \union {Idle}

TypeOK ==
  /\ payment \in [Payments -> PaymentStatus]
  /\ transactionId \in [Payments -> BOOLEAN]
  /\ invoice \subseteq Payments
  /\ activated \in [Payments -> Nat]
  /\ gateway \in [Payments -> GatewayStatus]
  /\ job \in [Handlers -> Job]
  /\ failures \in 0 .. MaxFailures

Init ==
  /\ payment = [p \in Payments |-> "NONE"]
  /\ transactionId = [p \in Payments |-> FALSE]
  /\ invoice = {}
  /\ activated = [p \in Payments |-> 0]
  /\ gateway = [p \in Payments |-> "absent"]
  /\ job = [h \in Handlers |-> Idle]
  /\ failures = 0

\* Mutant of StatusOf: a decline is booked as a success.
StatusOfDeclined(event) ==
  IF event = "refunded" THEN "REFUNDED" ELSE "SUCCESSFUL"

\* The status a gateway event writes into the row.
StatusOf(event) ==
  CASE event = "successful" -> "SUCCESSFUL"
    [] event = "failed"     -> "FAILED"
    [] event = "cancelled"  -> "CANCELLED"
    [] event = "expired"    -> "EXPIRED"
    [] OTHER                -> "REFUNDED"

\* Mutant of Ignores: the terminal guards are missing.
IgnoresNothing(status, event) == FALSE

\* A row as read by the request makes the event a no-op: terminalMatch and
\* the first line of every process* method.  A refund is refused only by a
\* row that is REFUNDED already.
Ignores(status, event) ==
  IF event = "refunded" THEN status = "REFUNDED" ELSE status \in Terminal

\* Events the gateway may have on the wire: every settled status it reached.
Sent(p) ==
  (IF gateway[p] = "refunded" THEN {"successful"} ELSE {})
    \union ({gateway[p]} \ {"absent", "pending"})

Goto(h, pc) == job' = [job EXCEPT ![h].pc = pc]

Finish(h) == job' = [job EXCEPT ![h] = Idle]
-----------------------------------------------------------------------------
(* Checkout: initiateCheckout. *)

CreatePayment(h, p) ==
  /\ job[h].pc = "idle"
  /\ payment[p] = "NONE"
  /\ payment' = [payment EXCEPT ![p] = "INITIATED"]
  /\ job' = [job EXCEPT ![h] = [Idle EXCEPT !.pc = "session", !.pay = p]]
  /\ UNCHANGED <<transactionId, invoice, activated, gateway, failures>>

\* The gateway opens the session; the id it may return is saved by a later
\* write.
OpenSession(h) ==
  /\ job[h].pc = "session"
  /\ gateway' = [gateway EXCEPT ![job[h].pay] = "pending"]
  /\ \/ Goto(h, "saveId")
     \/ Finish(h)
  /\ UNCHANGED <<payment, transactionId, invoice, activated, failures>>

\* createCheckoutSession throws before the gateway knows the session: the
\* row stays INITIATED and nobody revisits it.
SessionFails(h) ==
  /\ job[h].pc = "session"
  /\ Finish(h)
  /\ UNCHANGED <<payment, transactionId, invoice, activated, gateway, failures>>

SaveTransactionId(h) ==
  /\ job[h].pc = "saveId"
  /\ transactionId' = [transactionId EXCEPT ![job[h].pay] = TRUE]
  /\ Finish(h)
  /\ UNCHANGED <<payment, invoice, activated, gateway, failures>>
-----------------------------------------------------------------------------
(* The gateway, outside the repository. *)

Settle(p) ==
  /\ gateway[p] = "pending"
  /\ \E outcome \in Outcomes : gateway' = [gateway EXCEPT ![p] = outcome]
  /\ UNCHANGED <<payment, transactionId, invoice, activated, job, failures>>

Refund(p) ==
  /\ gateway[p] = "successful"
  /\ gateway' = [gateway EXCEPT ![p] = "refunded"]
  /\ UNCHANGED <<payment, transactionId, invoice, activated, job, failures>>
-----------------------------------------------------------------------------
(* Webhook and verification. *)

\* Mutant of ReceiveWebhook: the row is found by its transaction id only.
ReceiveWebhookByTransactionId(h, p, event) ==
  /\ job[h].pc = "idle"
  /\ event \in Sent(p)
  /\ transactionId[p]
  /\ ~Ignores(payment[p], event)
  /\ job' = [job EXCEPT ![h] = [pc |-> "apply", pay |-> p, event |-> event,
                                txid |-> transactionId[p]]]
  /\ UNCHANGED <<payment, transactionId, invoice, activated, gateway, failures>>

\* handle: find the row, audit the event, decide on the row as read.  A
\* webhook whose row is not found, or whose event the row makes a no-op,
\* changes nothing.
ReceiveWebhook(h, p, event) ==
  /\ job[h].pc = "idle"
  /\ event \in Sent(p)
  /\ payment[p] # "NONE"
  /\ ~Ignores(payment[p], event)
  /\ job' = [job EXCEPT ![h] = [pc |-> "apply", pay |-> p, event |-> event,
                                txid |-> transactionId[p]]]
  /\ UNCHANGED <<payment, transactionId, invoice, activated, gateway, failures>>

\* verifyPayment: a terminal row short-circuits, else the gateway is asked.
BeginVerify(h, p) ==
  /\ job[h].pc = "idle"
  /\ payment[p] \notin Terminal \union {"NONE"}
  /\ job' = [job EXCEPT ![h] = [Idle EXCEPT !.pc = "verifying", !.pay = p,
                                            !.txid = transactionId[p]]]
  /\ UNCHANGED <<payment, transactionId, invoice, activated, gateway, failures>>

\* The gateway answers with its status, and may add the transaction id.
VerifyAnswered(h) ==
  /\ job[h].pc = "verifying"
  /\ gateway[job[h].pay] \in Events
  /\ \E txid \in {job[h].txid, TRUE} :
       job' = [job EXCEPT ![h] = [pc |-> "apply", pay |-> job[h].pay,
                                  event |-> gateway[job[h].pay], txid |-> txid]]
  /\ UNCHANGED <<payment, transactionId, invoice, activated, gateway, failures>>

\* Mutant of VerifyInconclusive: a failed call counts as a declined payment.
VerifyErrorDeclines(h) ==
  /\ job[h].pc = "verifying"
  /\ job' = [job EXCEPT ![h] = [@ EXCEPT !.pc = "apply", !.event = "failed"]]
  /\ UNCHANGED <<payment, transactionId, invoice, activated, gateway, failures>>

\* Still pending, or the call failed: the row is returned as it was read.
VerifyInconclusive(h) ==
  /\ job[h].pc = "verifying"
  /\ Finish(h)
  /\ UNCHANGED <<payment, transactionId, invoice, activated, gateway, failures>>

\* Mutants of ApplyStatus: the success is billed without an activation, or
\* recorded and nothing else.
ApplyStatusBillsOnly(h) ==
  LET p == job[h].pay
      e == job[h].event
  IN /\ job[h].pc = "apply"
     /\ payment' = [payment EXCEPT ![p] = StatusOf(e)]
     /\ IF e = "successful" THEN Goto(h, "invoice") ELSE Finish(h)
     /\ UNCHANGED <<transactionId, invoice, activated, gateway, failures>>

ApplyStatusRecordsOnly(h) ==
  /\ job[h].pc = "apply"
  /\ payment' = [payment EXCEPT ![job[h].pay] = StatusOf(job[h].event)]
  /\ Finish(h)
  /\ UNCHANGED <<transactionId, invoice, activated, gateway, failures>>

\* The blind update of processSuccess, processFailure, processCancelled,
\* processExpired and processRefunded.  A success also writes back the
\* transaction id the request read.
ApplyStatus(h) ==
  LET p == job[h].pay
      e == job[h].event
  IN /\ job[h].pc = "apply"
     /\ payment' = [payment EXCEPT ![p] = StatusOf(e)]
     /\ IF e = "successful"
        THEN /\ transactionId' = [transactionId EXCEPT ![p] = job[h].txid]
             /\ Goto(h, "activate")
        ELSE /\ Finish(h)
             /\ UNCHANGED transactionId
     /\ UNCHANGED <<invoice, activated, gateway, failures>>

\* activateSubscriptionForPayment, one step here: its two
\* writes are steps of Subscriptions.
Activate(h) ==
  /\ job[h].pc = "activate"
  /\ activated' = [activated EXCEPT ![job[h].pay] = @ + 1]
  /\ Goto(h, "invoice")
  /\ UNCHANGED <<payment, transactionId, invoice, gateway, failures>>

\* Invoice.paymentId is unique: the second create of a payment is refused
\* and the request ends there with a conflict.
CreateInvoice(h) ==
  /\ job[h].pc = "invoice"
  /\ job[h].pay \notin invoice
  /\ invoice' = invoice \union {job[h].pay}
  /\ Finish(h)
  /\ UNCHANGED <<payment, transactionId, activated, gateway, failures>>

InvoiceConflict(h) ==
  /\ job[h].pc = "invoice"
  /\ job[h].pay \in invoice
  /\ Finish(h)
  /\ UNCHANGED <<payment, transactionId, invoice, activated, gateway, failures>>

\* The instance stops, or an awaited write between two steps (an audit row,
\* a notification, the status itself) throws: the rest of the request is lost.
Abort(h) ==
  /\ job[h].pc \in {"saveId", "apply", "activate", "invoice"}
  /\ failures < MaxFailures
  /\ failures' = failures + 1
  /\ Finish(h)
  /\ UNCHANGED <<payment, transactionId, invoice, activated, gateway>>
-----------------------------------------------------------------------------
Step(h) ==
  \/ OpenSession(h) \/ SaveTransactionId(h)
  \/ VerifyAnswered(h) \/ VerifyInconclusive(h)
  \/ ApplyStatus(h) \/ Activate(h) \/ CreateInvoice(h) \/ InvoiceConflict(h)

Next ==
  \/ \E h \in Handlers : Step(h) \/ SessionFails(h) \/ Abort(h)
  \/ \E h \in Handlers, p \in Payments :
       \/ CreatePayment(h, p)
       \/ BeginVerify(h, p)
       \/ \E event \in Events : ReceiveWebhook(h, p, event)
  \/ \E p \in Payments : Settle(p) \/ Refund(p)

Spec == Init /\ [][Next]_vars

\* Node runs every continuation of a request that the database or the gateway
\* answers; the gateway keeps delivering an event that has not been recorded.
Fairness ==
  /\ \A h \in Handlers : WF_vars(Step(h))
  /\ \A p \in Payments :
       SF_vars(\E h \in Handlers : ReceiveWebhook(h, p, "successful"))

FairSpec == Spec /\ Fairness
-----------------------------------------------------------------------------
(* Properties. *)

Charged(p) == gateway[p] \in {"successful", "refunded"}

\* The server believes a customer has paid - a SUCCESSFUL row, an activated
\* subscription, an invoice - only when the gateway did charge the customer,
\* although webhooks and verifications act on rows read long before.
PaidOnlyIfCharged ==
  \A p \in Payments :
    payment[p] = "SUCCESSFUL" \/ activated[p] > 0 \/ p \in invoice
      => Charged(p)

\* processSuccess unlocks before it bills: a payment with an invoice has
\* activated the subscription, also when two requests process it at once.
InvoiceOnlyIfActivated == \A p \in invoice : activated[p] > 0

\* A payment re-activates the subscription only through requests that were in
\* flight together: processing one payment again and again, one request after
\* another, never adds an activation.
ActivationsBounded ==
  \A p \in Payments : activated[p] <= Cardinality(Handlers)

InPipeline(p) ==
  \E h \in Handlers : job[h].pay = p /\ job[h].pc \in {"activate", "invoice"}

\* A SUCCESSFUL payment that no request is working on has its invoice, and so
\* its activation, unless a request died on the way: nothing else strands a
\* paying customer.
StrandedOnlyByFailure ==
  \A p \in Payments :
    payment[p] = "SUCCESSFUL" /\ p \notin invoice /\ ~InPipeline(p)
      => failures > 0

\* Late or repeated events never undo a success: a SUCCESSFUL row changes only
\* to REFUNDED.
SuccessOnlyRefunded ==
  [][\A p \in Payments :
       payment[p] = "SUCCESSFUL"
         => payment'[p] \in {"SUCCESSFUL", "REFUNDED"}]_vars

\* A payment the gateway declined, cancelled or let expire never turns into
\* another outcome, whatever arrives afterwards.
DeclineIsFinal ==
  [][\A p \in Payments :
       payment[p] \in {"FAILED", "CANCELLED", "EXPIRED"}
         => payment'[p] = payment[p]]_vars

\* Outcomes are kept: no event that comes late or again (handle,
\* verifyPayment) makes another outcome of a success or of a decline, but
\* for the refund of a success.
OutcomesAreKept == SuccessOnlyRefunded /\ DeclineIsFinal

\* A charge the gateway keeps reporting is recorded, although requests die.
ChargeIsRecorded ==
  \A p \in Payments :
    gateway[p] = "successful" ~> payment[p] \in {"SUCCESSFUL", "REFUNDED"}

\* A charge is invoiced, and so has unlocked the subscription, unless it is
\* refunded first or a request died on the way.
ChargeIsInvoiced ==
  \A p \in Payments :
    gateway[p] = "successful"
      ~> p \in invoice \/ gateway[p] = "refunded" \/ failures > 0

\* The stage of the ledger a payment is in; see PaymentLedger.
Stage(p) ==
  CASE p \in invoice                                -> "invoiced"
    [] p \notin invoice /\ activated[p] > 0         -> "unlocked"
    [] p \notin invoice /\ activated[p] = 0 /\ Charged(p) -> "charged"
    [] OTHER                                        -> "unpaid"

LedgerStage == [p \in Payments |-> Stage(p)]

Ledger == INSTANCE PaymentLedger WITH stage <- LedgerStage

\* The handlers implement the ledger: charge, then unlock, then invoice.
ImplementsLedger == Ledger!LedgerSpec
-----------------------------------------------------------------------------
(* A statement of the repository that the interleavings above refute. *)

\* webhook.service.ts:55 and subscription.service.ts:503: processing is
\* idempotent, so one payment activates the subscription at most once.
ActivatedAtMostOnce == \A p \in Payments : activated[p] <= 1
=============================================================================
