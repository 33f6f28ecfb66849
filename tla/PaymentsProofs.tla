--------------------------- MODULE PaymentsProofs ---------------------------
(***************************************************************************)
(* Proofs about Payments for any set of payments, any finite set of        *)
(* requests in flight and any number of failures.                          *)
(***************************************************************************)
EXTENDS Payments, FiniteSetTheorems, TLAPS

\* What a request in flight knows about the payment it works on.
JobInv ==
  \A h \in Handlers :
    /\ job[h].pc # "idle" => /\ job[h].pay \in Payments
                             /\ payment[job[h].pay] # "NONE"
    /\ job[h].pc = "session" => gateway[job[h].pay] = "absent"
    /\ job[h].pc = "apply" => job[h].event \in Sent(job[h].pay)
    /\ job[h].pc \in {"activate", "invoice"} =>
         /\ Charged(job[h].pay)
         /\ payment[job[h].pay] \in Terminal
    /\ job[h].pc = "invoice" => activated[job[h].pay] > 0

\* Only one request opens the session of a payment.
SessionInv ==
  \A h1, h2 \in Handlers :
    /\ job[h1].pc = "session"
    /\ job[h2].pc = "session"
    /\ job[h1].pay = job[h2].pay
    => h1 = h2

\* What a row says agrees with what the gateway did.
RowInv ==
  \A p \in Payments :
    /\ payment[p] = "NONE" => gateway[p] = "absent"
    /\ payment[p] = "SUCCESSFUL" => Charged(p)
    /\ payment[p] = "FAILED" => gateway[p] = "failed"
    /\ payment[p] = "CANCELLED" => gateway[p] = "cancelled"
    /\ payment[p] = "EXPIRED" => gateway[p] = "expired"
    /\ payment[p] = "REFUNDED" => gateway[p] = "refunded"
    /\ activated[p] > 0 => Charged(p) /\ payment[p] \in Terminal
    /\ p \in invoice => activated[p] > 0

IInv == TypeOK /\ JobInv /\ SessionInv /\ RowInv
-----------------------------------------------------------------------------
(* The model stays within its types. *)

LEMMA InitTypeOK == Init => TypeOK
  BY PaymentsAssumption
  DEF Init, TypeOK, PaymentStatus, GatewayStatus, Job, Idle

\* The jobs the actions write are jobs.
LEMMA JobStep ==
  ASSUME TypeOK, NEW h \in Handlers, job[h].pc # "idle"
  PROVE  /\ job[h] \in BusyJob
         /\ job[h].pay \in Payments
         /\ job[h].txid \in BOOLEAN
         /\ Finish(h) => job' \in [Handlers -> Job]
         /\ \A pc \in {"session", "saveId", "verifying", "apply", "activate",
                       "invoice"} :
              Goto(h, pc) => job' \in [Handlers -> Job]
<1>1. /\ job[h] \in BusyJob
      /\ job[h].pay \in Payments
      /\ job[h].txid \in BOOLEAN
      BY DEF TypeOK, Job, BusyJob, Idle
<1>2. Finish(h) => job' \in [Handlers -> Job]
      BY DEF TypeOK, Job, Finish
<1>3. ASSUME NEW pc \in {"session", "saveId", "verifying", "apply",
                         "activate", "invoice"},
             Goto(h, pc)
      PROVE  job' \in [Handlers -> Job]
  <2>1. [job[h] EXCEPT !.pc = pc] \in BusyJob
        BY <1>1 DEF BusyJob
  <2> QED
      BY <1>3, <2>1 DEF TypeOK, Goto, Job
<1> QED
    BY <1>1, <1>2, <1>3

LEMMA NextTypeOK == TypeOK /\ [Next]_vars => TypeOK'
<1> SUFFICES ASSUME TypeOK, [Next]_vars PROVE TypeOK'
    OBVIOUS
<1> USE PaymentsAssumption
    DEF TypeOK, PaymentStatus, Terminal, GatewayStatus, Events, Outcomes,
        StatusOf
<1>1. ASSUME NEW h \in Handlers, OpenSession(h) PROVE TypeOK'
      BY <1>1, JobStep DEF OpenSession
<1>2. ASSUME NEW h \in Handlers, SessionFails(h) PROVE TypeOK'
      BY <1>2, JobStep DEF SessionFails
<1>3. ASSUME NEW h \in Handlers, SaveTransactionId(h) PROVE TypeOK'
      BY <1>3, JobStep DEF SaveTransactionId
<1>4. ASSUME NEW h \in Handlers, VerifyAnswered(h) PROVE TypeOK'
  <2>1. PICK txid \in {job[h].txid, TRUE} :
          job' = [job EXCEPT ![h] = [pc |-> "apply", pay |-> job[h].pay,
                                     event |-> gateway[job[h].pay],
                                     txid |-> txid]]
        BY <1>4 DEF VerifyAnswered
  <2>2. txid \in BOOLEAN /\ job[h].pay \in Payments
        BY <1>4, JobStep DEF VerifyAnswered
  <2>3. [pc |-> "apply", pay |-> job[h].pay, event |-> gateway[job[h].pay],
         txid |-> txid] \in BusyJob
        BY <1>4, <2>2 DEF VerifyAnswered, BusyJob
  <2>4. job' \in [Handlers -> Job]
        BY <2>1, <2>3 DEF Job
  <2> QED
      BY <1>4, <2>4 DEF VerifyAnswered
<1>5. ASSUME NEW h \in Handlers, VerifyInconclusive(h) PROVE TypeOK'
      BY <1>5, JobStep DEF VerifyInconclusive
<1>6. ASSUME NEW h \in Handlers, ApplyStatus(h) PROVE TypeOK'
  <2>1. job[h].txid \in BOOLEAN /\ job' \in [Handlers -> Job]
        BY <1>6, JobStep DEF ApplyStatus
  <2>2. payment' \in [Payments -> PaymentStatus]
        BY <1>6 DEF ApplyStatus
  <2>3. transactionId' \in [Payments -> BOOLEAN]
        BY <1>6, <2>1, Zenon DEF ApplyStatus
  <2> QED
      BY <1>6, <2>1, <2>2, <2>3 DEF ApplyStatus
<1>7. ASSUME NEW h \in Handlers, Activate(h) PROVE TypeOK'
      BY <1>7, JobStep DEF Activate
<1>8. ASSUME NEW h \in Handlers, CreateInvoice(h) PROVE TypeOK'
      BY <1>8, JobStep DEF CreateInvoice
<1>9. ASSUME NEW h \in Handlers, InvoiceConflict(h) PROVE TypeOK'
      BY <1>9, JobStep DEF InvoiceConflict
<1>10. ASSUME NEW h \in Handlers, Abort(h) PROVE TypeOK'
      BY <1>10, JobStep DEF Abort
<1>11. ASSUME NEW h \in Handlers, NEW p \in Payments, CreatePayment(h, p)
       PROVE TypeOK'
      BY <1>11 DEF CreatePayment, Job, BusyJob, Idle
<1>12. ASSUME NEW h \in Handlers, NEW p \in Payments, BeginVerify(h, p)
       PROVE TypeOK'
      BY <1>12 DEF BeginVerify, Job, BusyJob, Idle
<1>13. ASSUME NEW h \in Handlers, NEW p \in Payments, NEW event \in Events,
              ReceiveWebhook(h, p, event)
       PROVE TypeOK'
      BY <1>13 DEF ReceiveWebhook, Job, BusyJob
<1>14. ASSUME NEW p \in Payments, Settle(p) PROVE TypeOK'
      BY <1>14 DEF Settle
<1>15. ASSUME NEW p \in Payments, Refund(p) PROVE TypeOK'
      BY <1>15 DEF Refund
<1>16. CASE UNCHANGED vars
      BY <1>16 DEF vars
<1> QED
    BY <1>1, <1>2, <1>3, <1>4, <1>5, <1>6, <1>7, <1>8, <1>9, <1>10, <1>11,
       <1>12, <1>13, <1>14, <1>15, <1>16
    DEF Next, Step

\* Every variable keeps its type, whatever requests the server runs and
\* wherever they die.
THEOREM TypeCorrect == Spec => []TypeOK
  BY InitTypeOK, NextTypeOK, PTL DEF Spec
-----------------------------------------------------------------------------
(* The inductive invariant. *)

LEMMA InitIInv == Init => IInv
  BY InitTypeOK DEF Init, IInv, JobInv, SessionInv, RowInv, Idle

LEMMA NextIInv == IInv /\ [Next]_vars => IInv'
<1> SUFFICES ASSUME IInv, [Next]_vars
             PROVE  JobInv' /\ SessionInv' /\ RowInv'
    BY NextTypeOK DEF IInv
<1> USE DEF IInv, TypeOK, JobInv, SessionInv, RowInv, Sent, Charged, Idle, Goto,
            Finish
<1>1. ASSUME NEW h \in Handlers, OpenSession(h)
      PROVE  JobInv' /\ SessionInv' /\ RowInv'
  <2>1. /\ job[h].pay \in Payments
        /\ gateway[job[h].pay] = "absent"
        /\ payment[job[h].pay] # "NONE"
        BY <1>1 DEF OpenSession
  <2>2. /\ gateway' = [gateway EXCEPT ![job[h].pay] = "pending"]
        /\ UNCHANGED <<payment, invoice, activated>>
        BY <1>1 DEF OpenSession
  <2>3. /\ \A k \in Handlers \ {h} : job'[k] = job[k]
        /\ job'[h].pc \in {"saveId", "idle"}
        /\ job'[h].pc = "saveId" => job'[h].pay = job[h].pay
    <3>1. job[h] \in BusyJob
          BY <1>1, JobStep DEF OpenSession
    <3> QED
        BY <1>1, <3>1 DEF OpenSession, BusyJob
  <2>4. JobInv'
    <3> SUFFICES ASSUME NEW k \in Handlers, k # h
                 PROVE  JobInv!(k)'
        BY <2>1, <2>2, <2>3
    <3> QED
        BY <1>1, <2>1, <2>2, <2>3 DEF OpenSession
  <2>5. SessionInv'
        BY <2>3
  <2>6. RowInv'
        BY <2>1, <2>2 DEF Terminal
  <2> QED
      BY <2>4, <2>5, <2>6
<1>2. ASSUME NEW h \in Handlers, SessionFails(h)
      PROVE  JobInv' /\ SessionInv' /\ RowInv'
      BY <1>2 DEF SessionFails, Terminal
<1>3. ASSUME NEW h \in Handlers, SaveTransactionId(h)
      PROVE  JobInv' /\ SessionInv' /\ RowInv'
      BY <1>3 DEF SaveTransactionId, Terminal
<1>4. ASSUME NEW h \in Handlers, VerifyAnswered(h)
      PROVE  JobInv' /\ SessionInv' /\ RowInv'
  <2>1. job[h].pay \in Payments /\ payment[job[h].pay] # "NONE"
        BY <1>4 DEF VerifyAnswered
  <2>2. gateway[job[h].pay] \in Sent(job[h].pay)
        BY <1>4 DEF VerifyAnswered, Events, Outcomes
  <2>3. /\ \A k \in Handlers \ {h} : job'[k] = job[k]
        /\ job'[h].pc = "apply"
        /\ job'[h].pay = job[h].pay
        /\ job'[h].event = gateway[job[h].pay]
        BY <1>4 DEF VerifyAnswered
  <2>4. UNCHANGED <<payment, invoice, activated, gateway>>
        BY <1>4 DEF VerifyAnswered
  <2> QED
      BY <2>1, <2>2, <2>3, <2>4
<1>5. ASSUME NEW h \in Handlers, VerifyInconclusive(h)
      PROVE  JobInv' /\ SessionInv' /\ RowInv'
      BY <1>5 DEF VerifyInconclusive, Terminal
<1>6. ASSUME NEW h \in Handlers, ApplyStatus(h)
      PROVE  JobInv' /\ SessionInv' /\ RowInv'
  <2> DEFINE p == job[h].pay
             e == job[h].event
  <2>1. p \in Payments /\ e \in Sent(p)
        BY <1>6 DEF ApplyStatus
  <2>2. /\ payment' = [payment EXCEPT ![p] = StatusOf(e)]
        /\ UNCHANGED <<invoice, activated, gateway>>
        BY <1>6 DEF ApplyStatus
  <2>3. /\ e \in Events
        /\ StatusOf(e) \in Terminal
        /\ StatusOf(e) = "SUCCESSFUL" => e = "successful"
        /\ StatusOf(e) = "FAILED" => e = "failed"
        /\ StatusOf(e) = "CANCELLED" => e = "cancelled"
        /\ StatusOf(e) = "EXPIRED" => e = "expired"
        /\ StatusOf(e) = "REFUNDED" => e = "refunded"
        BY <2>1 DEF StatusOf, Terminal, Events, Outcomes, GatewayStatus
  <2>4. /\ \A k \in Handlers \ {h} : job'[k] = job[k]
        /\ job'[h].pc \in {"activate", "idle"}
        /\ job'[h].pc = "activate" => job'[h].pay = p /\ e = "successful"
    <3>1. job[h] \in BusyJob
          BY <1>6, JobStep DEF ApplyStatus
    <3> QED
        BY <1>6, <3>1 DEF ApplyStatus, BusyJob
  <2>5. RowInv'
        BY <2>1, <2>2, <2>3 DEF Terminal
  <2>6. JobInv'
    <3>1. ASSUME NEW k \in Handlers, k # h
          PROVE  JobInv!(k)'
          BY <2>1, <2>2, <2>3, <2>4, <3>1 DEF Terminal
    <3>2. JobInv!(h)'
          BY <2>1, <2>2, <2>3, <2>4 DEF Terminal
    <3> QED
        BY <3>1, <3>2
  <2>7. SessionInv'
        BY <2>4
  <2> QED
      BY <2>5, <2>6, <2>7
<1>7. ASSUME NEW h \in Handlers, Activate(h)
      PROVE  JobInv' /\ SessionInv' /\ RowInv'
      BY <1>7 DEF Activate, Terminal
<1>8. ASSUME NEW h \in Handlers, CreateInvoice(h)
      PROVE  JobInv' /\ SessionInv' /\ RowInv'
      BY <1>8 DEF CreateInvoice, Terminal
<1>9. ASSUME NEW h \in Handlers, InvoiceConflict(h)
      PROVE  JobInv' /\ SessionInv' /\ RowInv'
      BY <1>9 DEF InvoiceConflict, Terminal
<1>10. ASSUME NEW h \in Handlers, Abort(h)
      PROVE  JobInv' /\ SessionInv' /\ RowInv'
      BY <1>10 DEF Abort, Terminal
<1>11. ASSUME NEW h \in Handlers, NEW p \in Payments, CreatePayment(h, p)
       PROVE  JobInv' /\ SessionInv' /\ RowInv'
      BY <1>11 DEF CreatePayment, Terminal
<1>12. ASSUME NEW h \in Handlers, NEW p \in Payments, BeginVerify(h, p)
       PROVE  JobInv' /\ SessionInv' /\ RowInv'
      BY <1>12 DEF BeginVerify, Terminal
<1>13. ASSUME NEW h \in Handlers, NEW p \in Payments, NEW event \in Events,
              ReceiveWebhook(h, p, event)
       PROVE  JobInv' /\ SessionInv' /\ RowInv'
      BY <1>13 DEF ReceiveWebhook, Terminal
<1>14. ASSUME NEW p \in Payments, Settle(p)
       PROVE  JobInv' /\ SessionInv' /\ RowInv'
      BY <1>14 DEF Settle, Outcomes, Terminal
<1>15. ASSUME NEW p \in Payments, Refund(p)
       PROVE  JobInv' /\ SessionInv' /\ RowInv'
      BY <1>15 DEF Refund, Outcomes, Terminal
<1>16. CASE UNCHANGED vars
      BY <1>16 DEF vars
<1> QED
    BY <1>1, <1>2, <1>3, <1>4, <1>5, <1>6, <1>7, <1>8, <1>9, <1>10,
       <1>11, <1>12, <1>13, <1>14, <1>15, <1>16
    DEF Next, Step

\* The strengthening that the safety theorems below rest on.
THEOREM Invariance == Spec => []IInv
  BY InitIInv, NextIInv, PTL DEF Spec
-----------------------------------------------------------------------------
(* Safety. *)

\* No row, activation or invoice says a customer paid who was not charged.
THEOREM NoServiceWithoutCharge == Spec => []PaidOnlyIfCharged
<1>1. IInv => PaidOnlyIfCharged
      BY DEF IInv, RowInv, PaidOnlyIfCharged
<1> QED
    BY <1>1, Invariance, PTL

\* Nobody is invoiced for a subscription that was not unlocked.
THEOREM NoInvoiceWithoutActivation == Spec => []InvoiceOnlyIfActivated
<1>1. IInv => InvoiceOnlyIfActivated
      BY DEF IInv, TypeOK, RowInv, InvoiceOnlyIfActivated
<1> QED
    BY <1>1, Invariance, PTL

\* What a request may write into the row it works on.
LEMMA AppliedStatus ==
  ASSUME IInv, NEW h \in Handlers, ApplyStatus(h), NEW p \in Payments
  PROVE  /\ payment[p] = "SUCCESSFUL"
              => payment'[p] \in {"SUCCESSFUL", "REFUNDED"}
         /\ payment[p] \in {"FAILED", "CANCELLED", "EXPIRED"}
              => payment'[p] = payment[p]
<1>1. CASE p # job[h].pay
      BY <1>1 DEF IInv, TypeOK, ApplyStatus
<1>2. CASE p = job[h].pay
  <2>1. job[h].event \in Sent(p)
        BY <1>2 DEF IInv, JobInv, ApplyStatus
  <2>2. payment'[p] = StatusOf(job[h].event)
        BY <1>2 DEF IInv, TypeOK, ApplyStatus
  <2> QED
      BY <2>1, <2>2 DEF IInv, RowInv, Charged, Sent, StatusOf
<1> QED
    BY <1>1, <1>2

\* No other step touches a row that has left INITIATED.
LEMMA OtherStepsKeepStatus ==
  ASSUME IInv, [Next]_vars, \A h \in Handlers : ~ApplyStatus(h),
         NEW p \in Payments, payment[p] # "NONE"
  PROVE  payment'[p] = payment[p]
  BY DEF IInv, TypeOK, Next, Step, vars, OpenSession, SessionFails,
         SaveTransactionId, VerifyAnswered, VerifyInconclusive, Activate,
         CreateInvoice, InvoiceConflict, Abort, CreatePayment, BeginVerify,
         ReceiveWebhook, Settle, Refund

\* A recorded success is only ever replaced by its refund.
THEOREM SuccessIsKept == Spec => SuccessOnlyRefunded
<1>1. IInv /\ [Next]_vars
        => [\A p \in Payments :
              payment[p] = "SUCCESSFUL"
                => payment'[p] \in {"SUCCESSFUL", "REFUNDED"}]_vars
      BY AppliedStatus, OtherStepsKeepStatus
<1> QED
    BY <1>1, Invariance, PTL DEF Spec, SuccessOnlyRefunded

\* A decline, a cancellation and an expiry are final.
THEOREM DeclineIsKept == Spec => DeclineIsFinal
<1>1. IInv /\ [Next]_vars
        => [\A p \in Payments :
              payment[p] \in {"FAILED", "CANCELLED", "EXPIRED"}
                => payment'[p] = payment[p]]_vars
      BY AppliedStatus, OtherStepsKeepStatus
<1> QED
    BY <1>1, Invariance, PTL DEF Spec, DeclineIsFinal

\* Outcomes are kept, as the run checks it.
THEOREM OutcomesKept == Spec => OutcomesAreKept
  BY SuccessIsKept, DeclineIsKept, PTL DEF OutcomesAreKept

\* A recorded success without an invoice is being worked on, unless a request
\* died.
THEOREM OnlyFailureStrands == Spec => []StrandedOnlyByFailure
<1>1. Init => StrandedOnlyByFailure
      BY DEF Init, StrandedOnlyByFailure
<1>2. IInv /\ StrandedOnlyByFailure /\ [Next]_vars => StrandedOnlyByFailure'
  <2> SUFFICES ASSUME IInv, StrandedOnlyByFailure, [Next]_vars,
                      NEW p \in Payments, payment'[p] = "SUCCESSFUL",
                      p \notin invoice', failures' = 0
               PROVE  InPipeline(p)'
      BY NextTypeOK DEF IInv, TypeOK, StrandedOnlyByFailure
  <2> USE DEF IInv, TypeOK, StrandedOnlyByFailure, InPipeline
  <2>1. CASE \E h \in Handlers : ApplyStatus(h)
    <3>1. PICK h \in Handlers : ApplyStatus(h)
          BY <2>1
    <3>2. job[h] \in BusyJob
          BY <3>1, JobStep DEF ApplyStatus
    <3>3. CASE job[h].pay = p
          BY <3>1, <3>2, <3>3 DEF ApplyStatus, StatusOf, BusyJob, Goto, Finish
    <3>4. CASE job[h].pay # p
      <4>1. payment[p] = "SUCCESSFUL" /\ p \notin invoice /\ failures = 0
            BY <3>1, <3>4 DEF ApplyStatus
      <4>2. PICK k \in Handlers : job[k].pay = p
                                  /\ job[k].pc \in {"activate", "invoice"}
            BY <4>1
      <4>3. k # h /\ job'[k] = job[k]
            BY <3>1, <4>2 DEF ApplyStatus, Goto, Finish
      <4> QED
          BY <4>2, <4>3
    <3> QED
        BY <3>3, <3>4
  <2>2. CASE \E h \in Handlers : Activate(h) \/ CreateInvoice(h)
    <3>1. PICK h \in Handlers : Activate(h) \/ CreateInvoice(h)
          BY <2>2
    <3>2. job[h] \in BusyJob
          BY <3>1, JobStep DEF Activate, CreateInvoice
    <3>3. payment[p] = "SUCCESSFUL" /\ p \notin invoice /\ failures = 0
          BY <3>1 DEF Activate, CreateInvoice
    <3>4. PICK k \in Handlers : job[k].pay = p
                                /\ job[k].pc \in {"activate", "invoice"}
          BY <3>3
    <3>5. CASE k # h
          BY <3>1, <3>4, <3>5 DEF Activate, CreateInvoice, Goto, Finish
    <3>6. CASE k = h
          BY <3>1, <3>2, <3>4, <3>6
          DEF Activate, CreateInvoice, Goto, Finish, BusyJob
    <3> QED
        BY <3>5, <3>6
  <2>3. CASE \A h \in Handlers :
               ~ApplyStatus(h) /\ ~Activate(h) /\ ~CreateInvoice(h)
    <3> USE DEF Goto, Finish
    <3>1. ASSUME NEW h \in Handlers,
                 \/ OpenSession(h) \/ SessionFails(h) \/ SaveTransactionId(h)
                 \/ VerifyAnswered(h) \/ VerifyInconclusive(h)
                 \/ InvoiceConflict(h)
          PROVE  InPipeline(p)'
      <4>1. /\ UNCHANGED <<payment, invoice, failures>>
            /\ \A k \in Handlers \ {h} : job'[k] = job[k]
            /\ job[h].pc = "invoice" => job[h].pay \in invoice
            /\ job[h].pc # "activate"
            BY <3>1 DEF OpenSession, SessionFails, SaveTransactionId,
               VerifyAnswered, VerifyInconclusive, InvoiceConflict
      <4> QED
          BY <4>1
    <3>2. ASSUME NEW h \in Handlers, Abort(h)
          PROVE  FALSE
          BY <3>2 DEF Abort
    <3>3. ASSUME NEW h \in Handlers, NEW q \in Payments,
                 \/ CreatePayment(h, q) \/ BeginVerify(h, q)
                 \/ \E event \in Events : ReceiveWebhook(h, q, event)
          PROVE  InPipeline(p)'
      <4>1. /\ UNCHANGED <<invoice, failures>>
            /\ payment[p] = "SUCCESSFUL"
            /\ \A k \in Handlers \ {h} : job'[k] = job[k]
            /\ job[h].pc = "idle"
            BY <3>3 DEF CreatePayment, BeginVerify, ReceiveWebhook
      <4> QED
          BY <4>1
    <3>4. CASE \/ \E q \in Payments : Settle(q) \/ Refund(q)
               \/ UNCHANGED vars
          BY <3>4 DEF Settle, Refund, vars
    <3> QED
        BY <2>3, <3>1, <3>2, <3>3, <3>4 DEF Next, Step
  <2> QED
      BY <2>1, <2>2, <2>3
<1> QED
    BY <1>1, <1>2, Invariance, PTL DEF Spec
-----------------------------------------------------------------------------
(* The ledger. *)

\* A step that moves one payment, or none, moves the ledger by one step or
\* leaves it alone.
LEMMA LedgerStep ==
  ASSUME NEW r \in Payments,
         \A q \in Payments \ {r} : Stage(q)' = Stage(q),
         \/ Stage(r)' = Stage(r)
         \/ Stage(r) = "unpaid" /\ Stage(r)' = "charged"
         \/ Stage(r) = "charged" /\ Stage(r)' = "unlocked"
         \/ Stage(r) = "unlocked" /\ Stage(r)' = "invoiced"
  PROVE  [Ledger!LedgerNext]_LedgerStage
<1>1. CASE Stage(r)' = Stage(r)
  <2>1. LedgerStage' = LedgerStage
        BY <1>1 DEF LedgerStage
  <2> QED
      BY <2>1
<1>2. ASSUME NEW from, NEW to, Stage(r) = from, Stage(r)' = to
      PROVE  /\ LedgerStage[r] = from
             /\ LedgerStage' = [LedgerStage EXCEPT ![r] = to]
      BY <1>2 DEF LedgerStage
<1> QED
    BY <1>1, <1>2
    DEF Ledger!LedgerNext, Ledger!Charge, Ledger!Unlock, Ledger!Invoice,
        Ledger!Advance

\* Steps that leave the gateway, the activations and the invoices alone are
\* invisible to the ledger.
LEMMA LedgerStutter ==
  ASSUME UNCHANGED <<gateway, activated, invoice>>
  PROVE  [Ledger!LedgerNext]_LedgerStage
<1>1. \A q \in Payments : Stage(q)' = Stage(q)
      BY DEF Stage, Charged
<1> QED
    BY <1>1 DEF LedgerStage

\* Whatever the server's requests interleave, billing charges first, unlocks
\* second and invoices last, each once.
THEOREM LedgerRefinement == Spec => ImplementsLedger
<1>1. Init => Ledger!LedgerInit
      BY DEF Init, Ledger!LedgerInit, LedgerStage, Stage, Charged
<1>2. IInv /\ [Next]_vars
        => [Ledger!LedgerNext]_LedgerStage
  <2> SUFFICES ASSUME IInv, [Next]_vars
               PROVE  [Ledger!LedgerNext]_LedgerStage
      OBVIOUS
  <2> USE DEF IInv, TypeOK, Stage, Charged
  <2>1. ASSUME NEW h \in Handlers, OpenSession(h)
        PROVE  [Ledger!LedgerNext]_LedgerStage
    <3>1. /\ gateway[job[h].pay] = "absent"
          /\ job[h].pay \in Payments
          BY <2>1 DEF OpenSession, JobInv
    <3>2. \A q \in Payments : Stage(q)' = Stage(q)
          BY <2>1, <3>1 DEF OpenSession
    <3> QED
        BY <3>1, <3>2, LedgerStep
  <2>2. ASSUME NEW h \in Handlers, Activate(h)
        PROVE  [Ledger!LedgerNext]_LedgerStage
    <3>1. PICK r \in Payments : r = job[h].pay /\ Charged(r)
          BY <2>2 DEF Activate, JobInv
    <3>2. /\ activated'[r] = activated[r] + 1
          /\ \A q \in Payments \ {r} : activated'[q] = activated[q]
          /\ UNCHANGED <<gateway, invoice>>
          BY <2>2, <3>1 DEF Activate
    <3>3. \A q \in Payments \ {r} : Stage(q)' = Stage(q)
          BY <3>2
    <3>4. CASE activated[r] = 0
      <4>1. Stage(r) = "charged"
            BY <3>1, <3>4 DEF RowInv
      <4>2. Stage(r)' = "unlocked"
            BY <3>1, <3>2, <3>4 DEF RowInv
      <4> QED
          BY <3>1, <3>3, <4>1, <4>2, LedgerStep
    <3>5. CASE activated[r] > 0
      <4>1. Stage(r)' = Stage(r)
            BY <3>1, <3>2, <3>5
      <4> QED
          BY <3>1, <3>3, <4>1, LedgerStep
    <3> QED
        BY <3>1, <3>4, <3>5
  <2>3. ASSUME NEW h \in Handlers, CreateInvoice(h)
        PROVE  [Ledger!LedgerNext]_LedgerStage
    <3>1. PICK r \in Payments : r = job[h].pay /\ activated[r] > 0
          BY <2>3 DEF CreateInvoice, JobInv
    <3>2. /\ Stage(r) = "unlocked"
          /\ Stage(r)' = "invoiced"
          /\ \A q \in Payments \ {r} : Stage(q)' = Stage(q)
          BY <2>3, <3>1 DEF CreateInvoice
    <3> QED
        BY <3>1, <3>2, LedgerStep
  <2>4. ASSUME NEW r \in Payments, Settle(r)
        PROVE  [Ledger!LedgerNext]_LedgerStage
    <3>1. Stage(r) = "unpaid"
          BY <2>4 DEF Settle, RowInv
    <3>2. /\ Stage(r)' \in {"unpaid", "charged"}
          /\ \A q \in Payments \ {r} : Stage(q)' = Stage(q)
          BY <2>4, <3>1 DEF Settle, RowInv
    <3> QED
        BY <3>1, <3>2, LedgerStep
  <2>5. ASSUME NEW r \in Payments, Refund(r)
        PROVE  [Ledger!LedgerNext]_LedgerStage
    <3>1. \A q \in Payments : Stage(q)' = Stage(q)
          BY <2>5 DEF Refund
    <3> QED
        BY <3>1, LedgerStep
  <2>6. CASE UNCHANGED <<gateway, activated, invoice>>
        BY <2>6, LedgerStutter
  <2> QED
      BY <2>1, <2>2, <2>3, <2>4, <2>5, <2>6
      DEF Next, Step, vars, SessionFails, SaveTransactionId, VerifyAnswered,
          VerifyInconclusive, ApplyStatus, InvoiceConflict, Abort,
          CreatePayment, BeginVerify, ReceiveWebhook
<1> QED
    BY <1>1, <1>2, Invariance, PTL DEF Spec, ImplementsLedger, Ledger!LedgerSpec
-----------------------------------------------------------------------------
(* Activations of one payment. *)

\* The requests that may still activate payment p.
InFlight(p) ==
  {h \in Handlers :
     /\ job[h].pay = p
     /\ \/ job[h].pc \in {"verifying", "activate"}
        \/ job[h].pc = "apply" /\ job[h].event = "successful"}

BoundInv ==
  \A p \in Payments :
    activated[p] + Cardinality(InFlight(p)) <= Cardinality(Handlers)

LEMMA InFlightCardinality ==
  /\ Cardinality(Handlers) \in Nat
  /\ \A S \in SUBSET Handlers :
       /\ IsFiniteSet(S)
       /\ Cardinality(S) \in Nat
       /\ Cardinality(S) <= Cardinality(Handlers)
       /\ \A T \in SUBSET S : Cardinality(T) <= Cardinality(S)
       /\ \A h \in S : Cardinality(S \ {h}) = Cardinality(S) - 1
<1>1. \A S \in SUBSET Handlers : IsFiniteSet(S)
      BY PaymentsAssumption, FS_Subset
<1> QED
    BY <1>1, PaymentsAssumption, FS_Subset, FS_CardinalityType,
       FS_RemoveElement

\* A request joins those that may activate p only while the row is open, and
\* leaves them by the activation it performs.
LEMMA InFlightStep ==
  ASSUME IInv, [Next]_vars, NEW p \in Payments
  PROVE  \/ activated'[p] = 0
         \/ activated'[p] = activated[p] /\ InFlight(p)' \subseteq InFlight(p)
         \/ \E h \in InFlight(p) : /\ activated'[p] = activated[p] + 1
                                   /\ InFlight(p)' \subseteq InFlight(p) \ {h}
<1> USE DEF IInv, TypeOK, InFlight, Goto, Finish
<1>1. ASSUME NEW h \in Handlers,
             \/ OpenSession(h) \/ SessionFails(h) \/ SaveTransactionId(h)
             \/ VerifyInconclusive(h) \/ CreateInvoice(h)
             \/ InvoiceConflict(h) \/ Abort(h)
      PROVE  activated'[p] = activated[p] /\ InFlight(p)' \subseteq InFlight(p)
  <2>1. job[h] \in BusyJob
        BY <1>1, JobStep DEF OpenSession, SessionFails, SaveTransactionId,
           VerifyInconclusive, CreateInvoice, InvoiceConflict, Abort
  <2>2. /\ UNCHANGED activated
        /\ \A k \in Handlers \ {h} : job'[k] = job[k]
        /\ job'[h].pc \in {"idle", "saveId"}
        BY <1>1, <2>1 DEF OpenSession, SessionFails, SaveTransactionId,
           VerifyInconclusive, CreateInvoice, InvoiceConflict, Abort, Idle,
           BusyJob
  <2> QED
      BY <2>2
<1>2. ASSUME NEW h \in Handlers, VerifyAnswered(h) \/ ApplyStatus(h)
      PROVE  activated'[p] = activated[p] /\ InFlight(p)' \subseteq InFlight(p)
  <2>1. job[h] \in BusyJob
        BY <1>2, JobStep DEF VerifyAnswered, ApplyStatus
  <2>2. /\ UNCHANGED activated
        /\ \A k \in Handlers \ {h} : job'[k] = job[k]
        /\ job'[h].pc # "idle" => job'[h].pay = job[h].pay
        /\ \/ job[h].pc = "verifying" /\ job'[h].pc = "apply"
           \/ job[h].pc = "apply" /\ job[h].event = "successful"
           \/ job'[h].pc = "idle"
        BY <1>2, <2>1 DEF VerifyAnswered, ApplyStatus, Idle, BusyJob
  <2> QED
      BY <2>2
<1>3. ASSUME NEW h \in Handlers, Activate(h)
      PROVE  \/ activated'[p] = activated[p] /\ InFlight(p)' \subseteq InFlight(p)
             \/ \E k \in InFlight(p) :
                  /\ activated'[p] = activated[p] + 1
                  /\ InFlight(p)' \subseteq InFlight(p) \ {k}
  <2>1. job[h] \in BusyJob
        BY <1>3, JobStep DEF Activate
  <2>2. /\ \A k \in Handlers \ {h} : job'[k] = job[k]
        /\ job[h].pc = "activate"
        /\ job'[h].pc = "invoice"
        BY <1>3, <2>1 DEF Activate, BusyJob
  <2>3. InFlight(p)' \subseteq InFlight(p) \ {h}
        BY <2>2
  <2>4. CASE job[h].pay = p
        BY <1>3, <2>2, <2>3, <2>4 DEF Activate
  <2>5. CASE job[h].pay # p
        BY <1>3, <2>3, <2>5 DEF Activate
  <2> QED
      BY <2>4, <2>5
<1>4. ASSUME NEW h \in Handlers, NEW q \in Payments,
             \/ CreatePayment(h, q) \/ BeginVerify(h, q)
             \/ \E event \in Events : ReceiveWebhook(h, q, event)
      PROVE  \/ activated'[p] = 0
             \/ activated'[p] = activated[p] /\ InFlight(p)' \subseteq InFlight(p)
  <2>1. /\ UNCHANGED activated
        /\ \A k \in Handlers \ {h} : job'[k] = job[k]
        BY <1>4 DEF CreatePayment, BeginVerify, ReceiveWebhook
  <2>2. \/ job'[h].pay = q /\ payment[q] \notin Terminal
        \/ job'[h].pc = "apply" /\ job'[h].event = "refunded"
    <3>1. CASE CreatePayment(h, q)
          BY <3>1 DEF CreatePayment, Idle, Terminal
    <3>2. CASE BeginVerify(h, q)
          BY <3>2 DEF BeginVerify, Idle
    <3>3. ASSUME NEW event \in Events, ReceiveWebhook(h, q, event)
          PROVE  \/ job'[h].pay = q /\ payment[q] \notin Terminal
                 \/ job'[h].pc = "apply" /\ job'[h].event = "refunded"
      <4>1. job'[h] = [pc |-> "apply", pay |-> q, event |-> event,
                       txid |-> transactionId[q]]
            BY <3>3 DEF ReceiveWebhook
      <4> QED
          BY <3>3, <4>1 DEF ReceiveWebhook, Ignores
    <3> QED
        BY <1>4, <3>1, <3>2, <3>3
  <2>3. CASE job'[h].pay = p /\ payment[p] \notin Terminal
        BY <2>1, <2>3 DEF RowInv
  <2>4. CASE ~(job'[h].pay = p /\ payment[p] \notin Terminal)
        BY <2>1, <2>2, <2>4
  <2> QED
      BY <2>3, <2>4
<1>5. CASE UNCHANGED <<job, activated>>
      BY <1>5
<1> QED
    BY <1>1, <1>2, <1>3, <1>4, <1>5 DEF Next, Step, Settle, Refund, vars

\* One payment activates the subscription at most once per request in flight.
THEOREM BoundedActivations == Spec => []ActivationsBounded
<1> USE InFlightCardinality
<1>1. Init => BoundInv
      BY DEF Init, BoundInv, InFlight
<1>2. IInv /\ BoundInv /\ [Next]_vars => BoundInv'
  <2> SUFFICES ASSUME IInv, BoundInv, [Next]_vars, NEW p \in Payments
               PROVE  activated'[p] + Cardinality(InFlight(p)')
                        <= Cardinality(Handlers)
      BY DEF BoundInv
  <2>1. InFlight(p) \subseteq Handlers /\ InFlight(p)' \subseteq Handlers
        BY DEF InFlight
  <2>2. activated[p] \in Nat /\ activated'[p] \in Nat
        BY NextTypeOK DEF IInv, TypeOK
  <2>3. CASE activated'[p] = 0
        BY <2>1, <2>3
  <2>4. CASE /\ activated'[p] = activated[p]
             /\ InFlight(p)' \subseteq InFlight(p)
        BY <2>1, <2>2, <2>4 DEF BoundInv
  <2>5. ASSUME NEW h \in InFlight(p),
               activated'[p] = activated[p] + 1,
               InFlight(p)' \subseteq InFlight(p) \ {h}
        PROVE  activated'[p] + Cardinality(InFlight(p)') <= Cardinality(Handlers)
    <3>1. Cardinality(InFlight(p)') <= Cardinality(InFlight(p) \ {h})
          BY <2>1, <2>5
    <3>2. Cardinality(InFlight(p) \ {h}) = Cardinality(InFlight(p)) - 1
          BY <2>1
    <3>3. activated[p] + Cardinality(InFlight(p)) <= Cardinality(Handlers)
          BY DEF BoundInv
    <3> QED
        BY <2>1, <2>2, <2>5, <3>1, <3>2, <3>3
  <2> QED
      BY <2>3, <2>4, <2>5, InFlightStep
<1>3. IInv /\ BoundInv => ActivationsBounded
  <2> SUFFICES ASSUME IInv, BoundInv, NEW p \in Payments
               PROVE  activated[p] <= Cardinality(Handlers)
      BY DEF ActivationsBounded
  <2>1. InFlight(p) \in SUBSET Handlers /\ activated[p] \in Nat
        BY DEF InFlight, IInv, TypeOK
  <2> QED
      BY <2>1 DEF BoundInv
<1> QED
    BY <1>1, <1>2, <1>3, Invariance, PTL DEF Spec

\* A server that handles one request at a time is idempotent, as its comments
\* say: duplicates activate twice only by overlapping.
THEOREM SequentialIdempotence ==
  ASSUME Cardinality(Handlers) = 1
  PROVE  Spec => []ActivatedAtMostOnce
<1>1. ActivationsBounded => ActivatedAtMostOnce
      BY DEF ActivationsBounded, ActivatedAtMostOnce
<1> QED
    BY <1>1, BoundedActivations, PTL
=============================================================================
